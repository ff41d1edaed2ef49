# A verification of zyzzyva

TLA+ modules, model-checking runs and machine-checked proofs for the Go program in
this repository: a simplified Zyzzyva (speculative Byzantine fault tolerance) with
`N = 3F+1` servers, clients, batches of requests and checkpoints, over UDP.

Contents: [1 the system](#1-the-system) · [2 the modules](#2-the-modules) ·
[3 the runs](#3-the-runs) · [4 the proofs](#4-the-proofs) ·
[5 disagreements](#5-where-code-and-comments-disagree) ·
[6 not modelled](#6-what-is-not-modelled) · [7 plan](#7-plan)

## 1 The system

### 1.1 Components

| component | code | state | operations |
|---|---|---|---|
| intake and batching, at the primary | `pkg/server/start.go` 167-192, 248-307, 436-440 | `respCache`, `currentBatch`, `currentReqSig`, `batchTimer`, the goroutines | `handle` (request case), `forwardToPrimary`, `handleReqWithBatching`, the timer, `processBatch` up to taking the batch |
| ordering and execution | `start.go` 315-400, `order_req.go` | `history`, `historyHashes`, `nextSeq` | `processBatch` under `stateMu`, `handleOrderReq` |
| checkpoints | `start.go` 403-433, `cp.go` | `committedCP`, `tentativeCP` | `createCheckpoint`, `handleCP` |
| client | `pkg/client/start.go` | `inFlight`, `stats`, `responses`, `running`, `stopChan` | `Run` and its goroutines, `Stop`, `listenForResponses`, `handleMessage`, `processResponse`, `PrintStats` |
| locks and statistics of a server | `start.go` 129-154, 206-240, `cp.go` 112, `commit.go`, `cmd/server/main.go` 52-70 | `stateMu`, `batchMu`, `statsMu`, `stats` | every `Lock` and `Unlock`, `handleCommit`, `PrintStats`, the signal |
| UDP | `pkg/comm/udp.go` | receive buffers, sockets | `UdpSend`, `UdpMulticast`, `UdpListen`, `UdpListenMulticast` |
| configuration, keys, start-up | `pkg/conf`, `cmd/*/main.go`, `tools/genkeys.go` | package variables, environment, key files, sockets | initialisation, flags, `InitKeys`, `GetReqAddr`, `GetListenAddr` |
| messages, hashes, signatures | `pkg/msg`, `pkg/utils` | none | construction, `VerifySig`, `GenHash` |
| dead or external to the protocol | `server/req.go` (`handleReq` is never called), `deployments/`, `utils/log.go` | | |

### 1.2 How they interact

A client sends a signed request to one server (`-primary`). A server that is not the
primary forwards it. The primary checks the client's timestamp against its response
cache, adds the request to the current batch, and when the batch is full or its
timer fires a goroutine takes the batch, gives its requests consecutive sequence
numbers, extends its hash chain, multicasts one order request per request and sends
one speculative response per request. The other servers execute an order request if
its number is the next one and its hash continues their chain, and respond to the
client too. Whenever a server's history reaches a multiple of `CPInterval`, it takes
a tentative checkpoint and multicasts it; on `F+1` matching messages a server
commits the checkpoint and truncates its history. The client counts the first
response to a request it tracks as success.

Every datagram is handled in a goroutine of its own; goroutines share the server's
state under `stateMu`, `batchMu` and `statsMu`.

### 1.3 What is hard here, and what must hold

| component | hard behaviour | what makes it correct |
|---|---|---|
| intake and batching | handler goroutines, timer goroutine and batch goroutines interleave between two locks; requests are lost, repeated, forwarded, overtaken | nothing accepted is lost, ordered twice or stranded; accepted requests are ordered in the end |
| ordering and execution | order requests lost, repeated, reordered; hash chains restart after truncation | every server executes a prefix of the primary's log; responses for a number agree |
| checkpoints | votes early, late, for a replaced checkpoint; truncation by hash; primary counts by batch, the others by request | checkpoints agree, are committed by `F+1`, only advance; the history is exactly what is not covered |
| client | responses early, repeated, missing, more than the channel holds; a signal at any time; `Stop` from two goroutines | counters add up, `Run` ends |
| locks and statistics | three mutexes, two of them nested; early returns; the commit case unlocks another mutex than it locked; a signal in the middle | no section is entered twice or left locked, nobody waits for ever, every request is counted once |
| UDP | one receive buffer for all handlers, parsed twice; address and port of a message | a handler acts on a message that was sent, as what it was sent or as something that does no harm; a message reaches its addressee |
| start-up | order of variable initialisation, flags, environment; keys and ports by id | processes that run agree on the configuration, know each other's keys, can bind and reach each other |
| the whole | each part takes for granted what another provides | a client counts a request as successful once, when it is in the primary's log |

`PROJECT.json` lists the hazards line by line with the properties aimed at each.

## 2 The modules

| module | what it is | code |
|---|---|---|
| `RequestLog` | abstract: one log that grows by fresh batches | what the primary promises clients |
| `Ledger` | abstract: every server executes a prefix of the primary's log | what the servers promise together |
| `RequestTally` | abstract: a request is registered once and completes at most once | what a client promises |
| `Service` | abstract: requests are issued, get into one log, are executed, and succeed | what all promise together |
| `Batching` | from client request to ordered batch | intake and batching |
| `Replication` | ordering, execution, checkpoints on N servers | ordering and checkpoints |
| `Client` | one client process with its goroutines | client |
| `ServerLocks` | the goroutines of a server, its mutexes and statistics | locks and statistics |
| `Receiver` | the listeners, their buffers, and parsing | UDP, `DeType`, `VerifySig` |
| `ServerProcess` | `Receiver` and `ServerLocks` composed | one server process |
| `Deployment` | how processes start and reach each other | configuration, keys, start-up, addresses |
| `Zyzzyva` | `Batching`, `Replication` and `RequestTally` composed | the whole system |
| `MC*` | instances for TLC | |
| `SeqFacts`, `SumFacts` | lemmas on concatenation, and on sums over finite sets | |
| `*Proofs` | theorems about the module of that name | |

How the modules fit together (`=>` is "implements", shown by a refinement mapping):

    Batching      => RequestLog          Client        => RequestTally
    Replication   => Ledger              ServerProcess => ServerLocks
    Zyzzyva       => Batching, Replication, Service

`Zyzzyva` closes the gaps between the parts. `Replication!ProcessBatch` accepts any
batch that `RequestLog!FreshBatch` allows, and waits for others; in the composition the
batches are those of `Batching`, and they never have to wait (`OrderNeverBlocked`).
`RequestTally`, which `Client` implements, stands for the clients in the composition.
`ServerLocks` in turn justifies the grain of `Batching` and `Replication`, which take a
section under a mutex as one action: sections of one mutex exclude each other and all
of them come to an end.

### 2.1 Batching

State: `clock` and `sent` are the clients and the network (a request in `sent` may
be handled never, once or often, in any order); `respCache`, `currentBatch` are the
fields of that name; `timerArmed` says whether `batchTimer` runs; `admitted` holds
the handler goroutines between the section under `stateMu` and the one under
`batchMu`; `launched` counts `processBatch` goroutines that have not locked
`batchMu`, `taken` holds the batches of those between `batchMu` and `stateMu`;
`ordered` is the log.

| action | code |
|---|---|
| `SendRequest` | `sendRequest`, client `start.go` 339 |
| `ForwardToPrimary` | `handle` 187-192, `forwardToPrimary` |
| `CheckTimestamp` | `handleReqWithBatching` 255-267, under `stateMu` |
| `AddToBatch` | `handleReqWithBatching` 269-286, under `batchMu`, with the timer's `Reset` and `Stop` |
| `TimerFires` | `time.AfterFunc` of `NewServer` |
| `TakeBatch`, `OrderBatch` | `processBatch` under `batchMu`, then under `stateMu` |

A request is a client and a timestamp. `Stop` on a timer that already fired has no
effect on the goroutine it started: that goroutine is in `launched`.

### 2.2 Replication

State: the fields of `Server` as functions from servers; `msgs`, every message sent;
`handled`, what reached each server when the network is `Reliable`; `executed`, a
history variable. `Reliable = FALSE` is UDP: messages are never removed, so one may
be handled never, or again. `Reliable = TRUE` removes loss and duplication but not
reordering; it is used to show that a disagreement does not need a bad network.

| action | code |
|---|---|
| `ProcessBatch` | `processBatch` 315-400 with `createCheckpoint` |
| `HandleOrderReq`, `RefuseOrderReq` | `handleOrderReq`, with `createCheckpoint`; its early returns |
| `CommitCheckpoint`, `RecordVote`, `RefuseVote` | `handleCP`: committing, counting, early returns |

The three handlers hold `stateMu` from beginning to end, hence one action each. What
is abstracted, and why it is sound:

* `view` is never assigned after `NewServer` and `cmd/server` starts all servers in
  view 0, so the primary is a constant and the view check never fails.
* Every process runs this program, so signatures verify and digests match. Faulty
  servers are not modelled: the claims are about what correct servers do to each
  other on a bad network.
* A history hash is the sequence of requests hashed since the chain began. That
  assumes no SHA-512 collision, and keeps the restart of the chain visible: the
  chain is `<<>>` where the code starts from an empty hash.
* A goroutine that only sends is the message it sends.
* The statistics are left out; no guard reads them.

### 2.3 Client

State: `main` is where `Run` is, `handler` and `response` where the response
goroutine is and what it holds, `listener` the listener; `inFlight`, `running`,
`stopClosed` (of `stopChan`), `responses` (the channel) as in the code; `stop[p]`
where caller `p` of `Stop` is; `panicked` when a second `close` has ended the
process; `saved` what `PrintStats` wrote; `answered` a history variable.

Each section under `inflightMu` or `statsMu` is one action; the accesses of `Stop` to
the unlocked `running` and to `stopChan` are separate actions (`CheckRunning`,
`ClearRunning`, `CloseStopChan`). `running` is a data race in Go's memory model; a
machine word is read or written whole on the platforms it is built for, so the
outcomes are those of the interleavings. `FinishWaiting` ends the last wait of `Run` when
nothing is in flight, or after `WaitTimesOut`, its five seconds. The `select` with `break` at line 250 only
leaves the `select` and has no action. `sendRequest` always returns nil, so the
error branch is not reachable and `FailedRequests` stays 0.

The environment is open: the listener may read a response to any request sent, any
number of times, from before the request is registered on. A response is only a
timestamp because the handler looks at nothing else. The client is assumed to have
been pointed at the primary: `handleMessage` verifies the order request inside a
response against the key of `-primary`, so a client pointed elsewhere drops every
response.

### 2.4 ServerLocks

State: `at[g]` is the place of a goroutine (waiting for a mutex, or in a section),
`owner` who locked each mutex, `process` whether the process runs, `batch` the length of
`currentBatch`, `due` the `processBatch` runs that a full batch or the timer may start,
`size[g]` the batch a goroutine took and has not counted, then the three counters of
`stats`, and `report`, what `PrintStats` printed. History variables: `added`,
`committed`.

`Lock` is every `Lock()` call; `Unlock` is a step of the section that ends with it. A Go
mutex has no owner, so `Unlock` frees it whoever calls it, and is fatal if it is free.
`CountBatch` and `CountRequests` are the two statements under `statsMu`;
`TakeCheckpoint` is the call of `createCheckpoint` (or the end of `handleCP`) that locks
`statsMu` inside `stateMu`. Which branch a handler takes depends on data the module does
not have, so each may be taken. `HandleCommit` unlocks `statsMu`, as the code does: if the
mutex is free the process ends, and if another goroutine has it locked that one's section
is broken into, and `stateMu` stays locked for ever. From then on only `SectionsExclude`
is claimed: the state and the batch are still never open to two goroutines at once. The
other properties say `~committed =>`. No program in the repository sends a commit message.

### 2.5 Receiver and ServerProcess

`buffer[k]` is the datagram that was copied last into the buffer of socket `k`, and
`filling[k]` the one that `ReadFrom` is copying: reading is two steps (`Arrive`,
`Spawn`), because goroutines parse the same memory without a lock. What `json.Unmarshal`
finds in such a slice is `Found`: while nothing is copied, the message in the buffer if
it is as long as the goroutine's slice, and otherwise nothing; during a copy, the old
message, the new one, or nothing. The decoder validates its input first and then relies
on it, so a copy in between may also make it panic (`DecoderPanics`), which ends the
process. This is the data race of `udp.go:67`, and the model gives it every outcome
except one: bytes of two messages that parse as a third. Such a message carries a
signature of other bytes and is dropped.

`handle` parses twice, first for the type. If the buffer changed in between, the body is
of another type. `Unmarshal` then skips the fields it does not know and leaves those empty
that it does not find, so the signature check passes exactly if the message has every
signed field of the type it was taken for (`Signed`, `Verifies`). That is so of one pair:
an order request has the `Req` and `ReqSig` of the request it orders, and is handled as
that request (`OnlyRequestsMistaken`). What becomes of it at the primary is said of the
composition: the intake has seen the request before, and refuses it as outdated
(`Zyzzyva!OrderedIsOutdated`). Another server forwards it, still marked as an order request
but without the primary's part; the primary refuses the empty signature.

`ServerProcess` joins a handler goroutine's two halves: it parses in `Receiver` and goes
on in `ServerLocks`. They share `process`.

### 2.6 Deployment

One environment for all processes, flags and base ports process by process, and the key
files `genkeys` wrote. `InitializeConf` is Go's initialisation of package variables,
which comes before `main`; `ParseFlags` the flags and `Setenv` calls; `InitKeys` and
`LacksKeys` the key files; `Bind` and `BindFails` the two sockets of a server and the
one of a client. `Receives` says where a unicast datagram arrives: at the host of the
addressee's id, at the port `BasePort` of the *sender's* configuration (`GetReqAddr`),
while every process listens at `BasePort+id` (`GetListenAddr`). Hosts are either one for all processes
(an address prefix of the loopback network, where every address is the host itself) or
one each.

External, as Linux and Go have it: both sockets are bound to the wildcard address, only
the one of `net.ListenMulticastUDP` with `SO_REUSEADDR`, and two sockets share a port
only if both have that.

### 2.7 Zyzzyva and Service

| action | what it joins |
|---|---|
| `Send(c)` | `Batching!SendRequest`, once the request before is registered |
| `Register(c)` | `RequestTally!Register`, after the request was sent |
| `Intake`, `Collect`, `Expire`, `Take` | steps of `Batching` alone |
| `Order` | `Batching!OrderBatch` and `Replication!ProcessBatch` of one batch: the section of `processBatch` under `stateMu` |
| `Replicate(s, m)` | `handleOrderReq`, `handleCP` at server s |
| `Complete(c)` | `RequestTally!Complete`, on a speculative response of any server |

`Service` sees `issued` (requests up to each client's clock), `executed`, and `succeeded`
(the union of the clients' `answered`). It says: what is ordered was issued; it is
ordered once; every server executes a prefix; a request succeeds at most once, and only
when the primary has executed it. It does *not* say that other servers have it, nor that
they ever will: the client counts the first response, and servers that miss an order
request never recover (section 5).

## 3 The runs

Passing runs (states are distinct states found by TLC):

| run | instance | checks | states |
|---|---|---|---|
| `udp` | 4 servers, F = 1, CPInterval 2, 4 requests, batches of 1 or 2, unreliable network | types, `SpeculativeAgreement`, `OneAnswer`, `HistoryWindow`, `CommittedByQuorum`, `CheckpointAgreement`, `TentativeInHistory`, `ReplicaCheckpointUnderWay`, `CheckpointsAdvance`, `StuckAtRestart`, `StuckForGood`, and `Replication` implements `Ledger` | 25,156 |
| `pipeline` | 2 servers, 2 clients with 2 timestamps (one client through a forwarding server), BatchSize 1 or 2 | types, `NoStrandedBatch`, `NothingDropped`, `OvertakenForGood`, `AcceptedAreOrdered`, and `Batching` implements `RequestLog` | 10,102 |
| `client` | 2 requests or no limit, channel of 2, a signal at any time | types, `Accounting`, `SavedAddsUp`, `RunReturns`, and `Client` implements `RequestTally` | 27,718 |
| `process` | 2 goroutines, 2 sockets, a request and an order request of the same length at one socket and a commit message at the other, 5 handlers | types, `LocksMatchPlaces`, `NoDeadlock`, `EveryRequestCounted`, `ReportConsistent`, `SectionsExclude`, `OnlyRequestsMistaken`, `HandlersFinish`, `LostToLaterOnly` | 144,444 |
| `deployment` | 2 servers and a client, environments for one, two or four servers, a flag `-f` given to one process, three base ports, one or two hosts' worth of sockets, 2 or 4 keys | types, `VerifiesAll`, `OnlyMulticastPortClashes` | 61,902 |
| `zyzzyva` | 2 servers, a client with 3 requests that the second server forwards, BatchSize 1 or 2, CPInterval 2, F = 0, unreliable network | `OrderNeverBlocked`, `AnswersNamePlaces`, `OrderedIsOutdated`, `AcceptedAreAnswered`, and `Zyzzyva` implements `Service` | 19,514 |

Runs that TLC must refute are in section 5. Each property of a passing run has a mutant
in `PROJECT.json`: a definition whose name ends in `Fault`, the one after it with a
plausible programming error, under which TLC finds the property violated.

**Why the bounds are enough** for what the runs look at.

* `udp`: four requests with CPInterval 2 give two checkpoints, so that votes for the
  first meet the second, histories are truncated twice, the primary's chain restarts,
  and a batch of two can step over the interval or end on it. Four servers are the
  least with a quorum `F+1` smaller than the rest.
* `pipeline`: two clients with two timestamps and batches of two give overlapping
  batches, a timer that fires while a full batch is on its way, requests that repeat
  and overtake each other, and batches left half full at the end.
* `client`: two requests and repeated responses give every relation of a response to the
  registration, counting and removal of its own and of the other request, fill the
  channel, and leave a request unanswered when the final wait times out.
* `process`: two goroutines and the main goroutine suffice to have one wait for another
  in each pair of nested or consecutive mutexes; two datagrams of one socket are read
  over each other; five handlers let two batches be counted by runs of `processBatch`
  that meet each other and the signal. Equal lengths are the case in which a goroutine
  can find a whole message that is not its own; a request and an order request share a
  socket when the clients' base port is the multicast port.
* `deployment`: three base ports and the multicast port 12 make every kind of clash
  happen (own port with own port, own port with the multicast port, on one host and
  across); the key counts are one less than, or as many as, what some configuration asks.
* `zyzzyva`: three requests and batches of two interleave one batch in the making with
  one being ordered, cross a checkpoint, and let a response for one request arrive
  while another is registered. With F = 0 a server's own vote commits its checkpoint, so
  that truncation happens with two servers.

Symmetry (servers other than the primary, requests) is used in `Replication` only, in
runs without liveness. `CHECK_DEADLOCK FALSE` is used throughout: when clients have sent
all their requests, or a process has ended, the system does stop.

Bounds that are not in the code: `MaxBatch` and the size of `Request` (Replication; in
`Zyzzyva` an assumption makes `MaxBatch` bound nothing), `MaxTimestamp` (Batching),
`MaxSent` (Client), `MaxHandlers` and `Datagram` (ServerProcess). Nothing else is
bounded.

**Fairness.**

* `Batching!Fairness`, and `Zyzzyva!SystemFairness` with the same actions: goroutines
  between two sections acquire their lock in the end (the sections are short, Go's
  mutexes are starvation-free) and a running timer fires; clients and network owe
  nothing.
* `Client!Fairness`: the main loop, the response goroutine, the listener and each call
  of `Stop` go on if they can: all of them wait only with timeouts, on mutexes held
  briefly, or on a channel that is closed. No response is assumed to arrive.
* `ServerProcess!ProcessFairness`: each goroutine, and main after the signal, goes on if
  it can. Weak fairness of waiting for a mutex is enough because only finitely many
  handlers compete for it; in a server that runs on, the starvation mode of Go's
  mutexes takes its place. No datagram and no signal is assumed to arrive.
* `Replication` and `Deployment` assume no fairness: on this network, without
  retransmission, there is no liveness of the servers to state.

## 4 The proofs

`SeqFacts`, `SumFacts` and the six `*Proofs` modules are checked by TLAPS (SMT, Zenon, LS4) for
every value of the constants that satisfies the named assumptions
(`ConstantsAssumption`, `BatchingAssumption`, `ClientAssumption`, `LocksAssumption`,
`ProcessAssumption`, `DeploymentAssumption`, `SystemAssumption`). These ask for types,
that the primary is a server, that servers and goroutines are finitely many, and that
`CPInterval` is not 0; that N is 3F+1 is not needed. TLC evaluates each of them.

**Batching.** `StagesInv` (the requests in the handler goroutines, in the current
batch, in the taken batches and in the log are pairwise different) and `CacheInv`
(an accepted request is not newer than the cache entry of its client) make the
inductive invariant: a request passes the check only if it is later than everything
accepted from its client, so it is new to all stages. Hence every batch is fresh and
`Batching` implements `RequestLog` (`RequestLogImplemented`); `NothingDropped` follows
step by step. `NoStrandedBatch` is inductive with the types: the batch becomes
non-empty in the very section that starts the timer or launches the goroutine.
`ClockInv` (no message and no cache entry is ahead of its client's clock) adds that what
is accepted was sent (`AcceptedWasSent`). A request that is not accepted and not later
than the cache entry of its client stays so, as only the check accepts and entries only
grow (`OvertakenForGoodCorrect`).

**Replication.** The inductive invariant has three layers.
`LogInv`: `nextSeq` counts what a server executed; every order request carries the
entry of the primary's log at its number; two order requests with one number have one
hash; every response, and every checkpoint, goes back to an order request. It says
nothing about what a hash is made of, so it survives the chain's restart. From it follow
`SpeculativeAgreement`, `CheckpointAgreement` and the refinement of `Ledger`.
`VoteInv`: every server counted in `recv` announced the checkpoint that is tentative
now. From it follows `CommittedByQuorum`. `WindowInv`: for each server, the history is
the executed log after the committed number, hashes that are n places apart differ by
n requests (so none occurs twice), and the tentative checkpoint's hash is as far into
the history as its number is after the committed one. It is needed because `handleCP`
truncates where a hash is found and not where a number says. From it follow
`HistoryWindow`, `TentativeInHistory` and `CheckpointsAdvance`.
`UnderWayInv` adds that what the tentative checkpoint covers is a multiple of
`CPInterval` and that the history is less than one interval longer: a server that adds
one request at a time cannot step over the interval (`ReplicaCheckpointUnderWay`). For
the primary this is false, see 5.
`ChainInv` is about the hash chain itself: an order request starts a chain, or its hash
extends the one of the order request before it, and the hash a server chains its next
request to is the one of the order request before its `nextSeq`, except at a primary
whose history is empty. That a truncation changes that hash nowhere else is
`CommitKeepsHash`; that the order requests of a batch chain on from the primary's hash
is `BatchChains`. So an order request whose turn it is can only be refused if it starts
a chain (`StuckAtRestart`), and a server that refused it stays there: no other message
has its number with another hash, and no handler changes the hash the server compares
with (`StuckForGood`). `HandledInv`, for the reliable network, gives
`OvertakingBlocksForGood`: an order request handled before its turn is the only one of
its number and is not delivered again. `OneAnswer`, that no request has two numbers or
two hashes, follows from batches being fresh (`FreshBatchAdded`).

**Client.** `CountInv`: tracked and counted requests share at most the one being
removed, and a request is registered under a timestamp that was never used. It gives
`Accounting`; `SavedAddsUp` follows as `PrintStats` waits for the response goroutine. With
the same invariant `Client` implements `RequestTally` (`ClientImplementsTally`): the
response that is being processed is one that is tracked and not yet answered.

**Server process.** `LocksMatchPlaces` is inductive with the types: `owner[m] = g`
exactly when the place of `g` is in a section of `m`. From it follows `NoDeadlock`: the
mutexes are ordered, and at the place where one is awaited under another the second is
`statsMu`, whose holders wait for nothing. `ReportConsistent` needs that the counters are
read under `statsMu`, never between the two increments. `EveryRequestCounted` equates a
counter with a sum over the goroutines. The laws it needs (a sum changes by what one
summand changes, `TotalChanged`) are in `SumFacts`. The library's induction theorems take
the formula as a parameter, which no installed prover can instantiate, so `SumFacts`
states induction over sets instead (`NatSetInduction`, `SubsetInduction`): a set closed
under the step has everything, because its complement has no minimal element in a
well-founded order. `ServerProcess` implements
`ServerLocks` step by step (`ProcessImplementsLocks`), so these theorems carry over
(`ProcessLocksCorrect`, `ProcessDeadlockFree`, `ProcessReportCorrect`,
`ProcessRequestsCounted`). After a commit message `owner` may be wrong about `statsMu`, so
`SectionsExclude` rests on a weaker invariant, `SectionOwners`: whoever is in a section of
`stateMu` or `batchMu` owns it, which survives because the commit case unlocks neither.
`OnlyRequestsMistakenCorrect` is proved from `ReceiverInv`: the types, `CopiedOnce` (what is
in a buffer, or being copied into one, has left `unread`) and the property itself. It
supposes nothing about which sockets messages share, nor about their lengths.

**Deployment.** `ConfigurationInv`: `conf[p]` is `Configuration` of the environment that
all processes were started with, which no `Setenv` changes (`FlagsChangeNothing`: what the
run `flags` refutes for one process is so for all). `VerifiesAll` follows from it and from
`q < keys` for every process that runs. `OnlyMulticastPortClashes` and
`AnswersNeedOtherPorts` are arithmetic on ports, over every set of base ports and ids. The
latter says more than the run `answers` refutes: what is sent to a client other than 0 from
a process with its base port never arrives at it, and the only ports under which that
client and server 0 reach each other are the multicast port as the client's base port and
the multicast port plus the client's id as the server's.

**Zyzzyva.** The composition is treated by its parts. Every step is one of `Batching` or
leaves it alone (`SystemImplementsBatching`), so that `StagesInv` holds of the system.
It makes every batch that is ordered non-empty and without repetition, hence no longer
than there are requests (a pigeonhole argument with `FS_Injection`) and one of
`Replication!Batches`: the system implements `Replication` too
(`SystemImplementsReplication`). `OneLog`, `ordered = executed[Primary]`, ties the two
together and gives `OrderNeverBlockedCorrect`. `ServiceImplemented` combines the lemmas
of both, `AcceptedWasSent` for `Service!Order`, `RP!LogInv` for `Service!Succeed` (a
response goes back to an order request, which is an entry of the primary's log), and
`TallyInv` (what is registered is not answered). Theorems about `Replication` are used
through `RP == INSTANCE ReplicationProofs`, the instance of the same module with its
theorems; a few lemmas say that the definitions of `R` and `RP` agree. The same way the
agreement of the servers carries over to the batches that the intake really makes
(`ServersAgree`), every answer names a place in the intake's log
(`AnswersNamePlacesCorrect`), what is in an order request is in the log and hence no news
to the intake (`OrderedIsOutdatedCorrect`), and with `OvertakenForGood` a request that was overtaken
on its way is never answered by anyone (`OvertakenNeverAnswered`).

Every invariant, action property and refinement that a passing run checks is proved. Only
model-checked are the liveness properties (`AcceptedAreOrdered`, `AcceptedAreAnswered`,
`RunReturns`, `HandlersFinish`, `LostToLaterOnly`), as fairness and ENABLED are outside
the prover's reach. What section 5 refutes is TLC's by nature. No module uses recursion.

## 5 Where code and comments disagree

Each run checks one property that says what a comment of the code says, and TLC finds
the execution that refutes it. `PROJECT.json` quotes the lines.

| run | what happens |
|---|---|
| `overtaken` | order requests leave in goroutines of their own; on a lossless network one overtakes its predecessor, is refused, and the server never gets past it (proved: `OvertakingBlocksForGood`) |
| `hashbreak` | after a checkpoint empties the primary's history the primary chains from nothing and the others from the checkpoint: the next request is refused by all of them; proved: the chain breaks nowhere else (`StuckAtRestart`), and a server stuck there stays stuck (`StuckForGood`) |
| `skipped` | a batch of two steps over the multiple of `CPInterval`: the primary takes no checkpoint |
| `graceful` | `Run` and the signal goroutine are both in `Stop`; the second `close` panics |
| `flags` | a server with `-f 2` runs with `F = 1`: `main` sets the environment after the variables of `conf` were read from it. No flag changes F, N or M of any process (`FlagsChangeNothing`) |
| `answers` | a server and a client listen, and what the server sends to the client goes to port `BasePort`, where the client is not; proved: under no base port that both share does it arrive (`AnswersNeedOtherPorts`) |

The consequences of the first two are why `Ledger` promises prefixes and no progress.
The last two concern processes rather than the protocol.

Disagreements without a run of their own:

* `cp.go:85` "If we have f+1 matching checkpoint messages, commit the checkpoint": votes
  that arrive before the receiver's own checkpoint are dropped (`cp.go:62`) and not sent
  again, so that a checkpoint may stay tentative although `F+1` votes arrived.
* `start.go:255` "Check client timestamp to prevent replay attacks": a request overtaken
  by a later one of its client is refused too, although it never arrived before. It stays
  out (`OvertakenForGood`) and is never answered (`OvertakenNeverAnswered`).
* `client/start.go:180` "This might be a duplicate response": or one that was handled
  before its request was registered (237 after 226); then the request stays in flight.
* `client/start.go:56` "Fast path completions (3f+1)": one response is counted as one.
* `commit.go:12` "handleCommit processes commit messages from clients": its case in
  `handle` locks `stateMu` and unlocks `statsMu` (`start.go:238-240`), which ends the process
  or leaves `stateMu` locked (`ServerLocks!HandleCommit`).
* `deployments/run.sh:23` "Start 4 replica servers": under the default ports, server 1 needs
  port 10001 twice, as its own and as the multicast group's, and the bind that comes second
  panics (`udp.go:54-57`, `145-148`). On one host the others' multicast sockets are in its
  way as well. That ports clash in no other way is `OnlyMulticastPortClashes`.
* `CheckpointsCreated` counts a checkpoint when it is taken (`start.go:408`) and again
  when it is committed (`cp.go:113`).
* After a signal the client's response goroutine has returned, so `Run` waits the whole
  five seconds for requests nobody can complete.

## 6 What is not modelled

Faulty servers and forged messages; view changes (message types without handlers);
the payload, the reply and the timing of requests; the client's derived statistics
(rates, percentiles) and payload patterns, which nothing reads; `handleReq` (dead code);
logging, scripts. Of the transport: the choice of a multicast interface, buffer sizes,
and the sockets that `UdpSend` and `UdpMulticast` never close: Go's runtime closes them
when it collects the connections, at no moment the code determines. Of the
configuration: the text of addresses (an id that takes the last octet past 255 panics in
`UdpSend`), a blank line in the middle of `pub.txt` (which `genkeys` does not write),
payload and rate parameters. A server process that crashes loses everything, and nothing
is persisted or recovered: a crash is a server that handles nothing more, which the
unreliable network covers.

## 7 Plan

The order was by importance for the system's behaviour; all of it is done.

1. `RequestLog`, `Ledger`: the abstract specifications.
2. `Replication` with its runs, refinement of `Ledger`.
3. `Batching` with its run, refinement of `RequestLog`.
4. `SeqFacts`, `ReplicationProofs`, `BatchingProofs`: all safety properties of both, the
   hash chain among them.
5. `Client` with its runs and `ClientProofs`; `RequestTally`.
6. `ServerLocks`, `Receiver`, `ServerProcess`, `SumFacts` and `ServerProcessProofs`.
7. `Deployment` and `DeploymentProofs`.
8. `Service`, `Zyzzyva` and `ZyzzyvaProofs`.

What could be added: several clients in the run `zyzzyva` (its state space grows past
what a run can take; the theorems hold for any number of them), and percentile indices
of the client's statistics over bounded inputs.
