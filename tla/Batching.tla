------------------------------ MODULE Batching ------------------------------
(***************************************************************************)
(* How client requests become ordered batches at the primary: forwarding   *)
(* by the other servers, the response cache, the current batch, its timer, *)
(* and the processBatch goroutines.                                        *)
(*                                                                         *)
(* Grain.  Every message is handled in a goroutine of its own, and         *)
(* handleReqWithBatching has two critical sections: one under stateMu (the *)
(* response cache), then one under batchMu (the batch and the timer).      *)
(* processBatch has two as well: it takes the batch under batchMu and      *)
(* orders it under stateMu.  Each section is one action, so goroutines     *)
(* interleave between them as the locks allow.  A definition whose name    *)
(* ends in Fault is not part of the model: it is the one after it with a   *)
(* plausible programming error, which some property must expose.           *)
(*                                                                         *)
(* Abstractions.  A request is its client and its timestamp (the payload   *)
(* and the signature travel with it).  Requests stay in sent: one may be   *)
(* lost, repeated or overtaken.  currentReqSig is appended to and cleared  *)
(* together with currentBatch, and is not kept apart.                      *)
(***************************************************************************)
EXTENDS Integers, Sequences

CONSTANTS
  Server,        \* the servers
  Primary,       \* the server whose id is view % N
  Client,        \* the clients
  Contact,       \* Contact[c]: the server client c sends to (-primary)
  BatchSizes,    \* what options.BatchSize may be
  MaxTimestamp   \* bound: a client's timestamps are 1 .. MaxTimestamp

ASSUME BatchingAssumption ==
  /\ Primary \in Server
  /\ Contact \in [Client -> Server]
  /\ BatchSizes \subseteq Int
  /\ MaxTimestamp \in Nat

VARIABLES
  batchSize,     \* options.BatchSize of this primary, fixed at start-up
  clock,         \* clock[c]: the last timestamp client c used
  sent,          \* every request message, with the server it is for
  respCache,     \* respCache[c]: the last timestamp accepted from c, or 0
  admitted,      \* requests between the two sections of their handlers
  currentBatch,  \* the batch being collected
  timerArmed,    \* batchTimer is running
  launched,      \* processBatch goroutines that have not locked batchMu yet
  taken,         \* batches whose goroutines have not locked stateMu yet
  ordered        \* the requests in the order they were given numbers

vars == <<batchSize, clock, sent, respCache, admitted, currentBatch,
          timerArmed, launched, taken, ordered>>

Request == [cId : Client, timestamp : 1..MaxTimestamp]

ReqMsg == [to : Server, req : Request]

Init ==
  /\ batchSize \in BatchSizes
  /\ clock = [c \in Client |-> 0]
  /\ sent = {}
  /\ respCache = [c \in Client |-> 0]
  /\ admitted = {}
  /\ currentBatch = <<>>
  /\ timerArmed = FALSE
  /\ launched = 0
  /\ taken = {}
  /\ ordered = <<>>

-----------------------------------------------------------------------------
\* The client loop: a request under a new timestamp, without waiting for the
\* answer to the one before it.
SendRequest(c) ==
  /\ clock[c] < MaxTimestamp
  /\ clock' = [clock EXCEPT ![c] = @ + 1]
  /\ sent' = sent \cup
       {[to |-> Contact[c], req |-> [cId |-> c, timestamp |-> clock[c] + 1]]}
  /\ UNCHANGED <<batchSize, respCache, admitted, currentBatch, timerArmed,
                 launched, taken, ordered>>

ForwardedFault(m) == [m EXCEPT !.to = m.req.cId]

Forwarded(m) == [m EXCEPT !.to = Primary]

\* A server that is not the primary passes the request on.
ForwardToPrimary(m) ==
  /\ m.to # Primary
  /\ sent' = sent \cup {Forwarded(m)}
  /\ UNCHANGED <<batchSize, clock, respCache, admitted, currentBatch,
                 timerArmed, launched, taken, ordered>>

IsNewFault(r) == respCache[r.cId] <= r.timestamp

IsNewOrOlderFault(r) == respCache[r.cId] # r.timestamp

\* Only a timestamp later than the cached one passes.
IsNew(r) == respCache[r.cId] < r.timestamp

\* handleReqWithBatching under stateMu.
CheckTimestamp(m) ==
  /\ m.to = Primary
  /\ IsNew(m.req)
  /\ respCache' = [respCache EXCEPT ![m.req.cId] = m.req.timestamp]
  /\ admitted' = admitted \cup {m.req}
  /\ UNCHANGED <<batchSize, clock, sent, currentBatch, timerArmed, launched,
                 taken, ordered>>

StartsTimerFault == Len(currentBatch) = 1 /\ batchSize > 1

\* Whether the request about to be added is the first of a batch of several.
StartsTimer == Len(currentBatch) = 0 /\ batchSize > 1

FullFault(batch) == Len(batch) > batchSize

Full(batch) == Len(batch) >= batchSize

\* handleReqWithBatching under batchMu: the first request of a batch starts
\* the timer; the one that fills it stops the timer and launches processBatch.
AddToBatch(r) ==
  LET batch == Append(currentBatch, r)
  IN  /\ admitted' = admitted \ {r}
      /\ currentBatch' = batch
      /\ timerArmed' = ((timerArmed \/ StartsTimer) /\ ~Full(batch))
      /\ launched' = IF Full(batch) THEN launched + 1 ELSE launched
      /\ UNCHANGED <<batchSize, clock, sent, respCache, taken, ordered>>

\* The timer fires: time.AfterFunc runs processBatch in a new goroutine.
TimerFires ==
  /\ timerArmed
  /\ timerArmed' = FALSE
  /\ launched' = launched + 1
  /\ UNCHANGED <<batchSize, clock, sent, respCache, admitted, currentBatch,
                 taken, ordered>>

BatchTakenFault ==
  [i \in {n \in DOMAIN currentBatch : n <= batchSize} |-> currentBatch[i]]

\* What processBatch takes: all of the batch, even if it outgrew batchSize
\* before the goroutine came to run.
BatchTaken == currentBatch

\* processBatch under batchMu: take the batch, or return if there is none.
TakeBatch ==
  /\ launched > 0
  /\ launched' = launched - 1
  /\ taken' = (taken \cup {BatchTaken}) \ {<<>>}
  /\ currentBatch' = <<>>
  /\ UNCHANGED <<batchSize, clock, sent, respCache, admitted, timerArmed,
                 ordered>>

\* processBatch under stateMu: the batch gets the next sequence numbers.
\* (What else it does there is Replication!ProcessBatch.)
OrderBatch(batch) ==
  /\ taken' = taken \ {batch}
  /\ ordered' = ordered \o batch
  /\ UNCHANGED <<batchSize, clock, sent, respCache, admitted, currentBatch,
                 timerArmed, launched>>

Next ==
  \/ \E c \in Client : SendRequest(c)
  \/ \E m \in sent : ForwardToPrimary(m)
  \/ \E m \in sent : CheckTimestamp(m)
  \/ \E r \in admitted : AddToBatch(r)
  \/ TimerFires
  \/ TakeBatch
  \/ \E batch \in taken : OrderBatch(batch)

Spec == Init /\ [][Next]_vars

\* A goroutine that can take its lock does so in the end (Go's scheduler and
\* its starvation-free mutexes), and a running timer expires.
Fairness ==
  /\ WF_vars(\E r \in admitted : AddToBatch(r))
  /\ WF_vars(TimerFires)
  /\ WF_vars(TakeBatch)
  /\ WF_vars(\E batch \in taken : OrderBatch(batch))

FairSpec == Spec /\ Fairness

-----------------------------------------------------------------------------
(***************************************************************************)
(* Properties                                                              *)
(***************************************************************************)
RL == INSTANCE RequestLog WITH log <- ordered

\* The requests that passed the timestamp check, wherever they are now.
Accepted ==
  admitted \cup RL!Elements(currentBatch) \cup RL!Elements(ordered)
           \cup UNION {RL!Elements(batch) : batch \in taken}

\* The types of the state.
TypeOK ==
  /\ batchSize \in BatchSizes
  /\ clock \in [Client -> 0..MaxTimestamp]
  /\ sent \subseteq ReqMsg
  /\ respCache \in [Client -> 0..MaxTimestamp]
  /\ admitted \subseteq Request
  /\ currentBatch \in Seq(Request)
  /\ timerArmed \in BOOLEAN
  /\ launched \in Nat
  /\ taken \subseteq Seq(Request)
  /\ ordered \in Seq(Request)

\* A batch with requests in it is never stranded: the timer is running or a
\* processBatch goroutine is on its way, whatever the order in which Reset,
\* Stop, the timer and the goroutines got at it.
NoStrandedBatch == currentBatch # <<>> => timerArmed \/ launched > 0

\* However often a request arrives, directly or forwarded, it is ordered at
\* most once, and batches that overtake each other between the two locks of
\* processBatch neither overlap nor lose order entries.
ImplementsRequestLog == RL!Spec

\* A request that passed the check stays in the pipeline: no step of any
\* goroutine drops one between the handler, the batch and the log.
NothingDropped == [][Accepted \subseteq Accepted']_vars

\* A request that a later one of its client overtook on its way to the primary
\* never gets into the pipeline, in however many copies and from whichever
\* server it still arrives.
OvertakenForGood ==
  [][\A r \in Request \ Accepted :
       r.timestamp <= respCache[r.cId] =>
         r \notin Accepted' /\ r.timestamp <= respCache'[r.cId]]_vars

\* A request that passed the timestamp check is ordered in the end.
AcceptedAreOrdered ==
  \A r \in Request : r \in Accepted ~> r \in RL!Elements(ordered)
=============================================================================
