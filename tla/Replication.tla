----------------------------- MODULE Replication -----------------------------
(***************************************************************************)
(* The servers: the primary orders batches of requests, every server       *)
(* executes ordered requests speculatively along a hash chain, and the     *)
(* servers agree on checkpoints that truncate their histories.             *)
(*                                                                         *)
(* Grain.  processBatch (from the point where it has its batch),           *)
(* handleOrderReq and handleCP hold stateMu from beginning to end, so each *)
(* is one action.  How a batch comes about is modelled in Batching; here   *)
(* any fresh batch may arrive (RequestLog!FreshBatch).                     *)
(*                                                                         *)
(* Abstractions.                                                           *)
(*  - s.view is never assigned after NewServer and cmd/server starts every *)
(*    server in view 0: the primary (view % N) is a constant, and so is    *)
(*    the outcome of the view check of handleOrderReq.                     *)
(*  - Every server runs this program, so a signature verifies and a        *)
(*    request hash matches; both checks are left out.                      *)
(*  - SHA-512 has no collisions: a history hash is the chain of requests   *)
(*    it was computed from, <<>> standing for the absent hash.             *)
(*  - A goroutine that only sends is the message it sends: the message is  *)
(*    in msgs from the step that starts the goroutine.                     *)
(***************************************************************************)
EXTENDS Integers, Sequences, FiniteSets

CONSTANTS
  Server,       \* the servers, 0 .. N-1 in the code
  Primary,      \* the server whose id is view % N
  F,            \* conf.F
  CPInterval,   \* conf.CPInterval
  Request,      \* the client requests
  MaxBatch,     \* bound: the length of a batch
  Reliable      \* TRUE: every message reaches every server exactly once, in
                \* any order.  FALSE: UDP, where a message may also be lost
                \* (never handled) or duplicated (handled again)

ASSUME ConstantsAssumption ==
  /\ IsFiniteSet(Server)
  /\ Primary \in Server
  /\ F \in Nat
  /\ CPInterval \in Nat \ {0}
  /\ MaxBatch \in Nat \ {0}
  /\ Reliable \in BOOLEAN

VARIABLES
  history,        \* history[s]: the requests since s's committed checkpoint
  historyHashes,  \* historyHashes[s]: the history hash after each of them
  nextSeq,        \* nextSeq[s]: the next sequence number
  committedCP,    \* committedCP[s]: the last checkpoint committed
  tentativeCP,    \* tentativeCP[s]: the checkpoint being agreed on (cp), and
                  \* the servers whose matching message arrived (recv)
  msgs,           \* every message ever sent
  handled,        \* handled[s]: what reached s, when the network is Reliable
  executed        \* executed[s]: history variable, every request s executed,
                  \* the truncated ones included

serverVars == <<history, historyHashes, nextSeq, committedCP, tentativeCP>>
vars == <<serverVars, msgs, handled, executed>>

-----------------------------------------------------------------------------
(***************************************************************************)
(* Messages                                                                *)
(***************************************************************************)
HistoryHash == Seq(Request)

CP == [seq : Nat, historyHash : HistoryHash]

NoCP == [seq |-> 0, historyHash |-> <<>>]

OrderReq(seq, hash, req) ==
  [type |-> "OrderReq", seq |-> seq, historyHash |-> hash, req |-> req]

SpecRes(s, seq, hash, req) ==
  [type |-> "SpecRes", sId |-> s, seq |-> seq, historyHash |-> hash,
   req |-> req]

CPMsg(s, cp) == [type |-> "CP", sId |-> s, cp |-> cp]

Message ==
       [type : {"OrderReq"}, seq : Nat, historyHash : HistoryHash,
        req : Request]
  \cup [type : {"SpecRes"}, sId : Server, seq : Nat,
        historyHash : HistoryHash, req : Request]
  \cup [type : {"CP"}, sId : Server, cp : CP]

\* The multicast group holds every server, the sender included.
Receive(s, m) ==
  /\ Reliable => m \notin handled[s]
  /\ handled' = IF Reliable THEN [handled EXCEPT ![s] = @ \cup {m}]
                            ELSE handled

-----------------------------------------------------------------------------
(***************************************************************************)
(* The hash chain and checkpoint creation.  A definition whose name ends   *)
(* in Fault is not part of the model: it is the definition after it with a *)
(* plausible programming error, which some property below must expose.     *)
(***************************************************************************)
Last(s) == s[Len(s)]

\* The hash the primary chains the next request to.
PrimaryHash ==
  IF historyHashes[Primary] # <<>> THEN Last(historyHashes[Primary]) ELSE <<>>

ReplicaHashFault(s) ==
  IF historyHashes[s] # <<>> THEN Last(historyHashes[s]) ELSE <<>>

\* The hash another server chains the next request to.
ReplicaHash(s) ==
  IF historyHashes[s] # <<>> THEN Last(historyHashes[s])
                             ELSE committedCP[s].historyHash

CheckpointDueFault(h) == Len(h) > CPInterval /\ Len(h) % CPInterval = 0

CheckpointDue(h) == Len(h) >= CPInterval /\ Len(h) % CPInterval = 0

TentativeAfterFault(s, h, cp) ==
  IF CheckpointDue(h) THEN [tentativeCP EXCEPT ![s].cp = cp] ELSE tentativeCP

\* createCheckpoint, called when due: the new tentative checkpoint of s ...
TentativeAfter(s, h, cp) ==
  IF CheckpointDue(h)
  THEN [tentativeCP EXCEPT ![s] = [cp |-> cp, recv |-> {}]]
  ELSE tentativeCP

\* ... and the message it multicasts.
CheckpointMsgs(s, h, cp) ==
  IF CheckpointDue(h) THEN {CPMsg(s, cp)} ELSE {}

-----------------------------------------------------------------------------
Init ==
  /\ history       = [s \in Server |-> <<>>]
  /\ historyHashes = [s \in Server |-> <<>>]
  /\ nextSeq       = [s \in Server |-> 0]
  /\ committedCP   = [s \in Server |-> NoCP]
  /\ tentativeCP   = [s \in Server |-> [cp |-> NoCP, recv |-> {}]]
  /\ msgs          = {}
  /\ handled       = [s \in Server |-> {}]
  /\ executed      = [s \in Server |-> <<>>]

-----------------------------------------------------------------------------
(***************************************************************************)
(* processBatch                                                            *)
(***************************************************************************)
Log == INSTANCE RequestLog WITH log <- executed[Primary]

Batches == UNION {[1..n -> Request] : n \in 1..MaxBatch}

\* The history hash after each request of the batch.
BatchHashes(batch) ==
  [i \in 1..Len(batch) |-> PrimaryHash \o SubSeq(batch, 1, i)]

SeqAfterFault(batch) == nextSeq[Primary] + 1

\* The primary's next sequence number after the batch.
SeqAfter(batch) == nextSeq[Primary] + Len(batch)

BatchCPFault(batch) ==
  [seq |-> SeqAfter(batch), historyHash |-> BatchHashes(batch)[1]]

\* The checkpoint the primary takes after the batch, if one is due.
BatchCP(batch) ==
  [seq |-> SeqAfter(batch), historyHash |-> Last(BatchHashes(batch))]

BatchOrdersFault(batch) ==
  {OrderReq(nextSeq[Primary] + i - 1, BatchHashes(batch)[i], Last(batch)) :
     i \in 1..Len(batch)}

\* The order requests multicast for the batch.
BatchOrders(batch) ==
  {OrderReq(nextSeq[Primary] + i - 1, BatchHashes(batch)[i], batch[i]) :
     i \in 1..Len(batch)}

\* The primary gives the requests of a batch consecutive sequence numbers,
\* answers the clients, and takes a checkpoint if the history has the right
\* length once the whole batch is in it.
ProcessBatch(batch) ==
  LET h == history[Primary] \o batch
  IN  /\ Log!FreshBatch(batch, executed[Primary])
      /\ nextSeq' = [nextSeq EXCEPT ![Primary] = SeqAfter(batch)]
      /\ history' = [history EXCEPT ![Primary] = h]
      /\ historyHashes' =
           [historyHashes EXCEPT ![Primary] = @ \o BatchHashes(batch)]
      /\ tentativeCP' = TentativeAfter(Primary, h, BatchCP(batch))
      /\ msgs' = msgs
           \cup BatchOrders(batch)
           \cup {SpecRes(Primary, m.seq, m.historyHash, m.req) :
                   m \in BatchOrders(batch)}
           \cup CheckpointMsgs(Primary, h, BatchCP(batch))
      /\ executed' = [executed EXCEPT ![Primary] = @ \o batch]
      /\ UNCHANGED <<committedCP, handled>>

-----------------------------------------------------------------------------
(***************************************************************************)
(* handleOrderReq                                                          *)
(***************************************************************************)
AcceptableFault(s, m) == m.historyHash = Append(ReplicaHash(s), m.req)

\* What is checked before the request of m is executed.
Acceptable(s, m) ==
  /\ m.seq = nextSeq[s]
  /\ m.historyHash = Append(ReplicaHash(s), m.req)

RequestCPFault(s, m) ==
  [seq |-> Len(history[s]) + 1, historyHash |-> m.historyHash]

\* The checkpoint s takes after the request of m, if one is due.
RequestCP(s, m) == [seq |-> nextSeq[s] + 1, historyHash |-> m.historyHash]

HandleOrderReq(s, m) ==
  LET h == Append(history[s], m.req)
  IN  /\ m.type = "OrderReq"
      /\ Receive(s, m)
      /\ Acceptable(s, m)
      /\ history' = [history EXCEPT ![s] = h]
      /\ historyHashes' =
           [historyHashes EXCEPT ![s] = Append(@, m.historyHash)]
      /\ nextSeq' = [nextSeq EXCEPT ![s] = @ + 1]
      /\ tentativeCP' = TentativeAfter(s, h, RequestCP(s, m))
      /\ msgs' = msgs
           \cup {SpecRes(s, m.seq, m.historyHash, m.req)}
           \cup CheckpointMsgs(s, h, RequestCP(s, m))
      /\ executed' = [executed EXCEPT ![s] = Append(@, m.req)]
      /\ UNCHANGED committedCP

\* The early returns: the message is gone.
RefuseOrderReq(s, m) ==
  /\ m.type = "OrderReq"
  /\ Receive(s, m)
  /\ ~Acceptable(s, m)
  /\ UNCHANGED <<serverVars, msgs, executed>>

-----------------------------------------------------------------------------
(***************************************************************************)
(* handleCP                                                                *)
(***************************************************************************)
\* There is a tentative checkpoint and m is a vote for it.
MatchesTentative(s, m) ==
  /\ tentativeCP[s].cp.seq # 0
  /\ m.cp = tentativeCP[s].cp

VotesFault(s, m) == tentativeCP[s].recv \cup {m.cp.seq}

\* The servers that voted, the sender of m included.
Votes(s, m) == tentativeCP[s].recv \cup {m.sId}

\* Where the checkpoint's hash occurs in the history of s.
Places(s, m) ==
  {i \in DOMAIN historyHashes[s] : historyHashes[s][i] = m.cp.historyHash}

TruncatedFault(seq, i) == SubSeq(seq, i, Len(seq))

\* A history without its first i entries.
Truncated(seq, i) == SubSeq(seq, i + 1, Len(seq))

TentativeClearedFault(s) == [tentativeCP EXCEPT ![s].recv = {}]

TentativeCleared(s) ==
  [tentativeCP EXCEPT ![s] = [cp |-> NoCP, recv |-> {}]]

\* F+1 servers agree and the hash is found: the history up to its first
\* occurrence goes.
CommitCheckpoint(s, m) ==
  /\ m.type = "CP"
  /\ Receive(s, m)
  /\ MatchesTentative(s, m)
  /\ Cardinality(Votes(s, m)) >= F + 1
  /\ \E i \in Places(s, m) :
       /\ \A j \in Places(s, m) : i <= j
       /\ history' = [history EXCEPT ![s] = Truncated(@, i)]
       /\ historyHashes' = [historyHashes EXCEPT ![s] = Truncated(@, i)]
  /\ committedCP' = [committedCP EXCEPT ![s] = tentativeCP[s].cp]
  /\ tentativeCP' = TentativeCleared(s)
  /\ UNCHANGED <<nextSeq, msgs, executed>>

\* Otherwise the vote is counted.
RecordVote(s, m) ==
  /\ m.type = "CP"
  /\ Receive(s, m)
  /\ MatchesTentative(s, m)
  /\ Cardinality(Votes(s, m)) < F + 1 \/ Places(s, m) = {}
  /\ tentativeCP' =
       [tentativeCP EXCEPT ![s] = [cp |-> @.cp, recv |-> Votes(s, m)]]
  /\ UNCHANGED <<history, historyHashes, nextSeq, committedCP, msgs,
                 executed>>

\* The early returns: the vote is gone.
RefuseVote(s, m) ==
  /\ m.type = "CP"
  /\ Receive(s, m)
  /\ ~MatchesTentative(s, m)
  /\ UNCHANGED <<serverVars, msgs, executed>>

-----------------------------------------------------------------------------
Next ==
  \/ \E batch \in Batches : ProcessBatch(batch)
  \/ \E s \in Server, m \in msgs : HandleOrderReq(s, m)
  \/ \E s \in Server, m \in msgs : RefuseOrderReq(s, m)
  \/ \E s \in Server, m \in msgs : CommitCheckpoint(s, m)
  \/ \E s \in Server, m \in msgs : RecordVote(s, m)
  \/ \E s \in Server, m \in msgs : RefuseVote(s, m)

Spec == Init /\ [][Next]_vars

-----------------------------------------------------------------------------
(***************************************************************************)
(* Properties                                                              *)
(***************************************************************************)

\* The types of the state.
TypeOK ==
  /\ history \in [Server -> Seq(Request)]
  /\ historyHashes \in [Server -> Seq(HistoryHash)]
  /\ nextSeq \in [Server -> Nat]
  /\ committedCP \in [Server -> CP]
  /\ tentativeCP \in [Server -> [cp : CP, recv : SUBSET Server]]
  /\ msgs \subseteq Message
  /\ handled \in [Server -> SUBSET Message]
  /\ executed \in [Server -> Seq(Request)]

\* Two speculative responses for the same sequence number, from whichever
\* servers, are about the same request and carry the same history hash: what
\* a client would need to add responses up.  (processBatch numbering against
\* the seq and hash checks of handleOrderReq.)
SpeculativeAgreement ==
  \A m1, m2 \in msgs :
    /\ m1.type = "SpecRes"
    /\ m2.type = "SpecRes"
    /\ m1.seq = m2.seq
    => m1.req = m2.req /\ m1.historyHash = m2.historyHash

\* All answers to one request, from whichever servers and however often a
\* message is handled, give it the same number and the same history hash: a
\* client that counted them would never hold two that differ.
OneAnswer ==
  \A m1, m2 \in msgs :
    /\ m1.type = "SpecRes"
    /\ m2.type = "SpecRes"
    /\ m1.req = m2.req
    => m1.seq = m2.seq /\ m1.historyHash = m2.historyHash

\* Every server executes a prefix of the primary's log.
L == INSTANCE Ledger
ImplementsLedger == L!Spec

\* A server's history is exactly what it executed since its committed
\* checkpoint: truncation in handleCP drops every request the checkpoint
\* covers and no other, although it looks the place up by hash.
HistoryWindow ==
  \A s \in Server :
    history[s] = SubSeq(executed[s], committedCP[s].seq + 1, nextSeq[s])

\* A checkpoint is committed only after F+1 servers announced it, so at
\* least one that is not faulty did.
CommittedByQuorum ==
  \A s \in Server : committedCP[s].seq # 0 =>
    \E Q \in SUBSET Server :
      /\ Cardinality(Q) >= F + 1
      /\ \A q \in Q : CPMsg(q, committedCP[s]) \in msgs

\* Checkpoints announced for the same sequence number are the same
\* checkpoint, whether the announcer took it after a batch (the primary) or
\* after a request (another server), before or after truncations.
CheckpointAgreement ==
  \A m1, m2 \in msgs :
    /\ m1.type = "CP"
    /\ m2.type = "CP"
    /\ m1.cp.seq = m2.cp.seq
    => m1.cp = m2.cp

\* The tentative checkpoint's hash can always be found in the history: the
\* "Could not find checkpoint in history" branch of handleCP is never taken.
TentativeInHistory ==
  \A s \in Server : tentativeCP[s].cp.seq # 0 =>
    \E i \in DOMAIN historyHashes[s] :
      historyHashes[s][i] = tentativeCP[s].cp.historyHash

\* A committed checkpoint is only ever replaced by a later one.
CheckpointsAdvance ==
  [][\A s \in Server :
       committedCP'[s] # committedCP[s] =>
         /\ committedCP'[s].seq > committedCP[s].seq
         /\ committedCP'[s].seq <= nextSeq[s]]_committedCP

\* A server other than the primary never holds CPInterval requests or more
\* without having a checkpoint under way (handleOrderReq adds one request at
\* a time and commits restart the count).
ReplicaCheckpointUnderWay ==
  \A s \in Server \ {Primary} :
    Len(history[s]) >= CPInterval => tentativeCP[s].cp.seq # 0

\* The order request whose turn it is at s is one that s refuses.
Stuck(s) ==
  \E m \in msgs :
    m.type = "OrderReq" /\ m.seq = nextSeq[s] /\ ~Acceptable(s, m)

\* The only request that a server refuses in its turn is one that starts a
\* new hash chain, because the history of the primary was empty: batches,
\* truncations and checkpoints break the chain nowhere else.
StuckAtRestart ==
  \A s \in Server : \A m \in msgs :
    /\ m.type = "OrderReq"
    /\ m.seq = nextSeq[s]
    /\ ~Acceptable(s, m)
    => m.historyHash = <<m.req>>

\* No later message and no checkpoint gets such a server going again: it
\* executes nothing any more.
StuckForGood ==
  [][\A s \in Server :
       Stuck(s) => executed'[s] = executed[s] /\ Stuck(s)']_vars

-----------------------------------------------------------------------------
(***************************************************************************)
(* What the code's own comments say of it, and what it does not do         *)
(***************************************************************************)

\* "handleOrderReq processes ordered requests from the primary": on a network
\* that loses nothing, an order request that reached a server is executed.
\* Refuted: the primary multicasts each one from a goroutine of its own, and
\* one that overtakes its predecessor is refused for good.
OrderReqsExecuted ==
  \A s \in Server : \A m \in handled[s] :
    m.type = "OrderReq" => m.seq < nextSeq[s]

\* The same comment, for the request whose turn it is: the hash the primary
\* computed is the one the server computes.  Refuted: once the primary's
\* history is empty after a committed checkpoint, it chains the next request
\* to nothing and every other server to the checkpoint's hash.
NextRequestAcceptable ==
  \A s \in Server : \A m \in msgs :
    m.type = "OrderReq" /\ m.seq = nextSeq[s] => Acceptable(s, m)

\* "Checkpoint interval (# of requests)": no server, the primary included,
\* holds CPInterval requests or more without a checkpoint under way.
\* Refuted: a batch may step over the multiple of CPInterval.
CheckpointUnderWay ==
  \A s \in Server :
    Len(history[s]) >= CPInterval => tentativeCP[s].cp.seq # 0
=============================================================================
