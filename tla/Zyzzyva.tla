------------------------------- MODULE Zyzzyva -------------------------------
(***************************************************************************)
(* The whole system: clients (RequestTally, which Client implements), the  *)
(* primary's intake (Batching) and the servers (Replication).  The modules *)
(* meet in two steps: what processBatch takes from its batch is what it    *)
(* numbers, executes and multicasts, and a client completes a request on a *)
(* speculative response to it.                                             *)
(***************************************************************************)
EXTENDS Batching, FiniteSets

CONSTANTS F, CPInterval, MaxBatch, Reliable

\* MaxBatch is large enough to bound nothing.
ASSUME SystemAssumption ==
  /\ IsFiniteSet(Server)
  /\ F \in Nat
  /\ CPInterval \in Nat \ {0}
  /\ MaxBatch \in Nat \ {0}
  /\ IsFiniteSet(Request)
  /\ Cardinality(Request) <= MaxBatch
  /\ Reliable \in BOOLEAN

VARIABLES
  history, historyHashes, nextSeq, committedCP, tentativeCP, msgs, handled,
  executed,           \* of Replication
  waiting, answered   \* of RequestTally

R == INSTANCE Replication

T == INSTANCE RequestTally WITH Timestamp <- 1..MaxTimestamp

replicaVars == <<history, historyHashes, nextSeq, committedCP, tentativeCP,
                 msgs, handled, executed>>
clientVars == <<waiting, answered>>
systemVars == <<vars, replicaVars, clientVars>>

SystemInit == Init /\ R!Init /\ T!Init

-----------------------------------------------------------------------------
\* A step of Batching that the other modules do not take part in.
Aside(A) == A /\ UNCHANGED <<replicaVars, clientVars>>

\* The client loop: sendRequest, once the request before is registered.
Send(c) ==
  /\ clock[c] \in {0} \cup waiting[c] \cup answered[c]
  /\ Aside(SendRequest(c))

Register(c) ==
  /\ clock[c] # 0
  /\ T!Register(c, clock[c])
  /\ UNCHANGED <<vars, replicaVars>>

\* Handlers and timers, up to the batch that processBatch takes.
Intake(m) == Aside(ForwardToPrimary(m) \/ CheckTimestamp(m))

Collect == Aside(\E r \in admitted : AddToBatch(r))

Expire == Aside(TimerFires)

Take == Aside(TakeBatch)

\* processBatch under stateMu.
Order ==
  /\ \E batch \in taken : OrderBatch(batch) /\ R!ProcessBatch(batch)
  /\ UNCHANGED clientVars

Replicate(s, m) ==
  /\ \/ R!HandleOrderReq(s, m)
     \/ R!RefuseOrderReq(s, m)
     \/ R!CommitCheckpoint(s, m)
     \/ R!RecordVote(s, m)
     \/ R!RefuseVote(s, m)
  /\ UNCHANGED <<vars, clientVars>>

\* A response that client c accepts; the first one is enough.
Answers(m, c) == m.type = "SpecRes" /\ m.req.cId = c

Complete(c) ==
  /\ \E m \in msgs : Answers(m, c) /\ T!Complete(c, m.req.timestamp)
  /\ UNCHANGED <<vars, replicaVars>>

SystemNext ==
  \/ \E c \in Client : Send(c)
  \/ \E c \in Client : Register(c)
  \/ \E m \in sent : Intake(m)
  \/ Collect
  \/ Expire
  \/ Take
  \/ Order
  \/ \E s \in Server, m \in msgs : Replicate(s, m)
  \/ \E c \in Client : Complete(c)

SystemSpec == SystemInit /\ [][SystemNext]_systemVars

\* As in Batching: goroutines get their locks in the end, and timers expire.
\* The network owes nothing to anybody.
SystemFairness ==
  /\ WF_systemVars(Collect)
  /\ WF_systemVars(Expire)
  /\ WF_systemVars(Take)
  /\ WF_systemVars(Order)

FairSystemSpec == SystemSpec /\ SystemFairness

-----------------------------------------------------------------------------
(***************************************************************************)
(* Properties                                                              *)
(***************************************************************************)

\* Whatever handlers, timers and processBatch goroutines interleave, a batch
\* that waits for its numbers is fresh to the primary's log: what Replication
\* takes for granted of its batches, Batching provides.
OrderNeverBlocked ==
  \A batch \in taken : R!Log!FreshBatch(batch, executed[Primary])

\* Every answer, from whichever server and on whichever way its batch took
\* through the intake, names a place that the intake gave to its request.
AnswersNamePlaces ==
  \A m \in msgs : m.type = "SpecRes" =>
    m.seq + 1 \in DOMAIN ordered /\ m.req = ordered[m.seq + 1]

\* An order request is never news to the intake.  The multicast reaches the
\* primary too, whose handle may take an order request for the client's request
\* inside it (Receiver!OnlyRequestsMistaken): the timestamp check then refuses
\* it, whatever was forwarded, batched and ordered meanwhile.
OrderedIsOutdated ==
  \A m \in msgs : m.type = "OrderReq" => ~IsNew(m.req)

\* The system is one service: see Service.
S == INSTANCE Service WITH
       issued <- {r \in Request : r.timestamp <= clock[r.cId]},
       succeeded <- {r \in Request : r.timestamp \in answered[r.cId]}

ImplementsService == S!Spec

\* A request that passed the primary's timestamp check is executed by the
\* primary, and the response to its client is sent, in the end.
AcceptedAreAnswered ==
  \A r \in Request :
    r \in Accepted ~>
      \E m \in msgs : m.type = "SpecRes" /\ m.sId = Primary /\ m.req = r
=============================================================================
