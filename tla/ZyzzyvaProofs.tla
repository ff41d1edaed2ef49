---------------------------- MODULE ZyzzyvaProofs ----------------------------
(***************************************************************************)
(* Proofs about Zyzzyva: the composition is an instance of Batching and of *)
(* Replication, each provides what the other takes for granted, and the    *)
(* whole implements Service.                                               *)
(***************************************************************************)
EXTENDS Zyzzyva, BatchingProofs, FiniteSetTheorems

\* The theorems about Replication, for the servers of this system.
RP == INSTANCE ReplicationProofs

\* The cardinalities the modules speak of are the same.
LEMMA SameCardinality ==
  ASSUME NEW X
  PROVE  /\ R!Cardinality(X) = RP!Cardinality(X)
         /\ Cardinality(X) = RP!Cardinality(X)
<1>1. R!Cardinality(X) = RP!Cardinality(X)
  BY Zenon DEF R!Cardinality, RP!Cardinality
<1>2. Cardinality(X) = RP!Cardinality(X)
  BY Zenon DEF Cardinality, RP!Cardinality
<1> QED BY <1>1, <1>2

\* What the theorems about Replication assume, this system has.
LEMMA ReplicationAssumed == RP!ConstantsAssumption
<1>1. IsFiniteSet(Server) = RP!IsFiniteSet(Server)
  BY Zenon DEF IsFiniteSet, RP!IsFiniteSet
<1> QED
  BY <1>1, SystemAssumption, BatchingAssumption DEF RP!ConstantsAssumption

-----------------------------------------------------------------------------
(***************************************************************************)
(* The intake                                                              *)
(***************************************************************************)

\* Every step of the system is a step of Batching, or none to it.
LEMMA SystemStepsOfBatching == [SystemNext]_systemVars => [Next]_vars
BY DEF SystemNext, systemVars, Send, Register, Intake, Collect, Expire, Take,
       Order, Replicate, Complete, Aside, Next

THEOREM SystemImplementsBatching == SystemSpec => Spec
<1>1. SystemInit => Init
  BY DEF SystemInit
<1> QED BY <1>1, SystemStepsOfBatching, PTL DEF SystemSpec, Spec

-----------------------------------------------------------------------------
(***************************************************************************)
(* Replication                                                             *)
(***************************************************************************)

\* The steps of the two instances of Replication are the same.
LEMMA SameInit == R!Init => RP!Init
BY DEF R!Init, RP!Init, R!NoCP, RP!NoCP

LEMMA SameProcessBatch ==
  ASSUME NEW batch, R!ProcessBatch(batch)
  PROVE  RP!ProcessBatch(batch)
BY DEF R!ProcessBatch, RP!ProcessBatch, R!SeqAfter, RP!SeqAfter,
       R!BatchHashes, RP!BatchHashes, R!PrimaryHash, RP!PrimaryHash,
       R!Last, RP!Last, R!BatchCP, RP!BatchCP, R!BatchOrders, RP!BatchOrders,
       R!OrderReq, RP!OrderReq, R!SpecRes, RP!SpecRes,
       R!TentativeAfter, RP!TentativeAfter, R!CheckpointDue, RP!CheckpointDue,
       R!CheckpointMsgs, RP!CheckpointMsgs, R!CPMsg, RP!CPMsg,
       R!Log!FreshBatch, RP!Log!FreshBatch, R!Log!NoRepeats, RP!Log!NoRepeats,
       R!Log!Elements, RP!Log!Elements

LEMMA SameHandleOrderReq ==
  ASSUME NEW s, NEW m, R!HandleOrderReq(s, m)
  PROVE  RP!HandleOrderReq(s, m)
BY DEF R!HandleOrderReq, RP!HandleOrderReq, R!Receive, RP!Receive,
       R!Acceptable, RP!Acceptable, R!ReplicaHash, RP!ReplicaHash, R!Last,
       RP!Last, R!RequestCP, RP!RequestCP, R!SpecRes, RP!SpecRes,
       R!TentativeAfter, RP!TentativeAfter, R!CheckpointDue,
       RP!CheckpointDue, R!CheckpointMsgs, RP!CheckpointMsgs, R!CPMsg,
       RP!CPMsg

LEMMA SameReplicate ==
  ASSUME NEW s \in Server, NEW m \in msgs, Replicate(s, m)
  PROVE  RP!Next
<1> USE DEF R!Receive, RP!Receive, R!Acceptable, RP!Acceptable,
            R!ReplicaHash, RP!ReplicaHash, R!Last, RP!Last,
            R!MatchesTentative, RP!MatchesTentative, R!Votes, RP!Votes,
            R!Places, RP!Places, R!serverVars, RP!serverVars
<1>1. R!HandleOrderReq(s, m) => RP!HandleOrderReq(s, m)
  BY SameHandleOrderReq
<1>2. R!RefuseOrderReq(s, m) => RP!RefuseOrderReq(s, m)
  BY DEF R!RefuseOrderReq, RP!RefuseOrderReq
<1>3. R!CommitCheckpoint(s, m) => RP!CommitCheckpoint(s, m)
  <2>1. R!Cardinality(R!Votes(s, m)) = RP!Cardinality(RP!Votes(s, m))
    BY SameCardinality
  <2> QED
    BY <2>1, Zenon
       DEF R!CommitCheckpoint, RP!CommitCheckpoint, R!Truncated,
           RP!Truncated, R!TentativeCleared, RP!TentativeCleared, R!NoCP,
           RP!NoCP
<1>4. R!RecordVote(s, m) => RP!RecordVote(s, m)
  <2>1. R!Cardinality(R!Votes(s, m)) = RP!Cardinality(RP!Votes(s, m))
    BY SameCardinality
  <2> QED
    BY <2>1, Zenon DEF R!RecordVote, RP!RecordVote
<1>5. R!RefuseVote(s, m) => RP!RefuseVote(s, m)
  BY DEF R!RefuseVote, RP!RefuseVote
<1> QED BY <1>1, <1>2, <1>3, <1>4, <1>5 DEF Replicate, RP!Next

\* A sequence without repetitions is no longer than there are requests, so
\* it is among the batches of Replication.
LEMMA WithinMaxBatch ==
  ASSUME NEW b \in Seq(Request), b # <<>>, RL!NoRepeats(b)
  PROVE  b \in RP!Batches
<1> DEFINE n == Len(b)
<1>1. n \in Nat \ {0} /\ DOMAIN b = 1..n /\ b \in [1..n -> Request]
  BY LenProperties, EmptySeq
<1>2. b \in Injection(1..n, Request)
  BY <1>1 DEF Injection, IsInjective, RL!NoRepeats
<1>3. Cardinality(1..n) <= Cardinality(Request)
  BY <1>2, FS_Injection, SystemAssumption
<1>4. Cardinality(1..n) = n
  BY <1>1, FS_Interval
<1>5. Cardinality(Request) \in Nat
  BY SystemAssumption, FS_CardinalityType
<1>6. n \in 1..MaxBatch
  BY <1>1, <1>3, <1>4, <1>5, SystemAssumption
<1> QED BY <1>1, <1>6 DEF RP!Batches

\* A batch that the intake hands over is one that Replication may order.
LEMMA OrderOfReplication ==
  ASSUME TypeOK, StagesInv, NEW batch \in taken, R!ProcessBatch(batch)
  PROVE  batch \in RP!Batches /\ RP!ProcessBatch(batch)
<1>1. batch \in Seq(Request) /\ batch # <<>> /\ RL!NoRepeats(batch)
  BY DEF TypeOK, StagesInv
<1> QED BY <1>1, WithinMaxBatch, SameProcessBatch

LEMMA SystemStepsOfReplication ==
  TypeOK /\ StagesInv /\ [SystemNext]_systemVars => [RP!Next]_RP!vars
<1> SUFFICES ASSUME TypeOK, StagesInv, [SystemNext]_systemVars
             PROVE  RP!Next \/ UNCHANGED RP!vars
  OBVIOUS
<1>1. CASE Order
  <2>1. PICK batch \in taken : R!ProcessBatch(batch)
    BY <1>1 DEF Order
  <2> QED BY <2>1, OrderOfReplication DEF RP!Next
<1>2. ASSUME NEW s \in Server, NEW m \in msgs, Replicate(s, m)
      PROVE  RP!Next
  BY <1>2, SameReplicate
<1>3. CASE UNCHANGED replicaVars
  BY <1>3 DEF replicaVars, RP!vars, RP!serverVars
<1> QED
  BY <1>1, <1>2, <1>3
     DEF SystemNext, systemVars, Send, Register, Intake, Collect, Expire,
         Take, Complete, Aside

\* What Replication supposes of the batches that arrive is true of those the
\* intake makes: the servers of the system behave as Replication says.
THEOREM SystemImplementsReplication == SystemSpec => RP!Spec
<1>1. SystemInit => RP!Init
  BY SameInit DEF SystemInit
<1> QED
  BY <1>1, SystemStepsOfReplication, SystemImplementsBatching, StagesCorrect,
     PTL DEF SystemSpec, RP!Spec

-----------------------------------------------------------------------------
(***************************************************************************)
(* The two modules keep one log                                            *)
(***************************************************************************)

\* The log of the intake is what the primary executed.
OneLog == ordered = executed[Primary]

LEMMA OneLogStep ==
  /\ TypeOK /\ StagesInv
  /\ RP!TypeOK /\ RP!LogInv
  /\ OneLog
  /\ [SystemNext]_systemVars
  => OneLog'
<1> SUFFICES ASSUME TypeOK, StagesInv, RP!TypeOK, RP!LogInv, OneLog,
                    [SystemNext]_systemVars
             PROVE  OneLog'
  OBVIOUS
<1>0. Primary \in Server /\ executed \in [Server -> Seq(Request)]
  BY BatchingAssumption DEF RP!TypeOK
<1>1. CASE Order
  <2>1. PICK batch \in taken : OrderBatch(batch) /\ R!ProcessBatch(batch)
    BY <1>1 DEF Order
  <2> QED
    BY <1>0, <2>1 DEF OneLog, OrderBatch, R!ProcessBatch
<1>2. ASSUME NEW s \in Server, NEW m \in msgs, Replicate(s, m)
      PROVE  OneLog'
  <2>1. CASE R!HandleOrderReq(s, m)
    <3>1. RP!L!Execute(s)
      BY <2>1, SameHandleOrderReq, RP!RequestExecutesLedger,
         ReplicationAssumed DEF RP!ConstantsAssumption
    <3> QED
      BY <1>0, <1>2, <3>1 DEF RP!L!Execute, OneLog, Replicate, vars
  <2>2. CASE UNCHANGED executed
    BY <1>2, <2>2 DEF OneLog, Replicate, vars
  <2> QED
    BY <1>2, <2>1, <2>2
       DEF Replicate, R!RefuseOrderReq, R!CommitCheckpoint, R!RecordVote,
           R!RefuseVote
<1>3. CASE UNCHANGED <<ordered, executed>>
  BY <1>3 DEF OneLog
<1> QED
  BY <1>1, <1>2, <1>3
     DEF SystemNext, systemVars, replicaVars, vars, Send, Register, Intake,
         Collect, Expire, Take, Complete, Aside, SendRequest,
         ForwardToPrimary, CheckTimestamp, AddToBatch, TimerFires, TakeBatch

LEMMA OneLogCorrect ==
  SystemSpec => [](/\ TypeOK /\ StagesInv
                   /\ RP!TypeOK /\ RP!LogInv
                   /\ OneLog)
<1>1. SystemInit => OneLog
  BY BatchingAssumption DEF SystemInit, Init, R!Init, OneLog
<1> QED
  BY <1>1, OneLogStep, SystemImplementsBatching, SystemImplementsReplication,
     StagesCorrect, RP!LogCorrect, ReplicationAssumed, PTL DEF SystemSpec

\* The primary never waits for a batch that its log refuses.
THEOREM OrderNeverBlockedCorrect == SystemSpec => []OrderNeverBlocked
<1>1. TypeOK /\ StagesInv /\ OneLog => OrderNeverBlocked
  <2> SUFFICES ASSUME TypeOK, StagesInv, OneLog, NEW batch \in taken
               PROVE  R!Log!FreshBatch(batch, executed[Primary])
    BY DEF OrderNeverBlocked
  <2>1. batch \in Seq(Request)
    BY DEF TypeOK
  <2>2. R!Log!Elements(batch) \subseteq Request
    BY <2>1, ElementOfSeq, LenProperties DEF R!Log!Elements
  <2> QED
    BY <2>2 DEF StagesInv, OneLog, R!Log!FreshBatch, R!Log!NoRepeats,
                R!Log!Elements, RL!NoRepeats, RL!Elements
<1> QED BY <1>1, OneLogCorrect, PTL

\* What is proved of the servers on batches from anywhere is true of them on
\* the batches of this system: their answers agree by number and by request,
\* their checkpoints agree, and a server is stuck only where a hash chain
\* starts, and then for good.
THEOREM ServersAgree ==
  SystemSpec => /\ []RP!SpeculativeAgreement
                /\ []RP!OneAnswer
                /\ []RP!CheckpointAgreement
                /\ []RP!StuckAtRestart
                /\ RP!StuckForGood
BY SystemImplementsReplication, ReplicationAssumed,
   RP!SpeculativeAgreementCorrect, RP!OneAnswerCorrect,
   RP!CheckpointAgreementCorrect, RP!StuckAtRestartCorrect,
   RP!StuckForGoodCorrect, PTL

\* The answers of all servers name places of the log that the intake made.
THEOREM AnswersNamePlacesCorrect == SystemSpec => []AnswersNamePlaces
<1>1. TypeOK /\ RP!TypeOK /\ RP!LogInv /\ OneLog => AnswersNamePlaces
  <2> SUFFICES ASSUME TypeOK, RP!TypeOK, RP!LogInv, OneLog,
                      NEW m \in msgs, m.type = "SpecRes"
               PROVE  m.seq + 1 \in DOMAIN ordered /\ m.req = ordered[m.seq + 1]
    BY DEF AnswersNamePlaces
  <2> DEFINE o == RP!OrderReq(m.seq, m.historyHash, m.req)
  <2>1. o \in msgs
    BY DEF RP!LogInv
  <2>2. o.type = "OrderReq" /\ o.seq = m.seq /\ o.req = m.req
    BY DEF RP!OrderReq
  <2>3. m.seq < nextSeq[Primary] /\ m.req = executed[Primary][m.seq + 1]
    BY <2>1, <2>2 DEF RP!LogInv
  <2>4. nextSeq[Primary] = Len(ordered) /\ executed[Primary] = ordered
    BY BatchingAssumption DEF RP!LogInv, OneLog
  <2>5. /\ m.seq \in Nat /\ Len(ordered) \in Nat
        /\ DOMAIN ordered = 1..Len(ordered)
    BY LenProperties DEF TypeOK, RP!TypeOK, RP!Message
  <2>6. m.seq + 1 \in DOMAIN ordered
    BY <2>3, <2>4, <2>5
  <2> QED
    BY <2>3, <2>4, <2>6
<1> QED
  BY <1>1, OneLogCorrect, PTL

\* No order request passes the primary's timestamp check as the client's request
\* that it carries.
THEOREM OrderedIsOutdatedCorrect == SystemSpec => []OrderedIsOutdated
<1>1. TypeOK /\ CacheInv /\ RP!TypeOK /\ RP!LogInv /\ OneLog
        => OrderedIsOutdated
  <2> SUFFICES ASSUME TypeOK, CacheInv, RP!TypeOK, RP!LogInv, OneLog,
                      NEW m \in msgs, m.type = "OrderReq"
               PROVE  ~IsNew(m.req)
    BY DEF OrderedIsOutdated
  <2>1. m.seq < nextSeq[Primary] /\ m.req = executed[Primary][m.seq + 1]
    BY DEF RP!LogInv
  <2>2. nextSeq[Primary] = Len(ordered) /\ executed[Primary] = ordered
    BY BatchingAssumption DEF RP!LogInv, OneLog
  <2>3. /\ m.seq \in Nat /\ Len(ordered) \in Nat
        /\ DOMAIN ordered = 1..Len(ordered)
    BY LenProperties DEF TypeOK, RP!TypeOK, RP!Message
  <2>4. m.seq + 1 \in DOMAIN ordered /\ m.req = ordered[m.seq + 1]
    BY <2>1, <2>2, <2>3
  <2>5. m.req \in Accepted
    BY <2>4 DEF Accepted, RL!Elements
  <2>6. m.req \in Request
    BY <2>5, AcceptedType
  <2>7. m.req.timestamp \in Int /\ respCache[m.req.cId] \in Int
    BY <2>6, BatchingAssumption DEF TypeOK, Request
  <2> QED
    BY <2>5, <2>7 DEF CacheInv, IsNew
<1> QED
  BY <1>1, OneLogCorrect, SystemImplementsBatching, StagesCorrect, PTL

\* A request that a later one of its client overtook on its way to the primary
\* is never answered, by any server: its client waits for good.
THEOREM OvertakenNeverAnswered ==
  SystemSpec =>
    [][\A r \in Request \ Accepted :
         r.timestamp <= respCache[r.cId] =>
           \A m \in msgs' : m.type = "SpecRes" => m.req # r]_systemVars
<1> DEFINE StaysOut ==
             \A r \in Request \ Accepted :
               r.timestamp <= respCache[r.cId] =>
                 r \notin Accepted' /\ r.timestamp <= respCache'[r.cId]
           Unanswered ==
             \A r \in Request \ Accepted :
               r.timestamp <= respCache[r.cId] =>
                 \A m \in msgs' : m.type = "SpecRes" => m.req # r
<1>1. [StaysOut]_vars /\ AnswersNamePlaces' /\ [SystemNext]_systemVars
        => [Unanswered]_systemVars
  <2> SUFFICES ASSUME [StaysOut]_vars, AnswersNamePlaces',
                      NEW r \in Request \ Accepted,
                      r.timestamp <= respCache[r.cId],
                      NEW m \in msgs', m.type = "SpecRes", m.req = r
               PROVE  FALSE
    OBVIOUS
  <2>1. r \in Accepted'
    BY DEF AnswersNamePlaces, Accepted, RL!Elements
  <2>2. CASE UNCHANGED vars
    BY <2>1, <2>2 DEF vars, Accepted
  <2>3. CASE StaysOut
    BY <2>1, <2>3
  <2> QED
    BY <2>2, <2>3
<1> QED
  BY <1>1, SystemImplementsBatching, OvertakenForGoodCorrect,
     AnswersNamePlacesCorrect, PTL DEF SystemSpec, OvertakenForGood

-----------------------------------------------------------------------------
(***************************************************************************)
(* The system implements the service                                       *)
(***************************************************************************)

\* What is registered is not answered yet.
TallyInv ==
  /\ waiting \in [Client -> SUBSET Int]
  /\ answered \in [Client -> SUBSET Int]
  /\ \A c \in Client : waiting[c] \cap answered[c] = {}

LEMMA TallyStep == TypeOK /\ TallyInv /\ [SystemNext]_systemVars => TallyInv'
<1> SUFFICES ASSUME TypeOK, TallyInv, [SystemNext]_systemVars
             PROVE  TallyInv'
  OBVIOUS
<1>1. ASSUME NEW c \in Client, Register(c)
      PROVE  TallyInv'
  <2>1. clock[c] \in Int
    BY BatchingAssumption DEF TypeOK
  <2> QED BY <1>1, <2>1 DEF Register, T!Register, TallyInv
<1>2. ASSUME NEW c \in Client, Complete(c)
      PROVE  TallyInv'
  <2>1. PICK t : T!Complete(c, t)
    BY <1>2 DEF Complete
  <2>2. t \in Int
    BY <2>1 DEF T!Complete, TallyInv
  <2> QED BY <2>1, <2>2 DEF T!Complete, TallyInv
<1>3. CASE UNCHANGED clientVars
  BY <1>3 DEF clientVars, TallyInv
<1> QED
  BY <1>1, <1>2, <1>3
     DEF SystemNext, systemVars, Send, Intake, Collect, Expire, Take, Order,
         Replicate, Aside

\* Everything the refinement needs of a state.
ServiceInv ==
  /\ TypeOK /\ StagesInv
  /\ RP!TypeOK /\ RP!LogInv
  /\ OneLog
  /\ TallyInv
  /\ \A r \in Accepted : r \in Request /\ r.timestamp <= clock[r.cId]

LEMMA ServiceInvCorrect == SystemSpec => []ServiceInv
<1>1. SystemInit => TallyInv
  BY DEF SystemInit, T!Init, TallyInv
<1> QED
  BY <1>1, TallyStep, OneLogCorrect, SystemImplementsBatching,
     AcceptedWasSent, PTL DEF SystemSpec, ServiceInv

\* What the service sees of a state.
issuedRequests == {r \in Request : r.timestamp <= clock[r.cId]}
succeededRequests == {r \in Request : r.timestamp \in answered[r.cId]}

\* sendRequest issues one request.
LEMMA SendIssues ==
  ASSUME TypeOK, NEW c \in Client, Send(c)
  PROVE  S!Issue
<1> DEFINE q == [cId |-> c, timestamp |-> clock[c] + 1]
<1>1. /\ clock[c] < MaxTimestamp
      /\ clock' = [clock EXCEPT ![c] = @ + 1]
      /\ UNCHANGED <<executed, answered>>
  BY DEF Send, Aside, SendRequest, replicaVars, clientVars
<1>2. \A d \in Client : clock[d] \in Nat /\ clock'[d] \in Nat
  BY <1>1, BatchingAssumption DEF TypeOK
<1>3. /\ clock'[c] = clock[c] + 1
      /\ \A d \in Client \ {c} : clock'[d] = clock[d]
  BY <1>1 DEF TypeOK
<1>4. q \in Request /\ q.cId = c /\ q.timestamp = clock[c] + 1
  BY <1>1, <1>2, BatchingAssumption DEF Request
<1>5. q \notin issuedRequests
  BY <1>2, <1>4 DEF issuedRequests
<1>6. ASSUME NEW r \in Request
      PROVE  r.timestamp <= clock'[r.cId] <=> r \in issuedRequests \/ r = q
  <2>1. r.cId \in Client /\ r.timestamp \in Nat
    BY BatchingAssumption DEF Request
  <2>2. r = q <=> r.cId = c /\ r.timestamp = clock[c] + 1
    BY DEF Request
  <2>3. CASE r.cId = c
    <3>1. r.timestamp <= clock[c] + 1
            <=> r.timestamp <= clock[c] \/ r.timestamp = clock[c] + 1
      BY <1>2, <2>1
    <3> QED BY <1>3, <2>2, <2>3, <3>1 DEF issuedRequests
  <2>4. CASE r.cId # c
    BY <1>3, <2>1, <2>2, <2>4 DEF issuedRequests
  <2> QED BY <2>3, <2>4
<1>7. {r \in Request : r.timestamp <= clock'[r.cId]} = issuedRequests \cup {q}
  BY <1>4, <1>6 DEF issuedRequests
<1> QED BY <1>1, <1>4, <1>5, <1>7 DEF S!Issue, issuedRequests

\* processBatch orders requests that clients issued.
LEMMA OrderOrders ==
  ASSUME ServiceInv, ServiceInv', Order
  PROVE  S!Order
<1>1. PICK batch \in taken : OrderBatch(batch) /\ R!ProcessBatch(batch)
  BY DEF Order
<1>2. UNCHANGED <<clock, answered>>
  BY <1>1 DEF OrderBatch, Order, clientVars
<1>3. RP!L!Order
  BY <1>1, OrderOfReplication, RP!BatchOrdersLedger, ReplicationAssumed
     DEF RP!ConstantsAssumption, ServiceInv
<1>4. S!L!Order
  BY <1>3 DEF RP!L!Order, S!L!Order, RP!L!Log!Order, S!L!Log!Order,
              RP!L!Log!FreshBatch, S!L!Log!FreshBatch, RP!L!Log!NoRepeats,
              S!L!Log!NoRepeats, RP!L!Log!Elements, S!L!Log!Elements
<1>5. S!Elements(executed'[Primary]) \subseteq Accepted'
  BY DEF ServiceInv, OneLog, Accepted, S!Elements, RL!Elements
<1>6. S!Elements(executed'[Primary]) \subseteq issuedRequests
  BY <1>2, <1>5 DEF ServiceInv, issuedRequests
<1> QED BY <1>2, <1>4, <1>6 DEF S!Order, issuedRequests

\* handleOrderReq executes the next request of the log.
LEMMA ReplicateExecutes ==
  ASSUME ServiceInv, NEW s \in Server, NEW m \in msgs, Replicate(s, m)
  PROVE  S!Execute(s) \/ UNCHANGED <<clock, executed, answered>>
<1>1. UNCHANGED <<clock, answered>>
  BY DEF Replicate, vars, clientVars
<1>2. CASE R!HandleOrderReq(s, m)
  <2>1. RP!L!Execute(s)
    BY <1>2, SameHandleOrderReq, RP!RequestExecutesLedger,
       ReplicationAssumed DEF RP!ConstantsAssumption, ServiceInv
  <2> QED
    BY <1>1, <2>1 DEF RP!L!Execute, S!L!Execute, S!Execute
<1>3. CASE UNCHANGED executed
  BY <1>1, <1>3
<1> QED
  BY <1>2, <1>3
     DEF Replicate, R!RefuseOrderReq, R!CommitCheckpoint, R!RecordVote,
         R!RefuseVote

\* A client counts a request that the primary has executed, and only once.
LEMMA CompleteSucceeds ==
  ASSUME ServiceInv, NEW c \in Client, Complete(c)
  PROVE  S!Succeed
<1>1. PICK m \in msgs : Answers(m, c) /\ T!Complete(c, m.req.timestamp)
  BY DEF Complete
<1> DEFINE q == m.req
           o == RP!OrderReq(m.seq, m.historyHash, m.req)
<1>2. q \in Request /\ q.cId = c
  BY <1>1 DEF Answers, ServiceInv, RP!TypeOK, RP!Message
<1>3. /\ q.timestamp \notin answered[c]
      /\ answered' = [answered EXCEPT ![c] = @ \cup {q.timestamp}]
      /\ answered \in [Client -> SUBSET Int]
      /\ UNCHANGED <<clock, executed>>
  BY <1>1 DEF T!Complete, ServiceInv, TallyInv, Complete, vars, replicaVars
<1>4. q \in S!Elements(executed[Primary])
  <2>1. o \in msgs /\ o.type = "OrderReq" /\ o.seq = m.seq /\ o.req = q
    BY <1>1 DEF Answers, ServiceInv, RP!LogInv, RP!OrderReq
  <2>2. /\ m.seq \in Nat
        /\ m.seq < Len(executed[Primary])
        /\ q = executed[Primary][m.seq + 1]
    BY <1>1, <2>1, BatchingAssumption
       DEF Answers, ServiceInv, RP!LogInv, RP!TypeOK, RP!Message
  <2>3. m.seq + 1 \in DOMAIN executed[Primary]
    BY <2>2, LenProperties, BatchingAssumption DEF ServiceInv, RP!TypeOK
  <2> QED BY <2>2, <2>3 DEF S!Elements
<1>5. q \notin succeededRequests
  BY <1>2, <1>3 DEF succeededRequests
<1>6. ASSUME NEW r \in Request
      PROVE  r.timestamp \in answered'[r.cId]
               <=> r \in succeededRequests \/ r = q
  <2>1. r.cId \in Client
    BY DEF Request
  <2>2. r = q <=> r.cId = c /\ r.timestamp = q.timestamp
    BY <1>2 DEF Request
  <2> QED BY <1>3, <2>1, <2>2 DEF succeededRequests
<1>7. {r \in Request : r.timestamp \in answered'[r.cId]}
        = succeededRequests \cup {q}
  BY <1>2, <1>6 DEF succeededRequests
<1> QED
  BY <1>3, <1>4, <1>5, <1>7 DEF S!Succeed, succeededRequests

\* Clients, intake and servers together are the service: the requests that
\* clients issued get into one log without repetition, every server executes
\* a prefix of it, and a client counts a request at most once, when the
\* primary has executed it.
THEOREM ServiceImplemented == SystemSpec => ImplementsService
<1>1. SystemInit => S!Init
  BY BatchingAssumption DEF SystemInit, Init, R!Init, T!Init, S!Init,
                            S!L!Init, Request
<1>2. ServiceInv /\ ServiceInv' /\ [SystemNext]_systemVars
        => [S!Next]_(S!vars)
  <2> SUFFICES ASSUME ServiceInv, ServiceInv', [SystemNext]_systemVars
               PROVE  S!Next \/ UNCHANGED S!vars
    OBVIOUS
  <2>1. ASSUME NEW c \in Client, Send(c)
        PROVE  S!Next
    BY <2>1, SendIssues DEF ServiceInv, S!Next
  <2>2. CASE Order
    BY <2>2, OrderOrders DEF S!Next
  <2>3. ASSUME NEW s \in Server, NEW m \in msgs, Replicate(s, m)
        PROVE  S!Next \/ UNCHANGED <<clock, executed, answered>>
    BY <2>3, ReplicateExecutes DEF S!Next
  <2>4. ASSUME NEW c \in Client, Complete(c)
        PROVE  S!Next
    BY <2>4, CompleteSucceeds DEF S!Next
  <2>5. CASE UNCHANGED <<clock, executed, answered>>
    BY <2>5 DEF S!vars
  <2> QED
    BY <2>1, <2>2, <2>3, <2>4, <2>5
       DEF SystemNext, systemVars, vars, replicaVars, clientVars, Register,
           T!Register, Intake, Collect, Expire, Take, Aside,
           ForwardToPrimary, CheckTimestamp, AddToBatch, TimerFires,
           TakeBatch
<1> QED
  BY <1>1, <1>2, ServiceInvCorrect, PTL
     DEF SystemSpec, ImplementsService, S!Spec
=============================================================================
