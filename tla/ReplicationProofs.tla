------------------------- MODULE ReplicationProofs -------------------------
(***************************************************************************)
(* Theorems about Replication, for every number of servers, checkpoint     *)
(* interval, batch length and set of requests, on either kind of network.  *)
(*                                                                         *)
(* The steps that refuse a message change nothing but handled; the lemmas  *)
(* below treat them together (Refused).                                    *)
(***************************************************************************)
EXTENDS Replication, SeqFacts, TLAPS

-----------------------------------------------------------------------------
(***************************************************************************)
(* Lemmas about the helpers                                                *)
(***************************************************************************)

\* The batches of processBatch are not-empty sequences of requests.
LEMMA BatchType ==
  ASSUME NEW batch \in Batches
  PROVE  /\ batch \in Seq(Request)
         /\ Len(batch) \in Nat \ {0}
         /\ DOMAIN batch = 1..Len(batch)
<1>1. PICK n \in 1..MaxBatch : batch \in [1..n -> Request]
  BY DEF Batches
<1>2. n \in Nat \ {0}
  BY ConstantsAssumption
<1>3. batch \in Seq(Request) /\ Len(batch) = n
  BY <1>1, <1>2
<1> QED
  BY <1>2, <1>3, LenProperties

\* The hash the primary chains to is a history hash.
LEMMA PrimaryHashType ==
  ASSUME TypeOK
  PROVE  PrimaryHash \in HistoryHash
<1>1. historyHashes[Primary] \in Seq(HistoryHash)
  BY ConstantsAssumption DEF TypeOK
<1>2. <<>> \in HistoryHash
  BY DEF HistoryHash
<1> QED
  BY <1>1, <1>2, EmptySeq, LenProperties, ElementOfSeq DEF PrimaryHash, Last

\* The hash another server chains to is a history hash.
LEMMA ReplicaHashType ==
  ASSUME TypeOK, NEW s \in Server
  PROVE  ReplicaHash(s) \in HistoryHash
<1>1. historyHashes[s] \in Seq(HistoryHash)
  BY DEF TypeOK
<1>2. committedCP[s].historyHash \in HistoryHash
  BY DEF TypeOK, CP
<1> QED
  BY <1>1, <1>2, EmptySeq, LenProperties, ElementOfSeq DEF ReplicaHash, Last

\* Along a batch, the history hash grows by one request at a time.
LEMMA BatchHashesType ==
  ASSUME TypeOK, NEW batch \in Batches
  PROVE  /\ BatchHashes(batch) \in Seq(HistoryHash)
         /\ Len(BatchHashes(batch)) = Len(batch)
         /\ \A i \in 1..Len(batch) :
              /\ BatchHashes(batch)[i] \in HistoryHash
              /\ Len(BatchHashes(batch)[i]) = Len(PrimaryHash) + i
         /\ Last(BatchHashes(batch)) = BatchHashes(batch)[Len(batch)]
<1>1. /\ batch \in Seq(Request)
      /\ Len(batch) \in Nat \ {0}
  BY BatchType
<1>2. PrimaryHash \in Seq(Request)
  BY PrimaryHashType DEF HistoryHash
<1>3. ASSUME NEW i \in 1..Len(batch)
      PROVE  /\ PrimaryHash \o SubSeq(batch, 1, i) \in Seq(Request)
             /\ Len(PrimaryHash \o SubSeq(batch, 1, i))
                  = Len(PrimaryHash) + i
  <2>1. \A j \in 1..i : batch[j] \in Request
    BY <1>1, ElementOfSeq
  <2>2. /\ SubSeq(batch, 1, i) \in Seq(Request)
        /\ Len(SubSeq(batch, 1, i)) = i
    BY <2>1, SubSeqProperties
  <2> QED
    BY <1>2, <2>2, ConcatProperties
<1>4. BatchHashes(batch) \in [1..Len(batch) -> HistoryHash]
  BY <1>3 DEF BatchHashes, HistoryHash
<1>5. /\ BatchHashes(batch) \in Seq(HistoryHash)
      /\ Len(BatchHashes(batch)) = Len(batch)
  BY <1>1, <1>4
<1> QED
  BY <1>3, <1>4, <1>5 DEF BatchHashes, Last, HistoryHash

\* Dropping the first entries of a sequence.
LEMMA TruncatedType ==
  ASSUME NEW S, NEW seq \in Seq(S), NEW i \in 1..Len(seq)
  PROVE  /\ Truncated(seq, i) \in Seq(S)
         /\ Len(Truncated(seq, i)) = Len(seq) - i
         /\ \A j \in 1..(Len(seq) - i) : Truncated(seq, i)[j] = seq[i + j]
<1>1. \A j \in (i + 1)..Len(seq) : seq[j] \in S
  BY ElementOfSeq, LenProperties
<1>2. i \in Int /\ Len(seq) \in Int
  BY LenProperties
<1> QED
  BY <1>1, <1>2, SubSeqProperties DEF Truncated

\* The order requests of a batch, one for each request.
LEMMA BatchOrdersType ==
  ASSUME TypeOK, NEW batch \in Batches, NEW m \in BatchOrders(batch)
  PROVE  /\ m \in Message
         /\ m.type = "OrderReq"
         /\ SpecRes(Primary, m.seq, m.historyHash, m.req) \in Message
         /\ \E i \in 1..Len(batch) :
              m = OrderReq(nextSeq[Primary] + i - 1, BatchHashes(batch)[i],
                           batch[i])
<1>1. PICK i \in 1..Len(batch) :
        m = OrderReq(nextSeq[Primary] + i - 1, BatchHashes(batch)[i],
                     batch[i])
  BY DEF BatchOrders
<1>2. nextSeq[Primary] + i - 1 \in Nat
  BY ConstantsAssumption, BatchType DEF TypeOK
<1>3. BatchHashes(batch)[i] \in HistoryHash
  BY BatchHashesType
<1>4. batch[i] \in Request
  BY BatchType, ElementOfSeq
<1> QED
  BY <1>1, <1>2, <1>3, <1>4, ConstantsAssumption
     DEF Message, OrderReq, SpecRes

\* The checkpoint taken after a batch is a checkpoint, and not NoCP.
LEMMA BatchCPType ==
  ASSUME TypeOK, NEW batch \in Batches
  PROVE  BatchCP(batch) \in CP /\ BatchCP(batch).seq # 0
<1>1. SeqAfter(batch) \in Nat \ {0}
  BY ConstantsAssumption, BatchType DEF TypeOK, SeqAfter
<1>2. Last(BatchHashes(batch)) \in HistoryHash
  BY BatchHashesType, BatchType
<1> QED
  BY <1>1, <1>2 DEF BatchCP, CP

\* The checkpoint another server takes is a checkpoint, and not NoCP.
LEMMA RequestCPType ==
  ASSUME TypeOK, NEW s \in Server, NEW m \in msgs, m.type = "OrderReq"
  PROVE  RequestCP(s, m) \in CP /\ RequestCP(s, m).seq # 0
BY DEF TypeOK, RequestCP, CP, Message

\* Checkpoint creation keeps the types.
LEMMA CheckpointType ==
  ASSUME TypeOK, NEW s \in Server, NEW h, NEW cp \in CP
  PROVE  /\ TentativeAfter(s, h, cp)
              \in [Server -> [cp : CP, recv : SUBSET Server]]
         /\ CheckpointMsgs(s, h, cp) \subseteq Message
BY DEF TypeOK, TentativeAfter, CheckpointMsgs, CPMsg, Message

\* Receiving keeps the types.
LEMMA ReceiveType ==
  ASSUME TypeOK, NEW s \in Server, NEW m \in msgs, Receive(s, m)
  PROVE  handled' \in [Server -> SUBSET Message]
<1>1. m \in Message
  BY DEF TypeOK
<1> QED
  BY <1>1 DEF TypeOK, Receive

-----------------------------------------------------------------------------
(***************************************************************************)
(* Types                                                                   *)
(***************************************************************************)

\* A step that refuses a message, and a stuttering step.
Refused ==
  /\ UNCHANGED <<serverVars, msgs, executed>>
  /\ \/ UNCHANGED handled
     \/ \E s \in Server, m \in msgs : Receive(s, m)

\* The cases of a step.
LEMMA StepCases ==
  ASSUME [Next]_vars
  PROVE  \/ \E batch \in Batches : ProcessBatch(batch)
         \/ \E s \in Server, m \in msgs : HandleOrderReq(s, m)
         \/ \E s \in Server, m \in msgs : CommitCheckpoint(s, m)
         \/ \E s \in Server, m \in msgs : RecordVote(s, m)
         \/ Refused
BY DEF Next, vars, Refused, RefuseOrderReq, RefuseVote

\* Every step keeps the types.
LEMMA TypeStep == TypeOK /\ [Next]_vars => TypeOK'
<1> SUFFICES ASSUME TypeOK, [Next]_vars
             PROVE  TypeOK'
  OBVIOUS
<1>1. ASSUME NEW batch \in Batches, ProcessBatch(batch)
      PROVE  TypeOK'
  <2> DEFINE h == history[Primary] \o batch
             orders == BatchOrders(batch)
             answers == {SpecRes(Primary, m.seq, m.historyHash, m.req) :
                           m \in orders}
  <2>1. Primary \in Server
    BY ConstantsAssumption
  <2>2. batch \in Seq(Request) /\ Len(batch) \in Nat
    BY BatchType
  <2>3. history' \in [Server -> Seq(Request)]
    <3>1. h \in Seq(Request)
      BY <2>1, <2>2, ConcatProperties DEF TypeOK
    <3> QED
      BY <1>1, <3>1 DEF ProcessBatch, TypeOK
  <2>4. historyHashes' \in [Server -> Seq(HistoryHash)]
    <3>1. BatchHashes(batch) \in Seq(HistoryHash)
      BY BatchHashesType
    <3>2. historyHashes[Primary] \o BatchHashes(batch) \in Seq(HistoryHash)
      BY <2>1, <3>1, ConcatProperties DEF TypeOK
    <3> QED
      BY <1>1, <3>2 DEF ProcessBatch, TypeOK
  <2>5. nextSeq' \in [Server -> Nat]
    BY <1>1, <2>1, <2>2 DEF ProcessBatch, TypeOK, SeqAfter
  <2>6. tentativeCP' \in [Server -> [cp : CP, recv : SUBSET Server]]
    BY <1>1, <2>1, BatchCPType, CheckpointType DEF ProcessBatch
  <2>7. msgs' \subseteq Message
    <3>1. orders \subseteq Message /\ answers \subseteq Message
      BY BatchOrdersType
    <3>2. CheckpointMsgs(Primary, h, BatchCP(batch)) \subseteq Message
      BY <2>1, BatchCPType, CheckpointType
    <3>3. msgs' = msgs \cup orders \cup answers
                    \cup CheckpointMsgs(Primary, h, BatchCP(batch))
      BY <1>1 DEF ProcessBatch
    <3> QED
      BY <3>1, <3>2, <3>3 DEF TypeOK
  <2>8. executed' \in [Server -> Seq(Request)]
    <3>1. executed[Primary] \o batch \in Seq(Request)
      BY <2>1, <2>2, ConcatProperties DEF TypeOK
    <3> QED
      BY <1>1, <3>1 DEF ProcessBatch, TypeOK
  <2> QED
    BY <1>1, <2>3, <2>4, <2>5, <2>6, <2>7, <2>8 DEF ProcessBatch, TypeOK
<1>2. ASSUME NEW s \in Server, NEW m \in msgs, HandleOrderReq(s, m)
      PROVE  TypeOK'
  <2> DEFINE h == Append(history[s], m.req)
  <2>1. m.type = "OrderReq" /\ Receive(s, m)
    BY <1>2 DEF HandleOrderReq
  <2>2. m.req \in Request /\ m.historyHash \in HistoryHash /\ m.seq \in Nat
    BY <2>1 DEF TypeOK, Message
  <2>3. history' \in [Server -> Seq(Request)]
    BY <1>2, <2>2 DEF HandleOrderReq, TypeOK
  <2>4. historyHashes' \in [Server -> Seq(HistoryHash)]
    BY <1>2, <2>2 DEF HandleOrderReq, TypeOK
  <2>5. nextSeq' \in [Server -> Nat]
    BY <1>2 DEF HandleOrderReq, TypeOK
  <2>6. tentativeCP' \in [Server -> [cp : CP, recv : SUBSET Server]]
    BY <1>2, <2>1, RequestCPType, CheckpointType DEF HandleOrderReq
  <2>7. msgs' \subseteq Message
    <3>1. SpecRes(s, m.seq, m.historyHash, m.req) \in Message
      BY <2>2 DEF SpecRes, Message
    <3>2. CheckpointMsgs(s, h, RequestCP(s, m)) \subseteq Message
      BY <2>1, RequestCPType, CheckpointType
    <3>3. msgs' = msgs \cup {SpecRes(s, m.seq, m.historyHash, m.req)}
                    \cup CheckpointMsgs(s, h, RequestCP(s, m))
      BY <1>2 DEF HandleOrderReq
    <3> QED
      BY <3>1, <3>2, <3>3 DEF TypeOK
  <2>8. executed' \in [Server -> Seq(Request)]
    BY <1>2, <2>2 DEF HandleOrderReq, TypeOK
  <2>9. handled' \in [Server -> SUBSET Message]
    BY <2>1, ReceiveType
  <2> QED
    BY <1>2, <2>3, <2>4, <2>5, <2>6, <2>7, <2>8, <2>9
       DEF HandleOrderReq, TypeOK
<1>3. ASSUME NEW s \in Server, NEW m \in msgs, CommitCheckpoint(s, m)
      PROVE  TypeOK'
  <2>1. PICK i \in Places(s, m) :
          /\ history' = [history EXCEPT ![s] = Truncated(@, i)]
          /\ historyHashes' = [historyHashes EXCEPT ![s] = Truncated(@, i)]
    BY <1>3 DEF CommitCheckpoint
  <2>2. i \in 1..Len(historyHashes[s])
    BY LenProperties DEF Places, TypeOK
  <2>3. Truncated(historyHashes[s], i) \in Seq(HistoryHash)
    BY <2>2, TruncatedType DEF TypeOK
  <2>4. Truncated(history[s], i) \in Seq(Request)
    <3>1. \A j \in (i + 1)..Len(history[s]) : history[s][j] \in Request
      BY <2>2, ElementOfSeq, LenProperties DEF TypeOK
    <3> QED
      BY <2>2, <3>1, SubSeqProperties, LenProperties DEF Truncated, TypeOK
  <2>5. handled' \in [Server -> SUBSET Message]
    BY <1>3, ReceiveType DEF CommitCheckpoint
  <2>6. /\ committedCP' \in [Server -> CP]
        /\ tentativeCP' \in [Server -> [cp : CP, recv : SUBSET Server]]
    BY <1>3 DEF CommitCheckpoint, TentativeCleared, TypeOK, NoCP, CP,
                HistoryHash
  <2> QED
    BY <1>3, <2>1, <2>3, <2>4, <2>5, <2>6 DEF CommitCheckpoint, TypeOK
<1>4. ASSUME NEW s \in Server, NEW m \in msgs, RecordVote(s, m)
      PROVE  TypeOK'
  <2>1. handled' \in [Server -> SUBSET Message]
    BY <1>4, ReceiveType DEF RecordVote
  <2>2. Votes(s, m) \subseteq Server
    BY <1>4 DEF RecordVote, Votes, TypeOK, Message
  <2>3. tentativeCP' \in [Server -> [cp : CP, recv : SUBSET Server]]
    BY <1>4, <2>2 DEF RecordVote, TypeOK
  <2> QED
    BY <1>4, <2>1, <2>3 DEF RecordVote, TypeOK
<1>5. ASSUME Refused
      PROVE  TypeOK'
  BY <1>5, ReceiveType DEF Refused, serverVars, TypeOK
<1> QED
  BY <1>1, <1>2, <1>3, <1>4, <1>5, StepCases

\* The state has its types in every behaviour of the servers.
THEOREM TypeCorrect == Spec => []TypeOK
<1>1. Init => TypeOK
  BY DEF Init, TypeOK, NoCP, CP, HistoryHash
<1> QED
  BY <1>1, TypeStep, PTL DEF Spec

-----------------------------------------------------------------------------
(***************************************************************************)
(* The inductive invariant                                                 *)
(***************************************************************************)

\* What the messages say of the primary's log: sequence numbers are places
\* in it, no place is ordered under two hashes, and every answer and every
\* checkpoint goes back to an order request.
LogInv ==
  /\ \A s \in Server : nextSeq[s] = Len(executed[s])
  /\ \A m \in msgs : m.type = "OrderReq" =>
       m.seq < nextSeq[Primary] /\ m.req = executed[Primary][m.seq + 1]
  /\ \A m1, m2 \in msgs :
       m1.type = "OrderReq" /\ m2.type = "OrderReq" /\ m1.seq = m2.seq
         => m1.historyHash = m2.historyHash
  /\ \A m \in msgs : m.type = "SpecRes" =>
       OrderReq(m.seq, m.historyHash, m.req) \in msgs
  /\ \A m \in msgs : m.type = "CP" =>
       \E o \in msgs : /\ o.type = "OrderReq"
                       /\ o.seq + 1 = m.cp.seq
                       /\ o.historyHash = m.cp.historyHash

\* Recorded votes were announced, and so were committed checkpoints.
VoteInv ==
  /\ \A s \in Server : \A q \in tentativeCP[s].recv :
       CPMsg(q, tentativeCP[s].cp) \in msgs
  /\ CommittedByQuorum

\* The window of a server that executed ex, committed the checkpoint with
\* sequence number c, and has history h, hashes hh and tentative checkpoint t.
\* Hashes that are n places apart differ by n requests (so no two are equal),
\* and the tentative checkpoint is as far from the committed one as its hash
\* is from the beginning.
Window(ex, c, h, hh, t) ==
  /\ Len(h) = Len(hh)
  /\ c + Len(h) = Len(ex)
  /\ \A i \in 1..Len(h) : h[i] = ex[c + i]
  /\ \A i, j \in 1..Len(hh) : Len(hh[j]) - Len(hh[i]) = j - i
  /\ t.seq # 0 => /\ t.seq - c \in 1..Len(hh)
                  /\ hh[t.seq - c] = t.historyHash

WindowInv ==
  \A s \in Server :
    Window(executed[s], committedCP[s].seq, history[s], historyHashes[s],
           tentativeCP[s].cp)

-----------------------------------------------------------------------------
(***************************************************************************)
(* What a step sends                                                       *)
(***************************************************************************)

\* The types of the messages tell them apart.
LEMMA MessageTypes ==
  /\ \A seq, hash, req : OrderReq(seq, hash, req).type = "OrderReq"
  /\ \A s, seq, hash, req : SpecRes(s, seq, hash, req).type = "SpecRes"
  /\ \A s, cp : CPMsg(s, cp).type = "CP" /\ CPMsg(s, cp).cp = cp
BY DEF OrderReq, SpecRes, CPMsg

\* The messages of processBatch: an order request and an answer for each
\* request, and at most one checkpoint message.
LEMMA BatchSends ==
  ASSUME TypeOK, NEW batch \in Batches, ProcessBatch(batch)
  PROVE  /\ msgs \subseteq msgs'
         /\ \A m \in msgs' : m.type = "OrderReq" =>
              m \in msgs \/ m \in BatchOrders(batch)
         /\ \A m \in msgs' : m.type = "SpecRes" =>
              \/ m \in msgs
              \/ \E o \in BatchOrders(batch) :
                   m = SpecRes(Primary, o.seq, o.historyHash, o.req)
         /\ \A m \in msgs' : m.type = "CP" =>
              m \in msgs \/ m = CPMsg(Primary, BatchCP(batch))
         /\ BatchOrders(batch) \subseteq msgs'
<1> DEFINE h == history[Primary] \o batch
           answers == {SpecRes(Primary, o.seq, o.historyHash, o.req) :
                         o \in BatchOrders(batch)}
           cps == CheckpointMsgs(Primary, h, BatchCP(batch))
<1>1. msgs' = msgs \cup BatchOrders(batch) \cup answers \cup cps
  BY DEF ProcessBatch
<1>2. \A m \in BatchOrders(batch) : m.type = "OrderReq"
  BY BatchOrdersType
<1>3. \A m \in answers : m.type = "SpecRes"
  BY MessageTypes
<1>4. \A m \in cps : m.type = "CP" /\ m = CPMsg(Primary, BatchCP(batch))
  BY MessageTypes DEF CheckpointMsgs
<1> QED
  BY <1>1, <1>2, <1>3, <1>4

\* The messages of handleOrderReq: one answer, and at most one checkpoint
\* message.
LEMMA RequestSends ==
  ASSUME NEW s \in Server, NEW m \in msgs, HandleOrderReq(s, m)
  PROVE  /\ msgs \subseteq msgs'
         /\ \A n \in msgs' : n.type = "OrderReq" => n \in msgs
         /\ \A n \in msgs' : n.type = "SpecRes" =>
              n \in msgs \/ n = SpecRes(s, m.seq, m.historyHash, m.req)
         /\ \A n \in msgs' : n.type = "CP" =>
              n \in msgs \/ n = CPMsg(s, RequestCP(s, m))
<1> DEFINE cps == CheckpointMsgs(s, Append(history[s], m.req),
                                 RequestCP(s, m))
<1>1. msgs' = msgs \cup {SpecRes(s, m.seq, m.historyHash, m.req)} \cup cps
  BY DEF HandleOrderReq
<1>2. \A n \in cps : n.type = "CP" /\ n = CPMsg(s, RequestCP(s, m))
  BY MessageTypes DEF CheckpointMsgs
<1> QED
  BY <1>1, <1>2, MessageTypes

-----------------------------------------------------------------------------
(***************************************************************************)
(* The log                                                                 *)
(***************************************************************************)

\* The order requests of a batch are for the places the batch gets.
LEMMA BatchOrderPlaces ==
  ASSUME TypeOK, NEW batch \in Batches, NEW m \in BatchOrders(batch)
  PROVE  /\ m.seq - nextSeq[Primary] + 1 \in 1..Len(batch)
         /\ m.req = batch[m.seq - nextSeq[Primary] + 1]
         /\ m.historyHash
              = BatchHashes(batch)[m.seq - nextSeq[Primary] + 1]
<1>1. PICK i \in 1..Len(batch) :
        m = OrderReq(nextSeq[Primary] + i - 1, BatchHashes(batch)[i],
                     batch[i])
  BY BatchOrdersType
<1>2. nextSeq[Primary] \in Nat
  BY ConstantsAssumption DEF TypeOK
<1>3. m.seq - nextSeq[Primary] + 1 = i
  BY <1>1, <1>2 DEF OrderReq
<1> QED
  BY <1>1, <1>3 DEF OrderReq

\* The last order request of a batch carries the hash of the checkpoint that
\* may follow it.
LEMMA BatchCPOrder ==
  ASSUME TypeOK, NEW batch \in Batches
  PROVE  \E o \in BatchOrders(batch) :
           /\ o.type = "OrderReq"
           /\ o.seq + 1 = BatchCP(batch).seq
           /\ o.historyHash = BatchCP(batch).historyHash
<1>1. Len(batch) \in Nat \ {0} /\ nextSeq[Primary] \in Nat
  BY BatchType, ConstantsAssumption DEF TypeOK
<1> DEFINE o == OrderReq(nextSeq[Primary] + Len(batch) - 1,
                         BatchHashes(batch)[Len(batch)], batch[Len(batch)])
<1>2. o \in BatchOrders(batch)
  BY <1>1 DEF BatchOrders
<1>3. o.seq + 1 = SeqAfter(batch)
  BY <1>1 DEF OrderReq, SeqAfter
<1>4. o.historyHash = Last(BatchHashes(batch))
  BY BatchHashesType DEF OrderReq
<1> QED
  BY <1>2, <1>3, <1>4 DEF OrderReq, BatchCP

\* Initially there are no messages, and nothing is numbered.
LEMMA LogInit == Init => LogInv
BY EmptySeq DEF Init, LogInv

\* Every step keeps the invariant of the log.
LEMMA LogStep == TypeOK /\ LogInv /\ [Next]_vars => LogInv'
<1> SUFFICES ASSUME TypeOK, LogInv, [Next]_vars
             PROVE  LogInv'
  OBVIOUS
<1> DEFINE Origin(m) ==
             \E o \in msgs' : /\ o.type = "OrderReq"
                              /\ o.seq + 1 = m.cp.seq
                              /\ o.historyHash = m.cp.historyHash
<1>1. ASSUME NEW batch \in Batches, ProcessBatch(batch)
      PROVE  LogInv'
  <2> DEFINE n == nextSeq[Primary]
  <2>1. /\ Primary \in Server
        /\ batch \in Seq(Request)
        /\ Len(batch) \in Nat \ {0}
        /\ n \in Nat
        /\ n = Len(executed[Primary])
    BY ConstantsAssumption, BatchType DEF TypeOK, LogInv
  <2>2. /\ nextSeq' = [nextSeq EXCEPT ![Primary] = n + Len(batch)]
        /\ executed' = [executed EXCEPT ![Primary] = @ \o batch]
    BY <1>1 DEF ProcessBatch, SeqAfter
  <2>3. /\ Len(executed'[Primary]) = n + Len(batch)
        /\ \A i \in 1..(n + Len(batch)) :
             executed'[Primary][i]
               = IF i <= n THEN executed[Primary][i] ELSE batch[i - n]
    BY <2>1, <2>2, ConcatProperties DEF TypeOK
  <2>4. \A s \in Server : nextSeq'[s] = Len(executed'[s])
    BY <2>1, <2>2, <2>3 DEF TypeOK, LogInv
  <2>5. ASSUME NEW m \in msgs', m.type = "OrderReq"
        PROVE  m.seq < nextSeq'[Primary] /\ m.req = executed'[Primary][m.seq + 1]
    <3>1. nextSeq'[Primary] = n + Len(batch)
      BY <2>1, <2>2 DEF TypeOK
    <3>2. CASE m \in msgs
      <4>1. m.seq \in Nat /\ m.seq < n /\ m.req = executed[Primary][m.seq + 1]
        BY <2>5, <3>2 DEF LogInv, TypeOK, Message
      <4>2. m.seq + 1 \in 1..(n + Len(batch)) /\ m.seq + 1 <= n
        BY <2>1, <4>1
      <4> QED
        BY <2>1, <2>3, <3>1, <4>1, <4>2
    <3>3. CASE m \in BatchOrders(batch)
      <4>1. m.seq \in Nat
        BY <2>5, <3>3, BatchOrdersType DEF Message
      <4>2. /\ m.seq + 1 - n \in 1..Len(batch)
            /\ m.req = batch[m.seq + 1 - n]
        <5>1. m.seq + 1 - n = m.seq - n + 1
          BY <2>1, <4>1
        <5> QED
          BY <3>3, <5>1, BatchOrderPlaces
      <4>3. /\ m.seq + 1 \in 1..(n + Len(batch))
            /\ ~(m.seq + 1 <= n)
        BY <2>1, <4>1, <4>2
      <4> QED
        BY <2>1, <2>3, <3>1, <4>1, <4>2, <4>3
    <3> QED
      BY <1>1, <2>5, <3>2, <3>3, BatchSends
  <2>6. ASSUME NEW m1 \in msgs', NEW m2 \in msgs', m1.type = "OrderReq",
               m2.type = "OrderReq", m1.seq = m2.seq
        PROVE  m1.historyHash = m2.historyHash
    <3>1. \A m \in msgs : m.type = "OrderReq" => m.seq \in Nat /\ m.seq < n
      BY DEF LogInv, TypeOK, Message
    <3>2. \A m \in BatchOrders(batch) : m.seq \in Nat /\ m.seq >= n
      <4>1. \A m \in BatchOrders(batch) : m.seq \in Nat
        BY BatchOrdersType DEF Message
      <4> QED
        BY <2>1, <4>1, BatchOrderPlaces
    <3>3. CASE m1 \in msgs /\ m2 \in msgs
      BY <2>6, <3>3 DEF LogInv
    <3>4. CASE m1 \in BatchOrders(batch) /\ m2 \in BatchOrders(batch)
      BY <2>6, <3>4, BatchOrderPlaces
    <3> QED
      BY <1>1, <2>1, <2>6, <3>1, <3>2, <3>3, <3>4, BatchSends
  <2>7. ASSUME NEW m \in msgs', m.type = "SpecRes"
        PROVE  OrderReq(m.seq, m.historyHash, m.req) \in msgs'
    <3>1. CASE m \in msgs
      BY <1>1, <2>7, <3>1, BatchSends DEF LogInv
    <3>2. ASSUME NEW o \in BatchOrders(batch),
                 m = SpecRes(Primary, o.seq, o.historyHash, o.req)
          PROVE  OrderReq(m.seq, m.historyHash, m.req) \in msgs'
      <4>1. OrderReq(o.seq, o.historyHash, o.req) = o
        BY BatchOrdersType DEF OrderReq
      <4> QED
        BY <1>1, <3>2, <4>1, BatchSends DEF SpecRes
    <3> QED
      BY <1>1, <2>7, <3>1, <3>2, BatchSends
  <2>8. ASSUME NEW m \in msgs', m.type = "CP"
        PROVE  Origin(m)
    <3>1. CASE m \in msgs
      BY <1>1, <2>8, <3>1, BatchSends DEF LogInv
    <3>2. CASE m = CPMsg(Primary, BatchCP(batch))
      BY <1>1, <3>2, BatchSends, BatchCPOrder, MessageTypes
    <3> QED
      BY <1>1, <2>8, <3>1, <3>2, BatchSends
  <2> QED
    BY <2>4, <2>5, <2>6, <2>7, <2>8 DEF LogInv
<1>2. ASSUME NEW s \in Server, NEW m \in msgs, HandleOrderReq(s, m)
      PROVE  LogInv'
  <2>1. /\ m.type = "OrderReq"
        /\ m.seq = nextSeq[s]
        /\ m.req \in Request
        /\ nextSeq' = [nextSeq EXCEPT ![s] = @ + 1]
        /\ executed' = [executed EXCEPT ![s] = Append(@, m.req)]
    BY <1>2 DEF HandleOrderReq, Acceptable, TypeOK, Message
  <2>2. s # Primary
    BY <2>1 DEF LogInv, TypeOK
  <2>3. \A q \in Server : nextSeq'[q] = Len(executed'[q])
    <3>1. Len(Append(executed[s], m.req)) = Len(executed[s]) + 1
      BY <2>1, AppendProperties DEF TypeOK
    <3> QED
      BY <2>1, <3>1 DEF LogInv, TypeOK
  <2>4. /\ nextSeq'[Primary] = nextSeq[Primary]
        /\ executed'[Primary] = executed[Primary]
    BY <2>1, <2>2, ConstantsAssumption DEF TypeOK
  <2>5. ASSUME NEW n \in msgs', n.type = "SpecRes"
        PROVE  OrderReq(n.seq, n.historyHash, n.req) \in msgs'
    <3>1. CASE n \in msgs
      BY <1>2, <2>5, <3>1, RequestSends DEF LogInv
    <3>2. CASE n = SpecRes(s, m.seq, m.historyHash, m.req)
      <4>1. OrderReq(m.seq, m.historyHash, m.req) = m
        BY <2>1 DEF TypeOK, Message, OrderReq
      <4> QED
        BY <1>2, <3>2, <4>1, RequestSends DEF SpecRes
    <3> QED
      BY <1>2, <2>5, <3>1, <3>2, RequestSends
  <2>6. ASSUME NEW n \in msgs', n.type = "CP"
        PROVE  Origin(n)
    <3>1. CASE n \in msgs
      BY <1>2, <2>6, <3>1, RequestSends DEF LogInv
    <3>2. CASE n = CPMsg(s, RequestCP(s, m))
      BY <1>2, <2>1, <3>2, RequestSends, MessageTypes DEF RequestCP
    <3> QED
      BY <1>2, <2>6, <3>1, <3>2, RequestSends
  <2>7. \A m1, m2 \in msgs' :
          m1.type = "OrderReq" /\ m2.type = "OrderReq" /\ m1.seq = m2.seq
            => m1.historyHash = m2.historyHash
    BY <1>2, RequestSends DEF LogInv
  <2>8. \A n \in msgs' : n.type = "OrderReq" =>
          n.seq < nextSeq'[Primary] /\ n.req = executed'[Primary][n.seq + 1]
    BY <1>2, <2>4, RequestSends DEF LogInv
  <2> QED
    BY <2>3, <2>5, <2>6, <2>7, <2>8 DEF LogInv
<1>3. ASSUME UNCHANGED <<nextSeq, msgs, executed>>
      PROVE  LogInv'
  BY <1>3 DEF LogInv
<1> QED
  BY <1>1, <1>2, <1>3, StepCases
     DEF CommitCheckpoint, RecordVote, Refused, serverVars

\* The invariant of the log holds in every behaviour.
LEMMA LogCorrect == Spec => [](TypeOK /\ LogInv)
<1>1. Init => LogInv
  BY LogInit
<1>2. TypeOK /\ LogInv /\ [Next]_vars => LogInv'
  BY LogStep
<1> QED
  BY <1>1, <1>2, TypeCorrect, PTL DEF Spec

\* No two speculative responses disagree about a sequence number.
THEOREM SpeculativeAgreementCorrect == Spec => []SpeculativeAgreement
<1>1. TypeOK /\ LogInv => SpeculativeAgreement
  <2> SUFFICES ASSUME TypeOK, LogInv, NEW m1 \in msgs, NEW m2 \in msgs,
                      m1.type = "SpecRes", m2.type = "SpecRes",
                      m1.seq = m2.seq
               PROVE  m1.req = m2.req /\ m1.historyHash = m2.historyHash
    BY DEF SpeculativeAgreement
  <2> DEFINE o1 == OrderReq(m1.seq, m1.historyHash, m1.req)
             o2 == OrderReq(m2.seq, m2.historyHash, m2.req)
  <2>1. o1 \in msgs /\ o2 \in msgs
    BY DEF LogInv
  <2>2. /\ o1.type = "OrderReq" /\ o1.seq = m1.seq /\ o1.req = m1.req
        /\ o1.historyHash = m1.historyHash
        /\ o2.type = "OrderReq" /\ o2.seq = m2.seq /\ o2.req = m2.req
        /\ o2.historyHash = m2.historyHash
    BY DEF OrderReq
  <2>3. o1.req = o2.req
    BY <2>1, <2>2 DEF LogInv
  <2> QED
    BY <2>1, <2>2, <2>3 DEF LogInv
<1> QED
  BY <1>1, LogCorrect, PTL

\* No two checkpoints announced for a sequence number differ.
THEOREM CheckpointAgreementCorrect == Spec => []CheckpointAgreement
<1>1. TypeOK /\ LogInv => CheckpointAgreement
  <2> SUFFICES ASSUME TypeOK, LogInv, NEW m1 \in msgs, NEW m2 \in msgs,
                      m1.type = "CP", m2.type = "CP", m1.cp.seq = m2.cp.seq
               PROVE  m1.cp = m2.cp
    BY DEF CheckpointAgreement
  <2>1. PICK o1 \in msgs : /\ o1.type = "OrderReq"
                           /\ o1.seq + 1 = m1.cp.seq
                           /\ o1.historyHash = m1.cp.historyHash
    BY DEF LogInv
  <2>2. PICK o2 \in msgs : /\ o2.type = "OrderReq"
                           /\ o2.seq + 1 = m2.cp.seq
                           /\ o2.historyHash = m2.cp.historyHash
    BY DEF LogInv
  <2>3. o1.seq = o2.seq
    <3>1. o1.seq \in Nat /\ o2.seq \in Nat
      BY <2>1, <2>2 DEF TypeOK, Message
    <3> QED
      BY <2>1, <2>2, <3>1
  <2>4. m1.cp.historyHash = m2.cp.historyHash
    BY <2>1, <2>2, <2>3 DEF LogInv
  <2>5. m1.cp \in CP /\ m2.cp \in CP
    BY DEF TypeOK, Message
  <2> QED
    BY <2>4, <2>5 DEF CP
<1> QED
  BY <1>1, LogCorrect, PTL

-----------------------------------------------------------------------------
(***************************************************************************)
(* The servers implement the ledger                                        *)
(***************************************************************************)

\* processBatch is the ledger's Order step: the log grows by the batch.
LEMMA BatchOrdersLedger ==
  ASSUME TypeOK, NEW batch \in Batches, ProcessBatch(batch)
  PROVE  L!Order
<1> DEFINE log == executed[Primary]
           gain == SubSeq(log', Len(log) + 1, Len(log'))
<1>1. /\ Primary \in Server
      /\ batch \in Seq(Request)
      /\ log \in Seq(Request)
      /\ executed \in [Server -> Seq(Request)]
  BY ConstantsAssumption, BatchType DEF TypeOK
<1>2. executed' = [executed EXCEPT ![Primary] = log \o batch]
  BY DEF ProcessBatch
<1>3. log' = log \o batch
  BY <1>1, <1>2
<1>4. gain = batch
  BY <1>1, <1>3, ConcatGain
<1>5. L!Log!FreshBatch(batch, log)
  BY DEF ProcessBatch, Log!FreshBatch, Log!NoRepeats, Log!Elements,
         L!Log!FreshBatch, L!Log!NoRepeats, L!Log!Elements
<1>6. L!Log!Order
  BY <1>3, <1>4, <1>5 DEF L!Log!Order
<1> QED
  BY <1>1, <1>2, <1>3, <1>6 DEF L!Order

\* handleOrderReq is the ledger's Execute step: the hash and sequence number
\* checks let through only the next entry of the log.
LEMMA RequestExecutesLedger ==
  ASSUME TypeOK, LogInv, NEW s \in Server, NEW m \in msgs,
         HandleOrderReq(s, m)
  PROVE  L!Execute(s)
<1>1. /\ m.type = "OrderReq"
      /\ m.seq = nextSeq[s]
      /\ m.seq \in Nat
      /\ executed' = [executed EXCEPT ![s] = Append(@, m.req)]
  BY DEF HandleOrderReq, Acceptable, TypeOK
<1>2. /\ m.seq = Len(executed[s])
      /\ m.seq < Len(executed[Primary])
      /\ m.req = executed[Primary][Len(executed[s]) + 1]
  BY <1>1, ConstantsAssumption DEF LogInv
<1>3. s # Primary
  BY <1>1, <1>2
<1> QED
  BY <1>1, <1>2, <1>3 DEF L!Execute

\* Every server executes a prefix of the primary's log.
THEOREM LedgerImplemented == Spec => ImplementsLedger
<1>1. Init => L!Init
  BY DEF Init, L!Init
<1>2. TypeOK /\ LogInv /\ [Next]_vars => [L!Next]_executed
  <2> SUFFICES ASSUME TypeOK, LogInv, [Next]_vars
               PROVE  L!Next \/ UNCHANGED executed
    OBVIOUS
  <2>1. ASSUME NEW batch \in Batches, ProcessBatch(batch)
        PROVE  L!Next
    BY <2>1, BatchOrdersLedger DEF L!Next
  <2>2. ASSUME NEW s \in Server, NEW m \in msgs, HandleOrderReq(s, m)
        PROVE  L!Next
    BY <2>2, RequestExecutesLedger DEF L!Next
  <2> QED
    BY <2>1, <2>2, StepCases DEF CommitCheckpoint, RecordVote, Refused
<1> QED
  BY <1>1, <1>2, LogCorrect, PTL DEF Spec, ImplementsLedger, L!Spec

-----------------------------------------------------------------------------
(***************************************************************************)
(* Votes                                                                   *)
(***************************************************************************)

\* A checkpoint message is its sender and its checkpoint.
LEMMA CPMsgParts ==
  ASSUME TypeOK, NEW m \in msgs, m.type = "CP"
  PROVE  m.sId \in Server /\ m.cp \in CP /\ m = CPMsg(m.sId, m.cp)
BY DEF TypeOK, Message, CPMsg

\* Creating a checkpoint discards the votes for the one before it.
LEMMA CheckpointVotes ==
  ASSUME TypeOK, NEW s \in Server, NEW h, NEW cp \in CP,
         tentativeCP' = TentativeAfter(s, h, cp),
         UNCHANGED committedCP, msgs \subseteq msgs', VoteInv
  PROVE  VoteInv'
<1>1. \A r \in Server : tentativeCP'[r].recv = {}
                        \/ tentativeCP'[r] = tentativeCP[r]
  BY DEF TentativeAfter, TypeOK
<1>2. ASSUME NEW r \in Server, NEW q \in tentativeCP'[r].recv
      PROVE  CPMsg(q, tentativeCP'[r].cp) \in msgs'
  BY <1>1, <1>2 DEF VoteInv
<1>3. CommittedByQuorum'
  BY DEF VoteInv, CommittedByQuorum
<1> QED
  BY <1>2, <1>3 DEF VoteInv

\* Initially there are no votes and no checkpoints.
LEMMA VoteInit == Init => VoteInv
BY DEF Init, VoteInv, CommittedByQuorum, NoCP

\* Every step keeps the invariant of the votes.
LEMMA VoteStep == TypeOK /\ VoteInv /\ [Next]_vars => VoteInv'
<1> SUFFICES ASSUME TypeOK, VoteInv, [Next]_vars
             PROVE  VoteInv'
  OBVIOUS
<1>1. ASSUME NEW batch \in Batches, ProcessBatch(batch)
      PROVE  VoteInv'
  <2>1. Primary \in Server /\ BatchCP(batch) \in CP
    BY ConstantsAssumption, BatchCPType
  <2>2. msgs \subseteq msgs'
    BY <1>1, BatchSends
  <2> QED
    BY <1>1, <2>1, <2>2, CheckpointVotes DEF ProcessBatch
<1>2. ASSUME NEW s \in Server, NEW m \in msgs, HandleOrderReq(s, m)
      PROVE  VoteInv'
  <2>1. m.type = "OrderReq" /\ RequestCP(s, m) \in CP
    BY <1>2, RequestCPType DEF HandleOrderReq
  <2>2. msgs \subseteq msgs'
    BY <1>2, RequestSends
  <2> QED
    BY <1>2, <2>1, <2>2, CheckpointVotes DEF HandleOrderReq
<1>3. ASSUME NEW s \in Server, NEW m \in msgs, CommitCheckpoint(s, m)
      PROVE  VoteInv'
  <2>1. /\ m.type = "CP"
        /\ m.cp = tentativeCP[s].cp
        /\ Cardinality(Votes(s, m)) >= F + 1
        /\ committedCP' = [committedCP EXCEPT ![s] = tentativeCP[s].cp]
        /\ tentativeCP'
             = [tentativeCP EXCEPT ![s] = [cp |-> NoCP, recv |-> {}]]
        /\ msgs' = msgs
    BY <1>3 DEF CommitCheckpoint, MatchesTentative, TentativeCleared
  <2>2. /\ Votes(s, m) \subseteq Server
        /\ \A q \in Votes(s, m) : CPMsg(q, tentativeCP[s].cp) \in msgs
    BY <2>1, CPMsgParts DEF Votes, VoteInv, TypeOK
  <2>3. CommittedByQuorum'
    <3> SUFFICES ASSUME NEW r \in Server, committedCP'[r].seq # 0
                 PROVE  \E Q \in SUBSET Server :
                          /\ Cardinality(Q) >= F + 1
                          /\ \A q \in Q : CPMsg(q, committedCP'[r]) \in msgs'
      BY DEF CommittedByQuorum
    <3>1. CASE r = s
      BY <2>1, <2>2, <3>1 DEF TypeOK
    <3>2. CASE r # s
      BY <2>1, <3>2 DEF VoteInv, CommittedByQuorum, TypeOK
    <3> QED
      BY <3>1, <3>2
  <2>4. \A r \in Server : \A q \in tentativeCP'[r].recv :
          CPMsg(q, tentativeCP'[r].cp) \in msgs'
    BY <2>1 DEF VoteInv, TypeOK
  <2> QED
    BY <2>3, <2>4 DEF VoteInv
<1>4. ASSUME NEW s \in Server, NEW m \in msgs, RecordVote(s, m)
      PROVE  VoteInv'
  <2>1. /\ m.type = "CP"
        /\ m.cp = tentativeCP[s].cp
        /\ tentativeCP' =
             [tentativeCP EXCEPT ![s] = [cp |-> @.cp, recv |-> Votes(s, m)]]
        /\ UNCHANGED <<committedCP, msgs>>
    BY <1>4 DEF RecordVote, MatchesTentative
  <2>2. \A q \in Votes(s, m) : CPMsg(q, tentativeCP[s].cp) \in msgs
    BY <2>1, CPMsgParts DEF Votes, VoteInv
  <2>3. \A r \in Server : \A q \in tentativeCP'[r].recv :
          CPMsg(q, tentativeCP'[r].cp) \in msgs'
    BY <2>1, <2>2 DEF VoteInv, TypeOK
  <2> QED
    BY <2>1, <2>3 DEF VoteInv, CommittedByQuorum
<1>5. ASSUME Refused
      PROVE  VoteInv'
  BY <1>5 DEF Refused, serverVars, VoteInv, CommittedByQuorum
<1> QED
  BY <1>1, <1>2, <1>3, <1>4, <1>5, StepCases

\* F+1 servers stand behind every committed checkpoint.
THEOREM CommittedByQuorumCorrect == Spec => []CommittedByQuorum
<1>1. Init => VoteInv
  BY VoteInit
<1>2. TypeOK /\ VoteInv /\ [Next]_vars => VoteInv'
  BY VoteStep
<1>3. VoteInv => CommittedByQuorum
  BY DEF VoteInv
<1> QED
  BY <1>1, <1>2, <1>3, TypeCorrect, PTL DEF Spec

-----------------------------------------------------------------------------
(***************************************************************************)
(* Histories                                                               *)
(***************************************************************************)

\* Requests b with hashes g, which continue the last hash there is, are added
\* to a window: the tentative checkpoint may stay or be taken anew.
LEMMA WindowExtended ==
  ASSUME NEW ex \in Seq(Request), NEW c \in Nat,
         NEW h \in Seq(Request), NEW hh \in Seq(HistoryHash), NEW t \in CP,
         Window(ex, c, h, hh, t),
         NEW b \in Seq(Request), NEW g \in Seq(HistoryHash),
         Len(g) = Len(b), Len(b) # 0,
         NEW base \in Nat,
         hh # <<>> => Len(Last(hh)) = base,
         \A j \in 1..Len(g) : Len(g[j]) = base + j
  PROVE  /\ Window(ex \o b, c, h \o b, hh \o g, t)
         /\ \A new \in CP :
              new.seq = Len(ex) + Len(b) /\ new.historyHash = Last(g)
                => Window(ex \o b, c, h \o b, hh \o g, new)
<1> DEFINE lh == Len(h)
           lb == Len(b)
           le == Len(ex)
<1>1. /\ le \in Nat /\ lh \in Nat /\ lb \in Nat \ {0}
      /\ Len(hh) = lh
      /\ Len(g) = lb
      /\ c + lh = le
  BY LenProperties DEF Window
<1>2. /\ Len(ex \o b) = le + lb
      /\ Len(h \o b) = lh + lb
      /\ Len(hh \o g) = lh + lb
  <2>1. Len(ex \o b) = Len(ex) + Len(b)
    BY ConcatParts
  <2>2. Len(h \o b) = Len(h) + Len(b)
    BY ConcatParts
  <2>3. Len(hh \o g) = Len(hh) + Len(g)
    BY ConcatParts
  <2> QED
    BY <1>1, <2>1, <2>2, <2>3
<1>3. /\ \A i \in 1..lh : (h \o b)[i] = h[i]
      /\ \A i \in 1..lh : (hh \o g)[i] = hh[i]
      /\ \A i \in 1..le : (ex \o b)[i] = ex[i]
  BY <1>1, ConcatParts
<1>4. /\ \A j \in 1..lb : (h \o b)[lh + j] = b[j]
      /\ \A j \in 1..lb : (hh \o g)[lh + j] = g[j]
      /\ \A j \in 1..lb : (ex \o b)[le + j] = b[j]
  BY <1>1, ConcatParts
<1> HIDE DEF lh, lb, le
<1>5. c + Len(h \o b) = Len(ex \o b) /\ Len(h \o b) = Len(hh \o g)
  BY <1>1, <1>2
<1>6. \A i \in 1..(lh + lb) : i \in 1..lh \/ \E j \in 1..lb : i = lh + j
  <2> SUFFICES ASSUME NEW i \in 1..(lh + lb), ~(i \in 1..lh)
               PROVE  \E j \in 1..lb : i = lh + j
    OBVIOUS
  <2>1. i - lh \in 1..lb /\ i = lh + (i - lh)
    BY <1>1
  <2> QED
    BY <2>1
<1>7. ASSUME NEW i \in 1..Len(h \o b)
      PROVE  (h \o b)[i] = (ex \o b)[c + i]
  <2>1. CASE i \in 1..lh
    <3>1. c + i \in 1..le
      BY <1>1, <2>1
    <3>2. h[i] = ex[c + i]
      BY <2>1 DEF Window, lh
    <3> QED
      BY <1>3, <2>1, <3>1, <3>2
  <2>2. ASSUME NEW j \in 1..lb, i = lh + j
        PROVE  (h \o b)[i] = (ex \o b)[c + i]
    <3>1. c + i = le + j
      BY <1>1, <2>2
    <3> QED
      BY <1>4, <2>2, <3>1
  <2> QED
    BY <1>2, <1>6, <2>1, <2>2
<1>8. ASSUME NEW k \in 1..(lh + lb)
      PROVE  Len((hh \o g)[k]) = base + k - lh
  <2>1. CASE k \in 1..lh
    <3>1. Len(hh[k]) \in Nat
      BY <1>1, <2>1, ElementOfSeq, LenProperties DEF HistoryHash
    <3>2. Len(hh[lh]) = base
      BY <1>1, <2>1 DEF Last
    <3>3. Len(hh[lh]) - Len(hh[k]) = lh - k
      BY <1>1, <2>1 DEF Window
    <3>4. Len(hh[k]) = base + k - lh
      BY <1>1, <2>1, <3>1, <3>2, <3>3
    <3> QED
      BY <1>3, <2>1, <3>4
  <2>2. ASSUME NEW j \in 1..lb, k = lh + j
        PROVE  Len((hh \o g)[k]) = base + k - lh
    <3>1. (hh \o g)[k] = g[j]
      BY <1>4, <2>2
    <3>2. Len(g[j]) = base + j
      BY <1>1
    <3> QED
      BY <1>1, <2>2, <3>1, <3>2
  <2> QED
    BY <1>6, <2>1, <2>2
<1>9. ASSUME NEW i \in 1..Len(hh \o g), NEW j \in 1..Len(hh \o g)
      PROVE  Len((hh \o g)[j]) - Len((hh \o g)[i]) = j - i
  <2>1. i \in 1..(lh + lb) /\ j \in 1..(lh + lb)
    BY <1>2
  <2>2. /\ Len((hh \o g)[i]) = base + i - lh
        /\ Len((hh \o g)[j]) = base + j - lh
    BY <1>8, <2>1
  <2> QED
    BY <1>1, <2>1, <2>2
<1>10. ASSUME t.seq # 0
       PROVE  /\ t.seq - c \in 1..Len(hh \o g)
              /\ (hh \o g)[t.seq - c] = t.historyHash
  <2>1. t.seq - c \in 1..lh /\ hh[t.seq - c] = t.historyHash
    BY <1>1, <1>10 DEF Window
  <2>2. t.seq - c \in 1..(lh + lb)
    BY <1>1, <2>1
  <2> QED
    BY <1>2, <1>3, <2>1, <2>2
<1>11. ASSUME NEW new \in CP, new.seq = Len(ex) + Len(b),
              new.historyHash = Last(g)
       PROVE  /\ new.seq - c \in 1..Len(hh \o g)
              /\ (hh \o g)[new.seq - c] = new.historyHash
  <2>1. new.seq = le + lb
    BY <1>11 DEF le, lb
  <2>2. new.seq - c = lh + lb
    BY <1>1, <2>1
  <2>3. new.historyHash = g[lb]
    BY <1>1, <1>11 DEF Last
  <2>4. lb \in 1..lb /\ lh + lb \in 1..(lh + lb)
    BY <1>1
  <2> QED
    BY <1>2, <1>4, <2>2, <2>3, <2>4
<1> QED
  BY <1>5, <1>7, <1>9, <1>10, <1>11 DEF Window

\* The hashes up to the place of the tentative checkpoint are dropped, and it
\* becomes the committed one.
LEMMA WindowTruncated ==
  ASSUME NEW ex \in Seq(Request), NEW c \in Nat,
         NEW h \in Seq(Request), NEW hh \in Seq(HistoryHash), NEW t \in CP,
         Window(ex, c, h, hh, t), t.seq # 0,
         NEW i \in 1..Len(hh), hh[i] = t.historyHash
  PROVE  /\ i = t.seq - c
         /\ Window(ex, t.seq, Truncated(h, i), Truncated(hh, i), NoCP)
<1> DEFINE lh == Len(h)
           place == t.seq - c
<1>1. /\ lh \in Nat /\ Len(ex) \in Nat
      /\ Len(hh) = lh
      /\ c + lh = Len(ex)
      /\ t.seq \in Nat
  BY LenProperties DEF Window, CP
<1>2. place \in 1..lh /\ hh[place] = t.historyHash
  BY <1>1 DEF Window
<1>3. i = place
  <2>1. Len(hh[place]) - Len(hh[i]) = place - i
    BY <1>1, <1>2 DEF Window
  <2>2. Len(hh[i]) \in Nat
    BY ElementOfSeq, LenProperties DEF HistoryHash
  <2>3. Len(hh[place]) - Len(hh[i]) = 0
    BY <1>2, <2>2
  <2>4. place \in Int /\ i \in Int
    BY <1>1
  <2> HIDE DEF place
  <2> QED
    BY <2>1, <2>3, <2>4
<1>4. /\ Len(Truncated(h, i)) = lh - i
      /\ \A j \in 1..(lh - i) : Truncated(h, i)[j] = h[i + j]
  <2>1. i \in 1..Len(h)
    BY <1>1
  <2> QED
    BY <2>1, TruncatedType
<1>5. /\ Len(Truncated(hh, i)) = lh - i
      /\ \A j \in 1..(lh - i) : Truncated(hh, i)[j] = hh[i + j]
  BY <1>1, TruncatedType
<1> HIDE DEF lh
<1>6. t.seq + (lh - i) = Len(ex)
  BY <1>1, <1>3
<1>7. ASSUME NEW j \in 1..(lh - i)
      PROVE  Truncated(h, i)[j] = ex[t.seq + j]
  <2>1. i + j \in 1..lh
    BY <1>1
  <2>2. c + (i + j) = t.seq + j
    <3>1. j \in Int /\ i \in Int /\ c \in Int /\ t.seq \in Int
      BY <1>1
    <3>2. i = t.seq - c
      BY <1>3
    <3> QED
      BY <3>1, <3>2
  <2>3. h[i + j] = ex[c + (i + j)]
    BY <2>1 DEF Window, lh
  <2> QED
    BY <1>4, <2>2, <2>3
<1>8. ASSUME NEW j \in 1..(lh - i), NEW k \in 1..(lh - i)
      PROVE  Len(Truncated(hh, i)[k]) - Len(Truncated(hh, i)[j]) = k - j
  <2>1. i + j \in 1..lh /\ i + k \in 1..lh /\ (i + k) - (i + j) = k - j
    BY <1>1
  <2>2. Len(hh[i + k]) - Len(hh[i + j]) = (i + k) - (i + j)
    BY <1>1, <2>1 DEF Window
  <2> QED
    BY <1>5, <2>1, <2>2
<1>9. NoCP.seq = 0
  BY DEF NoCP
<1> QED
  BY <1>3, <1>4, <1>5, <1>6, <1>7, <1>8, <1>9 DEF Window

\* Initially the windows are empty.
LEMMA WindowInit == Init => WindowInv
BY EmptySeq DEF Init, WindowInv, Window, NoCP

\* Every step keeps the invariant of the histories.
LEMMA WindowStep ==
  TypeOK /\ LogInv /\ WindowInv /\ [Next]_vars => WindowInv'
<1> SUFFICES ASSUME TypeOK, LogInv, WindowInv, [Next]_vars,
                    NEW r \in Server
             PROVE  Window(executed[r], committedCP[r].seq, history[r],
                           historyHashes[r], tentativeCP[r].cp)'
  BY DEF WindowInv
<1>1. /\ executed[r] \in Seq(Request)
      /\ committedCP[r].seq \in Nat
      /\ history[r] \in Seq(Request)
      /\ historyHashes[r] \in Seq(HistoryHash)
      /\ tentativeCP[r].cp \in CP
      /\ Window(executed[r], committedCP[r].seq, history[r],
                historyHashes[r], tentativeCP[r].cp)
      /\ nextSeq[r] = Len(executed[r])
  BY DEF TypeOK, LogInv, WindowInv, CP
<1>2. ASSUME UNCHANGED <<executed[r], committedCP[r], history[r],
                         historyHashes[r], tentativeCP[r].cp>>
      PROVE  Window(executed[r], committedCP[r].seq, history[r],
                    historyHashes[r], tentativeCP[r].cp)'
  BY <1>1, <1>2
<1>3. ASSUME NEW batch \in Batches, ProcessBatch(batch), r = Primary
      PROVE  Window(executed[r], committedCP[r].seq, history[r],
                    historyHashes[r], tentativeCP[r].cp)'
  <2> DEFINE g == BatchHashes(batch)
  <2>1. /\ batch \in Seq(Request) /\ Len(batch) # 0
        /\ g \in Seq(HistoryHash)
        /\ Len(g) = Len(batch)
        /\ Len(PrimaryHash) \in Nat
        /\ \A j \in 1..Len(g) : Len(g[j]) = Len(PrimaryHash) + j
    BY BatchType, BatchHashesType, PrimaryHashType, LenProperties
       DEF HistoryHash
  <2>2. historyHashes[r] # <<>> =>
          Len(Last(historyHashes[r])) = Len(PrimaryHash)
    BY <1>3 DEF PrimaryHash
  <2>3. /\ executed'[r] = executed[r] \o batch
        /\ history'[r] = history[r] \o batch
        /\ historyHashes'[r] = historyHashes[r] \o g
        /\ committedCP' = committedCP
    BY <1>3 DEF ProcessBatch, TypeOK
  <2>4. \/ tentativeCP'[r].cp = tentativeCP[r].cp
        \/ tentativeCP'[r].cp = BatchCP(batch)
    BY <1>3 DEF ProcessBatch, TentativeAfter, TypeOK
  <2>5. /\ BatchCP(batch) \in CP
        /\ BatchCP(batch).seq = Len(executed[r]) + Len(batch)
        /\ BatchCP(batch).historyHash = Last(g)
    BY <1>1, <1>3, BatchCPType DEF BatchCP, SeqAfter
  <2> HIDE DEF g
  <2>6. /\ Window(executed[r] \o batch, committedCP[r].seq,
                  history[r] \o batch, historyHashes[r] \o g,
                  tentativeCP[r].cp)
        /\ Window(executed[r] \o batch, committedCP[r].seq,
                  history[r] \o batch, historyHashes[r] \o g,
                  BatchCP(batch))
    BY <1>1, <2>1, <2>2, <2>5, WindowExtended
  <2> QED
    BY <2>3, <2>4, <2>6
<1>4. ASSUME NEW m \in msgs, HandleOrderReq(r, m)
      PROVE  Window(executed[r], committedCP[r].seq, history[r],
                    historyHashes[r], tentativeCP[r].cp)'
  <2> DEFINE b == <<m.req>>
             g == <<m.historyHash>>
             base == Len(ReplicaHash(r))
  <2>1. /\ m.type = "OrderReq" /\ m.req \in Request
        /\ m.historyHash \in HistoryHash
        /\ m.historyHash = Append(ReplicaHash(r), m.req)
    BY <1>4 DEF HandleOrderReq, Acceptable, TypeOK, Message
  <2>2. base \in Nat /\ Len(m.historyHash) = base + 1
    BY <2>1, ReplicaHashType, AppendProperties, LenProperties DEF HistoryHash
  <2>3. /\ b \in Seq(Request) /\ Len(b) = 1
        /\ g \in Seq(HistoryHash) /\ Len(g) = 1
        /\ g[1] = m.historyHash
    BY <2>1
  <2>4. historyHashes[r] # <<>> => Len(Last(historyHashes[r])) = base
    BY DEF ReplicaHash
  <2>5. /\ executed'[r] = executed[r] \o b
        /\ history'[r] = history[r] \o b
        /\ historyHashes'[r] = historyHashes[r] \o g
        /\ committedCP' = committedCP
    <3>1. /\ executed'[r] = Append(executed[r], m.req)
          /\ history'[r] = Append(history[r], m.req)
          /\ historyHashes'[r] = Append(historyHashes[r], m.historyHash)
          /\ committedCP' = committedCP
      BY <1>4 DEF HandleOrderReq, TypeOK
    <3>2. Append(executed[r], m.req) = executed[r] \o b
      BY <1>1, <2>1, AppendIsConcat
    <3>3. Append(history[r], m.req) = history[r] \o b
      BY <1>1, <2>1, AppendIsConcat
    <3>4. Append(historyHashes[r], m.historyHash) = historyHashes[r] \o g
      BY <1>1, <2>1, AppendIsConcat
    <3> QED
      BY <3>1, <3>2, <3>3, <3>4
  <2>6. \/ tentativeCP'[r].cp = tentativeCP[r].cp
        \/ tentativeCP'[r].cp = RequestCP(r, m)
    BY <1>4 DEF HandleOrderReq, TentativeAfter, TypeOK
  <2>7. /\ RequestCP(r, m) \in CP
        /\ RequestCP(r, m).seq = Len(executed[r]) + Len(b)
        /\ RequestCP(r, m).historyHash = Last(g)
    BY <1>1, <2>1, <2>3, RequestCPType DEF RequestCP, Last
  <2>8. \A j \in 1..Len(g) : Len(g[j]) = base + j
    BY <2>2, <2>3
  <2>9. /\ b \in Seq(Request) /\ g \in Seq(HistoryHash)
        /\ Len(g) = Len(b) /\ Len(b) # 0
        /\ base \in Nat
    BY <2>2, <2>3
  <2> HIDE DEF g, b, base
  <2>10. /\ Window(executed[r] \o b, committedCP[r].seq, history[r] \o b,
                   historyHashes[r] \o g, tentativeCP[r].cp)
         /\ Window(executed[r] \o b, committedCP[r].seq, history[r] \o b,
                   historyHashes[r] \o g, RequestCP(r, m))
    BY <1>1, <2>4, <2>7, <2>8, <2>9, WindowExtended
  <2> QED
    BY <2>5, <2>6, <2>10
<1>5. ASSUME NEW m \in msgs, CommitCheckpoint(r, m)
      PROVE  Window(executed[r], committedCP[r].seq, history[r],
                    historyHashes[r], tentativeCP[r].cp)'
  <2>1. PICK i \in Places(r, m) :
          /\ history' = [history EXCEPT ![r] = Truncated(@, i)]
          /\ historyHashes' = [historyHashes EXCEPT ![r] = Truncated(@, i)]
    BY <1>5 DEF CommitCheckpoint
  <2>2. /\ tentativeCP[r].cp.seq # 0
        /\ m.cp = tentativeCP[r].cp
        /\ committedCP' = [committedCP EXCEPT ![r] = tentativeCP[r].cp]
        /\ tentativeCP'
             = [tentativeCP EXCEPT ![r] = [cp |-> NoCP, recv |-> {}]]
        /\ executed' = executed
    BY <1>5 DEF CommitCheckpoint, MatchesTentative, TentativeCleared
  <2>3. /\ i \in 1..Len(historyHashes[r])
        /\ historyHashes[r][i] = tentativeCP[r].cp.historyHash
    BY <1>1, <2>1, <2>2, LenProperties DEF Places
  <2>4. Window(executed[r], tentativeCP[r].cp.seq,
               Truncated(history[r], i), Truncated(historyHashes[r], i), NoCP)
    BY <1>1, <2>2, <2>3, WindowTruncated
  <2>5. /\ history'[r] = Truncated(history[r], i)
        /\ historyHashes'[r] = Truncated(historyHashes[r], i)
        /\ committedCP'[r].seq = tentativeCP[r].cp.seq
        /\ tentativeCP'[r].cp = NoCP
        /\ executed'[r] = executed[r]
    BY <2>1, <2>2 DEF TypeOK
  <2> QED
    BY <2>4, <2>5
<1>6. ASSUME NEW batch \in Batches, ProcessBatch(batch), r # Primary
      PROVE  UNCHANGED <<executed[r], committedCP[r], history[r],
                         historyHashes[r], tentativeCP[r].cp>>
  BY <1>6 DEF ProcessBatch, TentativeAfter, TypeOK
<1>7. ASSUME NEW s \in Server \ {r}, NEW m \in msgs,
             HandleOrderReq(s, m) \/ CommitCheckpoint(s, m)
      PROVE  UNCHANGED <<executed[r], committedCP[r], history[r],
                         historyHashes[r], tentativeCP[r].cp>>
  BY <1>7 DEF HandleOrderReq, CommitCheckpoint, TentativeAfter,
              TentativeCleared, TypeOK
<1>8. ASSUME NEW s \in Server, NEW m \in msgs, RecordVote(s, m)
      PROVE  UNCHANGED <<executed[r], committedCP[r], history[r],
                         historyHashes[r], tentativeCP[r].cp>>
  BY <1>8 DEF RecordVote, TypeOK
<1>9. ASSUME Refused
      PROVE  UNCHANGED <<executed[r], committedCP[r], history[r],
                         historyHashes[r], tentativeCP[r].cp>>
  BY <1>9 DEF Refused, serverVars
<1> QED
  BY <1>2, <1>3, <1>4, <1>5, <1>6, <1>7, <1>8, <1>9, StepCases

\* The invariants of the log and of the histories hold in every behaviour.
LEMMA WindowCorrect == Spec => [](TypeOK /\ LogInv /\ WindowInv)
<1>1. Init => WindowInv
  BY WindowInit
<1>2. TypeOK /\ LogInv /\ WindowInv /\ [Next]_vars => WindowInv'
  BY WindowStep
<1> QED
  BY <1>1, <1>2, LogCorrect, PTL DEF Spec

\* A history is what was executed since the committed checkpoint.
THEOREM HistoryWindowCorrect == Spec => []HistoryWindow
<1>1. TypeOK /\ LogInv /\ WindowInv => HistoryWindow
  <2> SUFFICES ASSUME TypeOK, LogInv, WindowInv, NEW s \in Server
               PROVE  history[s] = SubSeq(executed[s],
                                          committedCP[s].seq + 1, nextSeq[s])
    BY DEF HistoryWindow
  <2> DEFINE c == committedCP[s].seq
             ex == executed[s]
             h == history[s]
             w == SubSeq(ex, c + 1, nextSeq[s])
  <2>1. /\ c \in Nat /\ Len(h) \in Nat
        /\ ex \in Seq(Request) /\ h \in Seq(Request)
        /\ nextSeq[s] = Len(ex)
        /\ c + Len(h) = Len(ex)
        /\ \A i \in 1..Len(h) : h[i] = ex[c + i]
    BY LenProperties DEF TypeOK, CP, LogInv, WindowInv, Window
  <2> HIDE DEF c, ex, h
  <2>2. \A i \in (c + 1)..Len(ex) : ex[i] \in Request
    BY <2>1, ElementOfSeq
  <2>3. /\ w \in Seq(Request)
        /\ Len(w) = Len(h)
        /\ \A i \in 1..Len(h) : w[i] = ex[c + 1 + i - 1]
    BY <2>1, <2>2, SubSeqProperties
  <2>4. \A i \in 1..Len(h) : w[i] = h[i]
    BY <2>1, <2>3
  <2>5. h = w
    BY <2>1, <2>3, <2>4, SeqEqual
  <2> QED
    BY <2>5 DEF h, ex, c
<1> QED
  BY <1>1, WindowCorrect, PTL

\* handleCP always finds the checkpoint in the history.
THEOREM TentativeInHistoryCorrect == Spec => []TentativeInHistory
<1>1. TypeOK /\ WindowInv => TentativeInHistory
  BY LenProperties DEF TypeOK, WindowInv, Window, TentativeInHistory
<1> QED
  BY <1>1, WindowCorrect, PTL

\* Committed checkpoints only advance, and only over executed requests.
THEOREM CheckpointsAdvanceCorrect == Spec => CheckpointsAdvance
<1> DEFINE Advances ==
             \A s \in Server : committedCP'[s] # committedCP[s] =>
               /\ committedCP'[s].seq > committedCP[s].seq
               /\ committedCP'[s].seq <= nextSeq[s]
<1>1. TypeOK /\ LogInv /\ WindowInv /\ [Next]_vars => [Advances]_committedCP
  <2> SUFFICES ASSUME TypeOK, LogInv, WindowInv, [Next]_vars
               PROVE  Advances \/ UNCHANGED committedCP
    OBVIOUS
  <2>1. ASSUME NEW r \in Server, NEW m \in msgs, CommitCheckpoint(r, m)
        PROVE  Advances
    <3>1. /\ committedCP' = [committedCP EXCEPT ![r] = tentativeCP[r].cp]
          /\ tentativeCP[r].cp.seq # 0
      BY <2>1 DEF CommitCheckpoint, MatchesTentative
    <3>2. /\ tentativeCP[r].cp.seq - committedCP[r].seq
               \in 1..Len(historyHashes[r])
          /\ Len(history[r]) = Len(historyHashes[r])
          /\ committedCP[r].seq + Len(history[r]) = nextSeq[r]
      BY <3>1 DEF WindowInv, Window, LogInv
    <3>3. /\ tentativeCP[r].cp.seq \in Nat /\ committedCP[r].seq \in Nat
          /\ Len(history[r]) \in Nat
      BY LenProperties DEF TypeOK, CP
    <3>4. /\ tentativeCP[r].cp.seq > committedCP[r].seq
          /\ tentativeCP[r].cp.seq <= nextSeq[r]
      BY <3>2, <3>3
    <3> QED
      BY <3>1, <3>4 DEF TypeOK
  <2> QED
    BY <2>1, StepCases
       DEF ProcessBatch, HandleOrderReq, RecordVote, Refused, serverVars
<1> QED
  BY <1>1, WindowCorrect, PTL DEF Spec, CheckpointsAdvance

-----------------------------------------------------------------------------
(***************************************************************************)
(* Checkpoints under way                                                   *)
(***************************************************************************)

\* Multiples, and the operator the code tests them with.
LEMMA MultipleIff ==
  ASSUME NEW n \in Nat \ {0}, NEW a \in Nat
  PROVE  a % n = 0 <=> \E k \in Nat : a = k * n
<1>1. ASSUME a % n = 0
      PROVE  \E k \in Nat : a = k * n
  <2>1. a = n * (a \div n) + (a % n)
    BY SMT
  <2>2. a \div n \in Nat
    BY SMT
  <2>3. a = (a \div n) * n
    BY <1>1, <2>1, <2>2, SMT
  <2> QED
    BY <2>2, <2>3
<1>2. ASSUME NEW k \in Nat
      PROVE  (k * n) % n = 0
  BY SMT
<1> QED
  BY <1>1, <1>2

\* The next multiple.
LEMMA NextMultiple ==
  ASSUME NEW n \in Nat \ {0}, NEW k \in Nat
  PROVE  k * n \in Nat /\ k * n + n = (k + 1) * n
BY SMT

\* How much of the history of s its tentative checkpoint covers.
Covered(s) ==
  IF tentativeCP[s].cp.seq = 0
  THEN 0
  ELSE tentativeCP[s].cp.seq - committedCP[s].seq

\* At a server that is not the primary this is a multiple of CPInterval, and
\* the rest of the history is shorter than CPInterval.
UnderWayInv ==
  \A s \in Server \ {Primary} :
    /\ \E k \in Nat : Covered(s) = k * CPInterval
    /\ Len(history[s]) < Covered(s) + CPInterval

\* Initially nothing is covered.
LEMMA UnderWayInit == Init => UnderWayInv
<1> SUFFICES ASSUME Init, NEW s \in Server \ {Primary}
             PROVE  /\ \E k \in Nat : Covered(s) = k * CPInterval
                    /\ Len(history[s]) < Covered(s) + CPInterval
  BY DEF UnderWayInv
<1>1. Covered(s) = 0 /\ Len(history[s]) = 0
  BY DEF Init, Covered, NoCP
<1>2. 0 = 0 * CPInterval
  BY ConstantsAssumption
<1> QED
  BY <1>1, <1>2, ConstantsAssumption

\* One more request, with a checkpoint if one is due.
LEMMA UnderWayRequest ==
  ASSUME TypeOK, LogInv, WindowInv, UnderWayInv,
         NEW r \in Server \ {Primary}, NEW m \in msgs, HandleOrderReq(r, m)
  PROVE  /\ \E k \in Nat : Covered(r)' = k * CPInterval
         /\ Len(history'[r]) < Covered(r)' + CPInterval
<1> DEFINE h == Append(history[r], m.req)
           len == Len(history[r])
<1>1. /\ m.req \in Request
      /\ history'[r] = h
      /\ committedCP' = committedCP
      /\ tentativeCP' = TentativeAfter(r, h, RequestCP(r, m))
  BY DEF HandleOrderReq, TypeOK, Message
<1>2. len \in Nat /\ Len(h) = len + 1
  BY <1>1, LenProperties, AppendProperties DEF TypeOK
<1>3. CPInterval \in Nat \ {0}
  BY ConstantsAssumption
<1> HIDE DEF len
<1>4. (len + 1) % CPInterval = 0 <=> \E k \in Nat : len + 1 = k * CPInterval
  <2>1. len + 1 \in Nat
    BY <1>2
  <2> QED
    BY <1>3, <2>1, MultipleIff, Zenon
<1>5. CASE CheckpointDue(h)
  <2>1. tentativeCP'[r].cp.seq = nextSeq[r] + 1
    BY <1>1, <1>5 DEF TentativeAfter, RequestCP, TypeOK
  <2>2. /\ nextSeq[r] \in Nat
        /\ committedCP[r].seq \in Nat
        /\ committedCP[r].seq + len = nextSeq[r]
    BY DEF TypeOK, CP, LogInv, WindowInv, Window, len
  <2>3. Covered(r)' = len + 1
    BY <1>1, <1>2, <2>1, <2>2 DEF Covered
  <2>4. (len + 1) % CPInterval = 0
    BY <1>2, <1>5 DEF CheckpointDue
  <2>5. \E k \in Nat : len + 1 = k * CPInterval
    BY <1>4, <2>4
  <2>6. Len(history'[r]) < Covered(r)' + CPInterval
    BY <1>1, <1>2, <1>3, <2>3
  <2> QED
    BY <2>3, <2>5, <2>6
<1>6. CASE ~CheckpointDue(h)
  <2>1. Covered(r)' = Covered(r)
    BY <1>1, <1>6 DEF TentativeAfter, Covered
  <2>2. PICK k \in Nat : Covered(r) = k * CPInterval
    BY DEF UnderWayInv
  <2>3. len < Covered(r) + CPInterval
    BY DEF UnderWayInv, len
  <2>4. /\ Covered(r) \in Nat
        /\ Covered(r) + CPInterval = (k + 1) * CPInterval
    BY <1>3, <2>2, NextMultiple
  <2>5. len + 1 # Covered(r) + CPInterval
    <3> SUFFICES ASSUME len + 1 = Covered(r) + CPInterval
                 PROVE  FALSE
      OBVIOUS
    <3>1. len + 1 = (k + 1) * CPInterval /\ k + 1 \in Nat
      BY <2>4
    <3>2. (len + 1) % CPInterval = 0
      BY <1>4, <3>1
    <3>3. len + 1 >= CPInterval
      BY <1>2, <1>3, <2>4
    <3> QED
      BY <1>2, <1>6, <3>2, <3>3 DEF CheckpointDue
  <2>6. len + 1 < Covered(r) + CPInterval
    BY <1>2, <1>3, <2>3, <2>4, <2>5
  <2> QED
    BY <1>1, <1>2, <2>1, <2>2, <2>6
<1> QED
  BY <1>5, <1>6

\* A commit removes what the tentative checkpoint covers.
LEMMA UnderWayCommit ==
  ASSUME TypeOK, LogInv, WindowInv, UnderWayInv,
         NEW r \in Server \ {Primary}, NEW m \in msgs, CommitCheckpoint(r, m)
  PROVE  /\ \E k \in Nat : Covered(r)' = k * CPInterval
         /\ Len(history'[r]) < Covered(r)' + CPInterval
<1> DEFINE t == tentativeCP[r].cp
           c == committedCP[r].seq
<1>1. PICK i \in Places(r, m) :
        history' = [history EXCEPT ![r] = Truncated(@, i)]
  BY DEF CommitCheckpoint
<1>2. /\ t.seq # 0
      /\ m.cp = t
      /\ tentativeCP'[r].cp = NoCP
  BY DEF CommitCheckpoint, MatchesTentative, TentativeCleared, TypeOK
<1>3. /\ executed[r] \in Seq(Request) /\ c \in Nat
      /\ history[r] \in Seq(Request)
      /\ historyHashes[r] \in Seq(HistoryHash)
      /\ t \in CP /\ t.seq \in Nat
      /\ Window(executed[r], c, history[r], historyHashes[r], t)
  BY DEF TypeOK, CP, WindowInv
<1>4. i \in 1..Len(historyHashes[r]) /\ historyHashes[r][i] = t.historyHash
  BY <1>2, <1>3, LenProperties DEF Places
<1> HIDE DEF t, c
<1>5. i = t.seq - c
  BY <1>2, <1>3, <1>4, WindowTruncated
<1>6. i \in 1..Len(history[r])
  BY <1>3, <1>4 DEF Window
<1>7. Len(history'[r]) = Len(history[r]) - i
  <2>1. history'[r] = Truncated(history[r], i)
    BY <1>1 DEF TypeOK
  <2> QED
    BY <1>3, <1>6, <2>1, TruncatedType
<1>8. Covered(r)' = 0
  BY <1>2 DEF Covered, NoCP
<1>9. Len(history[r]) < i + CPInterval
  BY <1>2, <1>5 DEF UnderWayInv, Covered, t, c
<1>10. 0 = 0 * CPInterval
  BY ConstantsAssumption
<1>11. Len(history[r]) \in Nat
  BY <1>3, LenProperties
<1>12. Len(history'[r]) < 0 + CPInterval
  BY <1>6, <1>7, <1>9, <1>11, ConstantsAssumption
<1> QED
  BY <1>8, <1>10, <1>12

\* Every step keeps the invariant.
LEMMA UnderWayStep ==
  TypeOK /\ LogInv /\ WindowInv /\ UnderWayInv /\ [Next]_vars => UnderWayInv'
<1> SUFFICES ASSUME TypeOK, LogInv, WindowInv, UnderWayInv, [Next]_vars,
                    NEW r \in Server \ {Primary}
             PROVE  /\ \E k \in Nat : Covered(r)' = k * CPInterval
                    /\ Len(history'[r]) < Covered(r)' + CPInterval
  BY DEF UnderWayInv
<1>1. ASSUME UNCHANGED <<history[r], committedCP[r], tentativeCP[r].cp>>
      PROVE  /\ \E k \in Nat : Covered(r)' = k * CPInterval
             /\ Len(history'[r]) < Covered(r)' + CPInterval
  BY <1>1 DEF UnderWayInv, Covered
<1>2. ASSUME NEW batch \in Batches, ProcessBatch(batch)
      PROVE  UNCHANGED <<history[r], committedCP[r], tentativeCP[r].cp>>
  BY <1>2 DEF ProcessBatch, TentativeAfter, TypeOK
<1>3. ASSUME NEW s \in Server, s # r, NEW m \in msgs,
             HandleOrderReq(s, m) \/ CommitCheckpoint(s, m)
      PROVE  UNCHANGED <<history[r], committedCP[r], tentativeCP[r].cp>>
  BY <1>3 DEF HandleOrderReq, CommitCheckpoint, TentativeAfter,
              TentativeCleared, TypeOK
<1>4. ASSUME NEW s \in Server, NEW m \in msgs, RecordVote(s, m)
      PROVE  UNCHANGED <<history[r], committedCP[r], tentativeCP[r].cp>>
  BY <1>4 DEF RecordVote, TypeOK
<1>5. ASSUME Refused
      PROVE  UNCHANGED <<history[r], committedCP[r], tentativeCP[r].cp>>
  BY <1>5 DEF Refused, serverVars
<1> QED
  BY <1>1, <1>2, <1>3, <1>4, <1>5, UnderWayRequest, UnderWayCommit, StepCases

\* A server other than the primary never holds CPInterval requests without a
\* checkpoint under way.
THEOREM ReplicaCheckpointUnderWayCorrect == Spec => []ReplicaCheckpointUnderWay
<1>1. Init => UnderWayInv
  BY UnderWayInit
<1>2. TypeOK /\ LogInv /\ WindowInv /\ UnderWayInv /\ [Next]_vars
        => UnderWayInv'
  BY UnderWayStep
<1>3. TypeOK /\ UnderWayInv => ReplicaCheckpointUnderWay
  <2> SUFFICES ASSUME TypeOK, UnderWayInv, NEW s \in Server \ {Primary},
                      Len(history[s]) >= CPInterval,
                      tentativeCP[s].cp.seq = 0
               PROVE  FALSE
    BY DEF ReplicaCheckpointUnderWay
  <2>1. Len(history[s]) < 0 + CPInterval
    BY DEF UnderWayInv, Covered
  <2>2. Len(history[s]) \in Nat
    BY LenProperties DEF TypeOK
  <2> QED
    BY <2>1, <2>2, ConstantsAssumption
<1> QED
  BY <1>1, <1>2, <1>3, WindowCorrect, PTL DEF Spec

-----------------------------------------------------------------------------
(***************************************************************************)
(* The hash chain                                                          *)
(***************************************************************************)

\* The order request before the number seq carries the history hash hash.
Precedes(seq, hash) ==
  \E p \in msgs : /\ p.type = "OrderReq"
                  /\ p.seq + 1 = seq
                  /\ p.historyHash = hash

\* Every order request chains its request to the order request before it or
\* to nothing; every server but the primary chains the next request to the
\* last order request it executed; and so does the primary, unless its
\* history is empty.
ChainInv ==
  /\ \A m \in msgs : m.type = "OrderReq" =>
       \/ m.historyHash = <<m.req>>
       \/ \E h \in HistoryHash :
            Precedes(m.seq, h) /\ m.historyHash = Append(h, m.req)
  /\ \A s \in Server \ {Primary} :
       IF nextSeq[s] = 0 THEN ReplicaHash(s) = <<>>
                         ELSE Precedes(nextSeq[s], ReplicaHash(s))
  /\ PrimaryHash # <<>> => Precedes(nextSeq[Primary], PrimaryHash)

\* Messages are never lost from msgs, so the predecessor stays.
LEMMA PrecedesStays ==
  ASSUME NEW seq, NEW hash, Precedes(seq, hash), msgs \subseteq msgs'
  PROVE  Precedes(seq, hash)'
BY DEF Precedes

\* A server that commits a checkpoint chains the next request to the same
\* hash as before: to the last of the hashes that stay, or, when all of them
\* go, to the checkpoint's, which was the last.  The primary has nothing to
\* chain to in the second case.
LEMMA CommitKeepsHash ==
  ASSUME TypeOK, NEW s \in Server, NEW m \in msgs, CommitCheckpoint(s, m)
  PROVE  /\ ReplicaHash(s)' = ReplicaHash(s)
         /\ s = Primary => PrimaryHash' = <<>> \/ PrimaryHash' = PrimaryHash
<1> DEFINE hh == historyHashes[s]
           len == Len(hh)
<1>1. PICK i \in Places(s, m) :
        historyHashes' = [historyHashes EXCEPT ![s] = Truncated(@, i)]
  BY DEF CommitCheckpoint
<1>2. /\ hh \in Seq(HistoryHash) /\ len \in Nat
      /\ i \in 1..len
      /\ hh[i] = m.cp.historyHash
  BY LenProperties DEF TypeOK, Places
<1>3. /\ committedCP'[s] = m.cp
      /\ historyHashes'[s] = Truncated(hh, i)
  BY <1>1 DEF CommitCheckpoint, MatchesTentative, TypeOK
<1>4. /\ Truncated(hh, i) \in Seq(HistoryHash)
      /\ Len(Truncated(hh, i)) = len - i
      /\ \A j \in 1..(len - i) : Truncated(hh, i)[j] = hh[i + j]
  BY <1>2, TruncatedType
<1>5. hh # <<>>
  BY <1>2, EmptySeq
<1> HIDE DEF hh
<1>6. CASE i = len
  <2>1. Truncated(hh, i) = <<>>
    BY <1>2, <1>4, <1>6, EmptySeq
  <2>2. m.cp.historyHash = Last(hh)
    BY <1>2, <1>6 DEF Last
  <2> QED
    BY <1>3, <1>5, <2>1, <2>2 DEF ReplicaHash, PrimaryHash, hh
<1>7. CASE i # len
  <2>1. len - i \in 1..(len - i) /\ i + (len - i) = len
    <3>1. len \in Nat /\ i \in 1..len
      BY <1>2
    <3> HIDE DEF len
    <3> QED
      BY <1>7, <3>1
  <2>2. Truncated(hh, i) # <<>>
    BY <1>4, <2>1, EmptySeq
  <2>3. Last(Truncated(hh, i)) = Last(hh)
    BY <1>4, <2>1 DEF Last
  <2> QED
    BY <1>3, <1>5, <2>2, <2>3 DEF ReplicaHash, PrimaryHash, hh
<1> QED
  BY <1>6, <1>7

\* The number and the hash of the next request change at a server other than
\* the primary only when it executes a request.
LEMMA ReplicaKept ==
  ASSUME TypeOK, [Next]_vars, NEW s \in Server \ {Primary},
         ~ \E m \in msgs : HandleOrderReq(s, m)
  PROVE  /\ nextSeq'[s] = nextSeq[s]
         /\ executed'[s] = executed[s]
         /\ ReplicaHash(s)' = ReplicaHash(s)
<1>1. ASSUME NEW batch \in Batches, ProcessBatch(batch)
      PROVE  UNCHANGED <<nextSeq[s], executed[s], historyHashes[s],
                         committedCP[s]>>
  BY <1>1 DEF ProcessBatch, TypeOK
<1>2. ASSUME NEW r \in Server, r # s, NEW m \in msgs,
             HandleOrderReq(r, m) \/ CommitCheckpoint(r, m)
      PROVE  UNCHANGED <<nextSeq[s], executed[s], historyHashes[s],
                         committedCP[s]>>
  BY <1>2 DEF HandleOrderReq, CommitCheckpoint, TypeOK
<1>3. ASSUME NEW m \in msgs, CommitCheckpoint(s, m)
      PROVE  /\ UNCHANGED <<nextSeq[s], executed[s]>>
             /\ ReplicaHash(s)' = ReplicaHash(s)
  BY <1>3, CommitKeepsHash DEF CommitCheckpoint
<1>4. ASSUME NEW r \in Server, NEW m \in msgs, RecordVote(r, m)
      PROVE  UNCHANGED <<nextSeq[s], executed[s], historyHashes[s],
                         committedCP[s]>>
  BY <1>4 DEF RecordVote
<1>5. ASSUME Refused
      PROVE  UNCHANGED <<nextSeq[s], executed[s], historyHashes[s],
                         committedCP[s]>>
  BY <1>5 DEF Refused, serverVars
<1>6. ASSUME UNCHANGED <<nextSeq[s], executed[s], historyHashes[s],
                         committedCP[s]>>
      PROVE  /\ UNCHANGED <<nextSeq[s], executed[s]>>
             /\ ReplicaHash(s)' = ReplicaHash(s)
  BY <1>6 DEF ReplicaHash
<1> QED
  BY <1>1, <1>2, <1>3, <1>4, <1>5, <1>6, StepCases

\* What the primary chains to when it has executed a batch.
LEMMA PrimaryHashAfter ==
  ASSUME TypeOK, NEW batch \in Batches, ProcessBatch(batch)
  PROVE  PrimaryHash' = BatchCP(batch).historyHash
<1> DEFINE hh == historyHashes[Primary]
           g == BatchHashes(batch)
<1>1. /\ hh \in Seq(HistoryHash) /\ Len(hh) \in Nat
      /\ g \in Seq(HistoryHash) /\ Len(g) \in Nat \ {0}
  BY ConstantsAssumption, BatchType, BatchHashesType, LenProperties
     DEF TypeOK
<1>2. historyHashes'[Primary] = hh \o g
  BY ConstantsAssumption DEF ProcessBatch, TypeOK
<1> HIDE DEF hh, g
<1>3. /\ Len(hh \o g) = Len(hh) + Len(g)
      /\ (hh \o g)[Len(hh) + Len(g)] = g[Len(g)]
      /\ hh \o g \in Seq(HistoryHash)
  <2>1. Len(g) \in 1..Len(g)
    BY <1>1
  <2> QED
    BY <1>1, <2>1, ConcatParts
<1>4. hh \o g # <<>>
  BY <1>1, <1>3, EmptySeq
<1>5. Last(hh \o g) = Last(g)
  BY <1>3 DEF Last
<1> QED
  BY <1>2, <1>4, <1>5 DEF PrimaryHash, BatchCP, g

\* The hashes of a batch's requests chain on from any hash, one request at a
\* time.
LEMMA HashesGrow ==
  ASSUME NEW start \in Seq(Request), NEW batch \in Seq(Request),
         NEW i \in 1..Len(batch)
  PROVE  /\ start \o SubSeq(batch, 1, 0) = start
         /\ start \o SubSeq(batch, 1, i - 1) \in Seq(Request)
         /\ start \o SubSeq(batch, 1, i)
              = Append(start \o SubSeq(batch, 1, i - 1), batch[i])
BY ConcatPrefix

\* The order requests of a batch continue the chain, one after the other.
LEMMA BatchChains ==
  ASSUME TypeOK, ChainInv, NEW batch \in Batches, ProcessBatch(batch),
         NEW m \in BatchOrders(batch)
  PROVE  \/ m.historyHash = <<m.req>>
         \/ \E h \in HistoryHash :
              Precedes(m.seq, h)' /\ m.historyHash = Append(h, m.req)
<1>1. PICK i \in 1..Len(batch) :
        m = OrderReq(nextSeq[Primary] + i - 1, BatchHashes(batch)[i],
                     batch[i])
  BY BatchOrdersType
<1>2. /\ nextSeq[Primary] \in Nat /\ Len(batch) \in Nat
      /\ batch \in Seq(Request)
      /\ PrimaryHash \in Seq(Request)
      /\ msgs \subseteq msgs' /\ BatchOrders(batch) \subseteq msgs'
  BY ConstantsAssumption, BatchType, BatchSends, PrimaryHashType
     DEF TypeOK, HistoryHash
<1>3. /\ m.seq = nextSeq[Primary] + i - 1
      /\ m.req = batch[i]
      /\ m.historyHash = PrimaryHash \o SubSeq(batch, 1, i)
  BY <1>1 DEF OrderReq, BatchHashes
<1>4. /\ PrimaryHash \o SubSeq(batch, 1, 0) = PrimaryHash
      /\ PrimaryHash \o SubSeq(batch, 1, i - 1) \in Seq(Request)
      /\ PrimaryHash \o SubSeq(batch, 1, i)
           = Append(PrimaryHash \o SubSeq(batch, 1, i - 1), batch[i])
  <2>1. batch \in Seq(Request) /\ PrimaryHash \in Seq(Request)
    BY <1>2
  <2> QED
    BY ONLY <2>1, i \in 1..Len(batch), HashesGrow
<1>5. PICK h \in HistoryHash : h = PrimaryHash \o SubSeq(batch, 1, i - 1)
  BY <1>4 DEF HistoryHash
<1>6. m.historyHash = Append(h, m.req)
  BY <1>3, <1>4, <1>5
<1>7. CASE i = 1
  <2>1. h = PrimaryHash /\ m.seq = nextSeq[Primary]
    BY <1>2, <1>3, <1>4, <1>5, <1>7
  <2>2. CASE PrimaryHash = <<>>
    <3>1. Append(<<>>, m.req) = <<m.req>>
      OBVIOUS
    <3> QED
      BY <1>6, <2>1, <2>2, <3>1
  <2>3. CASE PrimaryHash # <<>>
    <3>1. Precedes(m.seq, h)
      BY <2>1, <2>3 DEF ChainInv
    <3>2. Precedes(m.seq, h)'
      BY <1>2, <3>1 DEF Precedes
    <3> QED
      BY <1>6, <3>2
  <2> QED
    BY <2>2, <2>3
<1>8. CASE i # 1
  <2>1. i - 1 \in 1..Len(batch)
    BY <1>2, <1>8
  <2>2. PICK p \in BatchOrders(batch) :
          p = OrderReq(nextSeq[Primary] + (i - 1) - 1,
                       BatchHashes(batch)[i - 1], batch[i - 1])
    BY <2>1 DEF BatchOrders
  <2>3. /\ p.type = "OrderReq"
        /\ p.seq + 1 = m.seq
        /\ p.historyHash = h
    <3>1. BatchHashes(batch)[i - 1] = h
      BY <1>5, <2>1 DEF BatchHashes
    <3> QED
      BY <1>2, <1>3, <2>2, <3>1 DEF OrderReq
  <2>4. Precedes(m.seq, h)'
    BY <1>2, <2>3 DEF Precedes
  <2> QED
    BY <1>6, <2>4
<1> QED
  BY <1>7, <1>8

\* Initially nothing is chained.
LEMMA ChainInit == Init => ChainInv
BY ConstantsAssumption
   DEF Init, ChainInv, ReplicaHash, PrimaryHash, NoCP

\* Every step keeps the hash chain.
LEMMA ChainStep == TypeOK /\ LogInv /\ ChainInv /\ [Next]_vars => ChainInv'
<1> SUFFICES ASSUME TypeOK, LogInv, ChainInv, [Next]_vars
             PROVE  ChainInv'
  OBVIOUS
<1> DEFINE Linked(m) ==
             \/ m.historyHash = <<m.req>>
             \/ \E h \in HistoryHash :
                  Precedes(m.seq, h) /\ m.historyHash = Append(h, m.req)
           AtReplica(s) == IF nextSeq[s] = 0
                           THEN ReplicaHash(s) = <<>>
                           ELSE Precedes(nextSeq[s], ReplicaHash(s))
           AtPrimary == PrimaryHash # <<>>
                          => Precedes(nextSeq[Primary], PrimaryHash)
<1>1. msgs \subseteq msgs'
  BY BatchSends, RequestSends, StepCases
     DEF CommitCheckpoint, RecordVote, Refused, serverVars
<1>2. ASSUME NEW m \in msgs', m.type = "OrderReq"
      PROVE  Linked(m)'
  <2>1. CASE m \in msgs
    BY <1>1, <1>2, <2>1 DEF ChainInv, Precedes
  <2>2. CASE \E batch \in Batches : /\ ProcessBatch(batch)
                                    /\ m \in BatchOrders(batch)
    BY <2>2, BatchChains
  <2> QED
    BY <1>2, <2>1, <2>2, BatchSends, RequestSends, StepCases
       DEF CommitCheckpoint, RecordVote, Refused, serverVars
<1>3. ASSUME NEW s \in Server \ {Primary}
      PROVE  AtReplica(s)'
  <2>1. ASSUME NEW m \in msgs, HandleOrderReq(s, m)
        PROVE  AtReplica(s)'
    <3>1. /\ m.type = "OrderReq"
          /\ m.historyHash \in HistoryHash
          /\ nextSeq[s] \in Nat
          /\ nextSeq'[s] = nextSeq[s] + 1
          /\ m.seq + 1 = nextSeq'[s]
          /\ historyHashes'[s] = Append(historyHashes[s], m.historyHash)
      BY <2>1 DEF HandleOrderReq, Acceptable, TypeOK, Message
    <3>2. ReplicaHash(s)' = m.historyHash
      <4>1. historyHashes[s] \in Seq(HistoryHash)
        BY DEF TypeOK
      <4>2. historyHashes'[s] # <<>> /\ Last(historyHashes'[s]) = m.historyHash
        BY <3>1, <4>1, AppendProperties DEF Last
      <4> QED
        BY <4>2 DEF ReplicaHash
    <3>3. Precedes(nextSeq[s], ReplicaHash(s))'
      BY <1>1, <3>1, <3>2 DEF Precedes
    <3> QED
      BY <3>1, <3>3
  <2>2. CASE ~ \E m \in msgs : HandleOrderReq(s, m)
    <3>1. nextSeq'[s] = nextSeq[s] /\ ReplicaHash(s)' = ReplicaHash(s)
      BY <2>2, ReplicaKept
    <3>2. AtReplica(s)
      BY DEF ChainInv
    <3> QED
      BY <1>1, <3>1, <3>2 DEF Precedes
  <2> QED
    BY <2>1, <2>2
<1>4. AtPrimary'
  <2>1. ASSUME NEW batch \in Batches, ProcessBatch(batch)
        PROVE  AtPrimary'
    <3>1. nextSeq'[Primary] = BatchCP(batch).seq
      BY <2>1, ConstantsAssumption DEF ProcessBatch, BatchCP, TypeOK
    <3>2. PrimaryHash' = BatchCP(batch).historyHash
      BY <2>1, PrimaryHashAfter
    <3> QED
      BY <2>1, <3>1, <3>2, BatchCPOrder, BatchSends DEF Precedes
  <2>2. ASSUME nextSeq'[Primary] = nextSeq[Primary],
               PrimaryHash' = <<>> \/ PrimaryHash' = PrimaryHash
        PROVE  AtPrimary'
    BY <1>1, <2>2 DEF ChainInv, Precedes
  <2>3. ASSUME NEW s \in Server, NEW m \in msgs, HandleOrderReq(s, m)
        PROVE  UNCHANGED <<nextSeq[Primary], historyHashes[Primary]>>
    <3>1. s # Primary
      BY <2>3 DEF HandleOrderReq, Acceptable, LogInv, TypeOK
    <3> QED
      BY <2>3, <3>1 DEF HandleOrderReq, TypeOK
  <2>4. ASSUME NEW s \in Server, NEW m \in msgs, CommitCheckpoint(s, m)
        PROVE  /\ nextSeq'[Primary] = nextSeq[Primary]
               /\ PrimaryHash' = <<>> \/ PrimaryHash' = PrimaryHash
    <3>1. CASE s = Primary
      BY <2>4, <3>1, CommitKeepsHash DEF CommitCheckpoint
    <3>2. CASE s # Primary
      BY <2>4, <3>2 DEF CommitCheckpoint, PrimaryHash, TypeOK
    <3> QED
      BY <3>1, <3>2
  <2>5. ASSUME UNCHANGED <<nextSeq[Primary], historyHashes[Primary]>>
        PROVE  AtPrimary'
    <3>1. PrimaryHash' = PrimaryHash
      BY <2>5 DEF PrimaryHash
    <3> QED
      BY <2>2, <2>5, <3>1
  <2>6. ASSUME NEW s \in Server, NEW m \in msgs, RecordVote(s, m)
        PROVE  UNCHANGED <<nextSeq[Primary], historyHashes[Primary]>>
    BY <2>6 DEF RecordVote
  <2>7. ASSUME Refused
        PROVE  UNCHANGED <<nextSeq[Primary], historyHashes[Primary]>>
    BY <2>7 DEF Refused, serverVars
  <2> QED
    BY <2>1, <2>2, <2>3, <2>4, <2>5, <2>6, <2>7, StepCases
<1> QED
  BY <1>2, <1>3, <1>4 DEF ChainInv

\* The invariants of the log and of the hash chain hold in every behaviour.
LEMMA ChainCorrect == Spec => [](TypeOK /\ LogInv /\ ChainInv)
<1>1. Init => ChainInv
  BY ChainInit
<1>2. TypeOK /\ LogInv /\ ChainInv /\ [Next]_vars => ChainInv'
  BY ChainStep
<1> QED
  BY <1>1, <1>2, LogCorrect, PTL DEF Spec

\* The order request whose turn it is at a server that refuses it starts a
\* new hash chain.
LEMMA RefusedStartsChain ==
  ASSUME TypeOK, LogInv, ChainInv, NEW s \in Server, NEW m \in msgs,
         m.type = "OrderReq", m.seq = nextSeq[s], ~Acceptable(s, m)
  PROVE  s # Primary /\ m.historyHash = <<m.req>>
<1>1. s # Primary
  BY DEF LogInv, TypeOK
<1>2. ASSUME NEW h \in HistoryHash, Precedes(m.seq, h),
             m.historyHash = Append(h, m.req)
      PROVE  FALSE
  <2>1. PICK p \in msgs : /\ p.type = "OrderReq"
                          /\ p.seq + 1 = m.seq
                          /\ p.historyHash = h
    BY <1>2 DEF Precedes
  <2>2. p.seq \in Nat
    BY <2>1 DEF TypeOK, Message
  <2>3. Precedes(nextSeq[s], ReplicaHash(s))
    BY <1>1, <2>1, <2>2 DEF ChainInv
  <2>4. PICK q \in msgs : /\ q.type = "OrderReq"
                          /\ q.seq + 1 = m.seq
                          /\ q.historyHash = ReplicaHash(s)
    BY <2>3 DEF Precedes
  <2>5. q.seq \in Nat
    BY <2>4 DEF TypeOK, Message
  <2>6. p.seq = q.seq
    BY <2>1, <2>2, <2>4, <2>5
  <2>7. h = ReplicaHash(s)
    BY <2>1, <2>4, <2>6 DEF LogInv
  <2> QED
    BY <1>2, <2>7 DEF Acceptable
<1> QED
  BY <1>1, <1>2 DEF ChainInv

\* A server refuses a request in its turn only where the primary started a
\* new chain.
THEOREM StuckAtRestartCorrect == Spec => []StuckAtRestart
<1>1. TypeOK /\ LogInv /\ ChainInv => StuckAtRestart
  BY RefusedStartsChain DEF StuckAtRestart
<1> QED
  BY <1>1, ChainCorrect, PTL

\* A server that refused the request whose turn it is executes nothing ever
\* after.
THEOREM StuckForGoodCorrect == Spec => StuckForGood
<1> DEFINE Stays ==
             \A s \in Server :
               Stuck(s) => executed'[s] = executed[s] /\ Stuck(s)'
<1>1. TypeOK /\ LogInv /\ ChainInv /\ [Next]_vars => [Stays]_vars
  <2> SUFFICES ASSUME TypeOK, LogInv, ChainInv, [Next]_vars,
                      NEW s \in Server, Stuck(s)
               PROVE  executed'[s] = executed[s] /\ Stuck(s)'
    OBVIOUS
  <2>1. PICK m \in msgs : /\ m.type = "OrderReq"
                          /\ m.seq = nextSeq[s]
                          /\ ~Acceptable(s, m)
    BY DEF Stuck
  <2>2. s \in Server \ {Primary}
    BY <2>1, RefusedStartsChain
  <2>3. ASSUME NEW n \in msgs, HandleOrderReq(s, n)
        PROVE  FALSE
    <3>1. /\ n.type = "OrderReq"
          /\ n.seq = m.seq
          /\ n.historyHash = Append(ReplicaHash(s), n.req)
      BY <2>1, <2>3 DEF HandleOrderReq, Acceptable
    <3>2. n.historyHash = m.historyHash /\ n.req = m.req
      BY <2>1, <3>1 DEF LogInv
    <3> QED
      BY <2>1, <3>1, <3>2 DEF Acceptable
  <2>4. /\ nextSeq'[s] = nextSeq[s]
        /\ executed'[s] = executed[s]
        /\ ReplicaHash(s)' = ReplicaHash(s)
    BY <2>2, <2>3, ReplicaKept
  <2>5. m \in msgs'
    BY BatchSends, RequestSends, StepCases
       DEF CommitCheckpoint, RecordVote, Refused, serverVars
  <2>6. ~Acceptable(s, m)'
    BY <2>1, <2>4 DEF Acceptable
  <2>7. Stuck(s)'
    BY <2>1, <2>4, <2>5, <2>6 DEF Stuck
  <2> QED
    BY <2>4, <2>7
<1> QED
  BY <1>1, ChainCorrect, PTL DEF Spec, StuckForGood

-----------------------------------------------------------------------------
(***************************************************************************)
(* Overtaken order requests on a network that loses nothing                *)
(***************************************************************************)

\* Messages reach a server after they were sent.
HandledInv == \A s \in Server : handled[s] \subseteq msgs

\* A step hands at most one message to one server.
LEMMA ReceiveCases ==
  ASSUME [Next]_vars
  PROVE  \/ UNCHANGED handled
         \/ \E s \in Server, m \in msgs : Receive(s, m)
BY StepCases DEF ProcessBatch, HandleOrderReq, CommitCheckpoint, RecordVote,
                 Refused

LEMMA HandledStep == TypeOK /\ HandledInv /\ [Next]_vars => HandledInv'
<1> SUFFICES ASSUME TypeOK, HandledInv, [Next]_vars
             PROVE  HandledInv'
  OBVIOUS
<1>1. msgs \subseteq msgs'
  BY BatchSends, RequestSends, StepCases
     DEF CommitCheckpoint, RecordVote, Refused, serverVars
<1>2. ASSUME NEW s \in Server, NEW m \in msgs, Receive(s, m)
      PROVE  HandledInv'
  BY <1>1, <1>2 DEF HandledInv, Receive, TypeOK
<1> QED
  BY <1>1, <1>2, ReceiveCases DEF HandledInv

\* Order requests with one number are one message.
LEMMA SameOrderReq ==
  ASSUME TypeOK, LogInv, NEW m \in msgs, NEW n \in msgs,
         m.type = "OrderReq", n.type = "OrderReq", m.seq = n.seq
  PROVE  m = n
<1>1. m.req = n.req /\ m.historyHash = n.historyHash
  BY DEF LogInv
<1>2. /\ m = OrderReq(m.seq, m.historyHash, m.req)
      /\ n = OrderReq(n.seq, n.historyHash, n.req)
  BY DEF TypeOK, Message, OrderReq
<1> QED
  BY <1>1, <1>2

\* On a network that loses and repeats nothing, a server never gets past an
\* order request that reached it before its turn: the message was refused
\* and does not come again (handleOrderReq keeps nothing for later).
THEOREM OvertakingBlocksForGood ==
  Spec => [][Reliable =>
               \A s \in Server : \A m \in handled[s] :
                 m.type = "OrderReq" /\ m.seq >= nextSeq[s] =>
                   m \in handled'[s] /\ m.seq >= nextSeq'[s]]_vars
<1> DEFINE Blocked ==
             Reliable =>
               \A s \in Server : \A m \in handled[s] :
                 m.type = "OrderReq" /\ m.seq >= nextSeq[s] =>
                   m \in handled'[s] /\ m.seq >= nextSeq'[s]
<1>1. TypeOK /\ LogInv /\ HandledInv /\ [Next]_vars => [Blocked]_vars
  <2> SUFFICES ASSUME TypeOK, LogInv, HandledInv, [Next]_vars, Reliable,
                      NEW s \in Server, NEW m \in handled[s],
                      m.type = "OrderReq", m.seq >= nextSeq[s]
               PROVE  m \in handled'[s] /\ m.seq >= nextSeq'[s]
    OBVIOUS
  <2>1. m \in msgs /\ m.seq \in Nat /\ nextSeq[s] \in Nat
    BY DEF HandledInv, TypeOK, Message
  <2>2. s # Primary
    BY <2>1 DEF LogInv
  <2>3. m \in handled'[s]
    BY ReceiveCases DEF Receive, TypeOK
  <2>4. ASSUME NEW n \in msgs, HandleOrderReq(s, n)
        PROVE  m.seq >= nextSeq'[s]
    <3>1. /\ n.type = "OrderReq"
          /\ n.seq = nextSeq[s]
          /\ n \notin handled[s]
          /\ nextSeq'[s] = nextSeq[s] + 1
      BY <2>4 DEF HandleOrderReq, Acceptable, Receive, TypeOK
    <3>2. m.seq # n.seq
      BY <2>1, <3>1, SameOrderReq
    <3> QED
      BY <2>1, <3>1, <3>2
  <2>5. ASSUME ~ \E n \in msgs : HandleOrderReq(s, n)
        PROVE  m.seq >= nextSeq'[s]
    <3>1. nextSeq'[s] = nextSeq[s]
      BY <2>2, <2>5, ReplicaKept
    <3> QED
      BY <3>1
  <2> QED
    BY <2>3, <2>4, <2>5
<1>2. Init => HandledInv
  BY DEF Init, HandledInv
<1>3. TypeOK /\ HandledInv /\ [Next]_vars => HandledInv'
  BY HandledStep
<1> QED
  BY <1>1, <1>2, <1>3, LogCorrect, PTL DEF Spec

-----------------------------------------------------------------------------
(***************************************************************************)
(* One place for each request                                              *)
(***************************************************************************)

\* A log without repetitions that a fresh batch is added to has none.
LEMMA FreshBatchAdded ==
  ASSUME NEW l \in Seq(Request), NEW b \in Seq(Request),
         Log!NoRepeats(l), Log!FreshBatch(b, l)
  PROVE  Log!NoRepeats(l \o b)
<1>1. /\ Len(l) \in Nat /\ DOMAIN l = 1..Len(l)
      /\ Len(b) \in Nat /\ DOMAIN b = 1..Len(b)
  BY LenProperties
<1>2. /\ l \o b \in Seq(Request)
      /\ Len(l \o b) = Len(l) + Len(b)
      /\ \A i \in 1..Len(l) : (l \o b)[i] = l[i]
      /\ \A j \in 1..Len(b) : (l \o b)[Len(l) + j] = b[j]
  BY ConcatParts
<1> DEFINE s == l \o b
<1> HIDE DEF s
<1>3. DOMAIN s = 1..(Len(l) + Len(b))
  BY <1>2, LenProperties DEF s
<1>4. \A i \in DOMAIN s :
        i \in 1..Len(l) \/ \E j \in 1..Len(b) : i = Len(l) + j
  <2> SUFFICES ASSUME NEW i \in DOMAIN s, i \notin 1..Len(l)
               PROVE  \E j \in 1..Len(b) : i = Len(l) + j
    OBVIOUS
  <2>1. i - Len(l) \in 1..Len(b) /\ i = Len(l) + (i - Len(l))
    BY <1>1, <1>3
  <2> QED
    BY <2>1
<1>5. /\ \A i, j \in 1..Len(l) : i # j => l[i] # l[j]
      /\ \A i, j \in 1..Len(b) : i # j => b[i] # b[j]
      /\ \A i \in 1..Len(l), j \in 1..Len(b) : l[i] # b[j]
  BY <1>1 DEF Log!NoRepeats, Log!FreshBatch, Log!Elements
<1>6. ASSUME NEW i \in DOMAIN s, NEW j \in DOMAIN s, i # j
      PROVE  s[i] # s[j]
  <2>1. CASE i \in 1..Len(l) /\ j \in 1..Len(l)
    BY <1>2, <1>5, <1>6, <2>1 DEF s
  <2>2. ASSUME NEW k \in 1..Len(b), j = Len(l) + k, i \in 1..Len(l)
        PROVE  s[i] # s[j]
    BY <1>2, <1>5, <2>2 DEF s
  <2>3. ASSUME NEW k \in 1..Len(b), i = Len(l) + k, j \in 1..Len(l)
        PROVE  s[i] # s[j]
    BY <1>2, <1>5, <2>3 DEF s
  <2>4. ASSUME NEW k \in 1..Len(b), i = Len(l) + k,
               NEW n \in 1..Len(b), j = Len(l) + n
        PROVE  s[i] # s[j]
    <3>1. k # n
      BY <1>6, <2>4
    <3> QED
      BY <1>2, <1>5, <2>4, <3>1 DEF s
  <2> QED
    BY <1>4, <2>1, <2>2, <2>3, <2>4
<1> QED
  BY <1>6 DEF Log!NoRepeats, s

\* The primary never gives a request a second place.
LEMMA OnePlaceStep ==
  TypeOK /\ LogInv /\ Log!NoRepeats(executed[Primary]) /\ [Next]_vars
    => Log!NoRepeats(executed[Primary])'
<1> SUFFICES ASSUME TypeOK, LogInv, Log!NoRepeats(executed[Primary]),
                    [Next]_vars
             PROVE  Log!NoRepeats(executed[Primary])'
  OBVIOUS
<1>1. ASSUME NEW batch \in Batches, ProcessBatch(batch)
      PROVE  Log!NoRepeats(executed[Primary])'
  <2>1. executed'[Primary] = executed[Primary] \o batch
    BY <1>1, ConstantsAssumption DEF ProcessBatch, TypeOK
  <2>2. executed[Primary] \in Seq(Request) /\ batch \in Seq(Request)
    BY ConstantsAssumption, BatchType DEF TypeOK
  <2>3. Log!FreshBatch(batch, executed[Primary])
    BY <1>1 DEF ProcessBatch
  <2>4. Log!NoRepeats(executed[Primary] \o batch)
    BY <2>2, <2>3, FreshBatchAdded
  <2> QED
    BY <2>1, <2>4 DEF Log!NoRepeats
<1>2. ASSUME executed'[Primary] = executed[Primary]
      PROVE  Log!NoRepeats(executed[Primary])'
  BY <1>2 DEF Log!NoRepeats
<1>3. ASSUME NEW s \in Server, NEW m \in msgs, HandleOrderReq(s, m)
      PROVE  executed'[Primary] = executed[Primary]
  <2>1. s # Primary
    BY <1>3 DEF HandleOrderReq, Acceptable, LogInv, TypeOK
  <2> QED
    BY <1>3, <2>1 DEF HandleOrderReq, TypeOK
<1> QED
  BY <1>1, <1>2, <1>3, StepCases DEF CommitCheckpoint, RecordVote, Refused

\* No two answers disagree about a request.
THEOREM OneAnswerCorrect == Spec => []OneAnswer
<1>1. Init => Log!NoRepeats(executed[Primary])
  BY ConstantsAssumption DEF Init, Log!NoRepeats
<1>2. TypeOK /\ LogInv /\ Log!NoRepeats(executed[Primary]) /\ [Next]_vars
        => Log!NoRepeats(executed[Primary])'
  BY OnePlaceStep
<1>3. TypeOK /\ LogInv /\ Log!NoRepeats(executed[Primary]) => OneAnswer
  <2> SUFFICES ASSUME TypeOK, LogInv, Log!NoRepeats(executed[Primary]),
                      NEW m1 \in msgs, NEW m2 \in msgs,
                      m1.type = "SpecRes", m2.type = "SpecRes",
                      m1.req = m2.req
               PROVE  m1.seq = m2.seq /\ m1.historyHash = m2.historyHash
    BY DEF OneAnswer
  <2> DEFINE log == executed[Primary]
             o1 == OrderReq(m1.seq, m1.historyHash, m1.req)
             o2 == OrderReq(m2.seq, m2.historyHash, m2.req)
  <2>1. o1 \in msgs /\ o2 \in msgs
    BY DEF LogInv
  <2>2. /\ o1.type = "OrderReq" /\ o1.seq = m1.seq /\ o1.req = m1.req
        /\ o1.historyHash = m1.historyHash
        /\ o2.type = "OrderReq" /\ o2.seq = m2.seq /\ o2.req = m2.req
        /\ o2.historyHash = m2.historyHash
    BY DEF OrderReq
  <2>3. /\ m1.seq < Len(log) /\ m1.req = log[m1.seq + 1]
        /\ m2.seq < Len(log) /\ m2.req = log[m2.seq + 1]
    BY <2>1, <2>2, ConstantsAssumption DEF LogInv
  <2>4. /\ m1.seq \in Nat /\ m2.seq \in Nat
        /\ Len(log) \in Nat /\ DOMAIN log = 1..Len(log)
    BY ConstantsAssumption, LenProperties DEF TypeOK, Message
  <2>5. m1.seq + 1 = m2.seq + 1
    <3>1. m1.seq + 1 \in DOMAIN log /\ m2.seq + 1 \in DOMAIN log
      BY <2>3, <2>4
    <3> QED
      BY <2>3, <3>1 DEF Log!NoRepeats
  <2>6. m1.seq = m2.seq
    BY <2>4, <2>5
  <2> QED
    BY <2>1, <2>2, <2>6 DEF LogInv
<1> QED
  BY <1>1, <1>2, <1>3, LogCorrect, PTL DEF Spec

=============================================================================
