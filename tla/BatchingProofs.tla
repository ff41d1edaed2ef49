--------------------------- MODULE BatchingProofs ---------------------------
(***************************************************************************)
(* Theorems about Batching, for every number of servers and clients, batch *)
(* size and number of requests.                                            *)
(***************************************************************************)
EXTENDS Batching, SeqFacts, TLAPS

-----------------------------------------------------------------------------
(***************************************************************************)
(* Types                                                                   *)
(***************************************************************************)

\* Every step keeps the types.
LEMMA TypeStep == TypeOK /\ [Next]_vars => TypeOK'
<1> SUFFICES ASSUME TypeOK, [Next]_vars
             PROVE  TypeOK'
  OBVIOUS
<1>1. ASSUME NEW c \in Client, SendRequest(c)
      PROVE  TypeOK'
  <2>1. clock[c] + 1 \in 1..MaxTimestamp
    BY <1>1, BatchingAssumption DEF SendRequest, TypeOK
  <2>2. [to |-> Contact[c], req |-> [cId |-> c, timestamp |-> clock[c] + 1]]
          \in ReqMsg
    BY <2>1, BatchingAssumption DEF ReqMsg, Request
  <2> QED
    BY <1>1, <2>1, <2>2 DEF SendRequest, TypeOK
<1>2. ASSUME NEW m \in sent, ForwardToPrimary(m)
      PROVE  TypeOK'
  <2>1. Forwarded(m) \in ReqMsg
    BY BatchingAssumption DEF Forwarded, TypeOK, ReqMsg
  <2>2. sent' = sent \cup {Forwarded(m)}
    BY <1>2 DEF ForwardToPrimary
  <2>3. sent' \subseteq ReqMsg
    BY <2>1, <2>2 DEF TypeOK
  <2>4. UNCHANGED <<batchSize, clock, respCache, admitted, currentBatch,
                    timerArmed, launched, taken, ordered>>
    BY <1>2 DEF ForwardToPrimary
  <2> QED
    BY <2>3, <2>4, Zenon DEF TypeOK
<1>3. ASSUME NEW m \in sent, CheckTimestamp(m)
      PROVE  TypeOK'
  <2>1. /\ m.req \in Request
        /\ m.req.timestamp \in 0..MaxTimestamp
    BY BatchingAssumption DEF TypeOK, ReqMsg, Request
  <2>2. /\ respCache' \in [Client -> 0..MaxTimestamp]
        /\ admitted' \subseteq Request
    BY <1>3, <2>1 DEF CheckTimestamp, TypeOK
  <2>3. UNCHANGED <<batchSize, clock, sent, currentBatch, timerArmed,
                    launched, taken, ordered>>
    BY <1>3 DEF CheckTimestamp
  <2> QED
    BY <2>2, <2>3, Zenon DEF TypeOK
<1>4. ASSUME NEW r \in admitted, AddToBatch(r)
      PROVE  TypeOK'
  <2>1. r \in Request
    BY DEF TypeOK
  <2>2. currentBatch' \in Seq(Request)
    BY <1>4, <2>1, AppendProperties DEF AddToBatch, TypeOK
  <2>3. timerArmed' \in BOOLEAN
    BY <1>4, Zenon DEF AddToBatch
  <2>4. launched' \in Nat
    BY <1>4 DEF AddToBatch, TypeOK
  <2>5. /\ admitted' \subseteq admitted
        /\ UNCHANGED <<batchSize, clock, sent, respCache, taken, ordered>>
    BY <1>4 DEF AddToBatch
  <2> QED
    BY <2>2, <2>3, <2>4, <2>5, Zenon DEF TypeOK
<1>5. CASE TimerFires
  <2>1. launched' \in Nat
    BY <1>5 DEF TimerFires, TypeOK
  <2> QED
    BY <1>5, <2>1, Zenon DEF TimerFires, TypeOK
<1>6. CASE TakeBatch
  BY <1>6 DEF TakeBatch, BatchTaken, TypeOK
<1>7. ASSUME NEW batch \in taken, OrderBatch(batch)
      PROVE  TypeOK'
  <2>1. ordered \o batch \in Seq(Request)
    BY ConcatParts DEF TypeOK
  <2> QED
    BY <1>7, <2>1 DEF OrderBatch, TypeOK
<1>8. CASE UNCHANGED vars
  BY <1>8 DEF vars, TypeOK
<1> QED
  BY <1>1, <1>2, <1>3, <1>4, <1>5, <1>6, <1>7, <1>8 DEF Next

\* The state has its types in every behaviour of the primary's intake.
THEOREM TypeCorrect == Spec => []TypeOK
<1>1. Init => TypeOK
  <2>1. 0 \in 0..MaxTimestamp
    BY BatchingAssumption
  <2>2. <<>> \in Seq(Request)
    BY EmptySeq
  <2>3. [c \in Client |-> 0] \in [Client -> 0..MaxTimestamp]
    BY <2>1
  <2>4. 0 \in Nat
    OBVIOUS
  <2> QED
    BY <2>2, <2>3, <2>4, Zenon DEF Init, TypeOK
<1> QED
  BY <1>1, TypeStep, PTL DEF Spec

-----------------------------------------------------------------------------
(***************************************************************************)
(* The batch, its timer and the goroutines                                 *)
(***************************************************************************)

\* A batch that is not empty has a timer or a goroutine coming for it.
THEOREM NoStrandedBatchCorrect == Spec => []NoStrandedBatch
<1>1. Init => NoStrandedBatch
  BY DEF Init, NoStrandedBatch
<1>2. TypeOK /\ NoStrandedBatch /\ [Next]_vars => NoStrandedBatch'
  <2> SUFFICES ASSUME TypeOK, NoStrandedBatch, [Next]_vars
               PROVE  NoStrandedBatch'
    OBVIOUS
  <2>1. ASSUME NEW r \in admitted, AddToBatch(r)
        PROVE  timerArmed' \/ launched' > 0
    <3> DEFINE batch == Append(currentBatch, r)
    <3>1. r \in Request /\ launched \in Nat
      BY DEF TypeOK
    <3>2. CASE Full(batch)
      BY <2>1, <3>1, <3>2 DEF AddToBatch
    <3>3. CASE ~Full(batch) /\ currentBatch = <<>>
      <4>1. Len(currentBatch) = 0 /\ Len(batch) = 1
        BY <3>3
      <4>2. batchSize \in Int
        BY BatchingAssumption DEF TypeOK
      <4>3. StartsTimer
        BY <3>3, <4>1, <4>2 DEF Full, StartsTimer
      <4> QED
        BY <2>1, <3>3, <4>3 DEF AddToBatch
    <3>4. CASE ~Full(batch) /\ currentBatch # <<>>
      BY <2>1, <3>4 DEF AddToBatch, NoStrandedBatch
    <3> QED
      BY <3>2, <3>3, <3>4
  <2>2. CASE TimerFires
    BY <2>2 DEF TimerFires, TypeOK, NoStrandedBatch
  <2>3. CASE TakeBatch
    BY <2>3 DEF TakeBatch, NoStrandedBatch
  <2>4. CASE UNCHANGED <<currentBatch, timerArmed, launched>>
    BY <2>4 DEF NoStrandedBatch
  <2> QED
    BY <2>1, <2>2, <2>3, <2>4
       DEF Next, vars, NoStrandedBatch, SendRequest, ForwardToPrimary,
           CheckTimestamp, OrderBatch
<1> QED
  BY <1>1, <1>2, TypeCorrect, PTL DEF Spec

-----------------------------------------------------------------------------
(***************************************************************************)
(* Elements of sequences                                                   *)
(***************************************************************************)

\* The elements of a concatenation, and of a sequence with one more.
LEMMA ElementsOfConcat ==
  ASSUME NEW S, NEW s1 \in Seq(S), NEW s2 \in Seq(S)
  PROVE  RL!Elements(s1 \o s2) = RL!Elements(s1) \cup RL!Elements(s2)
<1>1. /\ Len(s1) \in Nat /\ Len(s2) \in Nat
      /\ DOMAIN s1 = 1..Len(s1) /\ DOMAIN s2 = 1..Len(s2)
      /\ DOMAIN (s1 \o s2) = 1..(Len(s1) + Len(s2))
      /\ \A i \in 1..Len(s1) : (s1 \o s2)[i] = s1[i]
      /\ \A j \in 1..Len(s2) : (s1 \o s2)[Len(s1) + j] = s2[j]
  BY ConcatParts, LenProperties
<1>2. ASSUME NEW e \in RL!Elements(s1 \o s2)
      PROVE  e \in RL!Elements(s1) \cup RL!Elements(s2)
  <2>1. PICK i \in 1..(Len(s1) + Len(s2)) : e = (s1 \o s2)[i]
    BY <1>1 DEF RL!Elements
  <2>2. CASE i \in 1..Len(s1)
    BY <1>1, <2>1, <2>2 DEF RL!Elements
  <2>3. CASE ~(i \in 1..Len(s1))
    <3>1. i - Len(s1) \in 1..Len(s2) /\ i = Len(s1) + (i - Len(s1))
      BY <1>1, <2>3
    <3> QED
      BY <1>1, <2>1, <3>1 DEF RL!Elements
  <2> QED
    BY <2>2, <2>3
<1>3. ASSUME NEW e \in RL!Elements(s1) \cup RL!Elements(s2)
      PROVE  e \in RL!Elements(s1 \o s2)
  <2>1. CASE e \in RL!Elements(s1)
    <3>1. PICK i \in 1..Len(s1) : e = s1[i]
      BY <1>1, <2>1 DEF RL!Elements
    <3>2. i \in DOMAIN (s1 \o s2) /\ e = (s1 \o s2)[i]
      BY <1>1, <3>1
    <3> QED
      BY <3>2 DEF RL!Elements
  <2>2. CASE e \in RL!Elements(s2)
    <3>1. PICK j \in 1..Len(s2) : e = s2[j]
      BY <1>1, <2>2 DEF RL!Elements
    <3>2. Len(s1) + j \in DOMAIN (s1 \o s2) /\ e = (s1 \o s2)[Len(s1) + j]
      BY <1>1, <3>1
    <3> QED
      BY <3>2 DEF RL!Elements
  <2> QED
    BY <2>1, <2>2
<1> QED
  BY <1>2, <1>3

LEMMA ElementsOfAppend ==
  ASSUME NEW S, NEW s \in Seq(S), NEW e \in S
  PROVE  RL!Elements(Append(s, e)) = RL!Elements(s) \cup {e}
<1>1. <<e>> \in Seq(S) /\ RL!Elements(<<e>>) = {e}
  BY DEF RL!Elements
<1>2. Append(s, e) = s \o <<e>>
  BY AppendIsConcat
<1>3. RL!Elements(s \o <<e>>) = RL!Elements(s) \cup RL!Elements(<<e>>)
  BY <1>1, ElementsOfConcat
<1> QED
  BY <1>1, <1>2, <1>3

LEMMA ElementsOfEmpty == RL!Elements(<<>>) = {}
BY DEF RL!Elements

\* A request that is not in a sequence may be added without a repetition.
LEMMA NoRepeatsAppend ==
  ASSUME NEW S, NEW s \in Seq(S), NEW e \in S,
         RL!NoRepeats(s), e \notin RL!Elements(s)
  PROVE  RL!NoRepeats(Append(s, e))
<1>1. /\ Len(s) \in Nat
      /\ DOMAIN s = 1..Len(s)
      /\ DOMAIN Append(s, e) = 1..(Len(s) + 1)
      /\ \A i \in 1..Len(s) : Append(s, e)[i] = s[i]
      /\ Append(s, e)[Len(s) + 1] = e
  BY AppendProperties, LenProperties
<1>2. \A i \in 1..Len(s) : s[i] # e
  BY <1>1 DEF RL!Elements
<1>3. \A i, j \in 1..Len(s) : i # j => s[i] # s[j]
  BY <1>1 DEF RL!NoRepeats
<1>4. \A i \in 1..(Len(s) + 1) : i \in 1..Len(s) \/ i = Len(s) + 1
  BY <1>1
<1>5. ASSUME NEW i \in 1..(Len(s) + 1), NEW j \in 1..(Len(s) + 1), i # j
      PROVE  Append(s, e)[i] # Append(s, e)[j]
  BY <1>1, <1>2, <1>3, <1>4, <1>5
<1> QED
  BY <1>1, <1>5 DEF RL!NoRepeats

-----------------------------------------------------------------------------
(***************************************************************************)
(* Nothing is dropped                                                      *)
(***************************************************************************)

\* The requests in batches between the two locks of processBatch.
InTaken == UNION {RL!Elements(batch) : batch \in taken}

\* No step loses an accepted request.
THEOREM NothingDroppedCorrect == Spec => NothingDropped
<1>1. TypeOK /\ [Next]_vars => [Accepted \subseteq Accepted']_vars
  <2> SUFFICES ASSUME TypeOK, Next
               PROVE  Accepted \subseteq Accepted'
    BY DEF vars
  <2>1. Accepted = admitted \cup RL!Elements(currentBatch)
                     \cup RL!Elements(ordered) \cup InTaken
    BY DEF Accepted, InTaken
  <2>2. ASSUME NEW c \in Client, SendRequest(c)
        PROVE  Accepted \subseteq Accepted'
    BY <2>2 DEF SendRequest, Accepted
  <2>3. ASSUME NEW m \in sent, ForwardToPrimary(m)
        PROVE  Accepted \subseteq Accepted'
    BY <2>3 DEF ForwardToPrimary, Accepted
  <2>4. ASSUME NEW m \in sent, CheckTimestamp(m)
        PROVE  Accepted \subseteq Accepted'
    BY <2>4 DEF CheckTimestamp, Accepted
  <2>5. ASSUME NEW r \in admitted, AddToBatch(r)
        PROVE  Accepted \subseteq Accepted'
    <3>1. RL!Elements(currentBatch') = RL!Elements(currentBatch) \cup {r}
      BY <2>5, ElementsOfAppend DEF AddToBatch, TypeOK
    <3> QED
      BY <2>5, <3>1 DEF AddToBatch, Accepted
  <2>6. CASE TimerFires
    BY <2>6 DEF TimerFires, Accepted
  <2>7. CASE TakeBatch
    <3>1. currentBatch # <<>> => currentBatch \in taken'
      BY <2>7 DEF TakeBatch, BatchTaken
    <3>2. RL!Elements(currentBatch) \subseteq InTaken'
      BY <3>1, ElementsOfEmpty DEF InTaken
    <3>3. \A batch \in taken : batch \in taken' \/ RL!Elements(batch) = {}
      BY <2>7, ElementsOfEmpty DEF TakeBatch
    <3>4. InTaken \subseteq InTaken'
      BY <3>3 DEF InTaken
    <3>5. admitted' = admitted /\ ordered' = ordered
      BY <2>7 DEF TakeBatch
    <3> QED
      BY <2>1, <3>2, <3>4, <3>5 DEF Accepted, InTaken
  <2>8. ASSUME NEW b \in taken, OrderBatch(b)
        PROVE  Accepted \subseteq Accepted'
    <3>1. RL!Elements(ordered') = RL!Elements(ordered) \cup RL!Elements(b)
      BY <2>8, ElementsOfConcat DEF OrderBatch, TypeOK
    <3>2. taken' = taken \ {b}
      BY <2>8 DEF OrderBatch
    <3>3. InTaken \subseteq InTaken' \cup RL!Elements(b)
      BY <3>2 DEF InTaken
    <3>4. admitted' = admitted /\ currentBatch' = currentBatch
      BY <2>8 DEF OrderBatch
    <3> QED
      BY <2>1, <3>1, <3>3, <3>4 DEF Accepted, InTaken
  <2> QED
    BY <2>2, <2>3, <2>4, <2>5, <2>6, <2>7, <2>8 DEF Next
<1> QED
  BY <1>1, TypeCorrect, PTL DEF Spec, NothingDropped

-----------------------------------------------------------------------------
(***************************************************************************)
(* What was overtaken stays out                                            *)
(***************************************************************************)

\* Only the timestamp check lets a request into the pipeline; the later steps
\* move requests from one stage of it to the next.
LEMMA OnlyCheckAccepts ==
  ASSUME TypeOK, Next
  PROVE  \/ Accepted' \subseteq Accepted
         \/ \E m \in sent : CheckTimestamp(m) /\ Accepted' = Accepted \cup {m.req}
<1>1. /\ Accepted = admitted \cup RL!Elements(currentBatch)
                      \cup RL!Elements(ordered) \cup InTaken
      /\ Accepted' = admitted' \cup RL!Elements(currentBatch')
                       \cup RL!Elements(ordered') \cup InTaken'
  BY DEF Accepted, InTaken
<1>2. ASSUME UNCHANGED <<admitted, currentBatch, taken, ordered>>
      PROVE  Accepted' \subseteq Accepted
  BY <1>2 DEF Accepted
<1>3. ASSUME NEW m \in sent, CheckTimestamp(m)
      PROVE  Accepted' = Accepted \cup {m.req}
  BY <1>3 DEF CheckTimestamp, Accepted
<1>4. ASSUME NEW r \in admitted, AddToBatch(r)
      PROVE  Accepted' \subseteq Accepted
  <2>1. RL!Elements(currentBatch') = RL!Elements(currentBatch) \cup {r}
    BY <1>4, ElementsOfAppend DEF AddToBatch, TypeOK
  <2> QED
    BY <1>4, <2>1 DEF AddToBatch, Accepted
<1>5. ASSUME TakeBatch
      PROVE  Accepted' \subseteq Accepted
  <2>1. /\ taken' \subseteq taken \cup {currentBatch}
        /\ currentBatch' = <<>>
        /\ UNCHANGED <<admitted, ordered>>
    BY <1>5 DEF TakeBatch, BatchTaken
  <2>2. InTaken' \subseteq InTaken \cup RL!Elements(currentBatch)
    BY <2>1 DEF InTaken
  <2> QED
    BY <1>1, <2>1, <2>2, ElementsOfEmpty
<1>6. ASSUME NEW b \in taken, OrderBatch(b)
      PROVE  Accepted' \subseteq Accepted
  <2>1. /\ taken' \subseteq taken
        /\ UNCHANGED <<admitted, currentBatch>>
    BY <1>6 DEF OrderBatch
  <2>2. RL!Elements(ordered') = RL!Elements(ordered) \cup RL!Elements(b)
    BY <1>6, ElementsOfConcat DEF OrderBatch, TypeOK
  <2>3. InTaken' \subseteq InTaken /\ RL!Elements(b) \subseteq InTaken
    BY <2>1 DEF InTaken
  <2> QED
    BY <1>1, <2>1, <2>2, <2>3
<1> QED
  BY <1>2, <1>3, <1>4, <1>5, <1>6
     DEF Next, SendRequest, ForwardToPrimary, TimerFires

\* What the response cache knows it never forgets.
LEMMA CacheGrows ==
  ASSUME TypeOK, Next, NEW c \in Client
  PROVE  /\ respCache[c] \in Nat /\ respCache'[c] \in Nat
         /\ respCache[c] <= respCache'[c]
<1>1. respCache[c] \in Nat
  BY BatchingAssumption DEF TypeOK
<1>2. ASSUME NEW m \in sent, CheckTimestamp(m)
      PROVE  respCache'[c] \in Nat /\ respCache[c] <= respCache'[c]
  <2>1. m.req.cId \in Client /\ m.req.timestamp \in Nat
    BY BatchingAssumption DEF TypeOK, ReqMsg, Request
  <2> QED
    BY <1>1, <1>2, <2>1 DEF CheckTimestamp, IsNew, TypeOK
<1> QED
  BY <1>1, <1>2 DEF Next, SendRequest, ForwardToPrimary, AddToBatch,
                    TimerFires, TakeBatch, OrderBatch

\* A request that a later one of its client overtook stays out of the
\* pipeline.
THEOREM OvertakenForGoodCorrect == Spec => OvertakenForGood
<1> DEFINE StaysOut ==
             \A r \in Request \ Accepted :
               r.timestamp <= respCache[r.cId] =>
                 r \notin Accepted' /\ r.timestamp <= respCache'[r.cId]
<1>1. TypeOK /\ [Next]_vars => [StaysOut]_vars
  <2> SUFFICES ASSUME TypeOK, Next, NEW r \in Request \ Accepted,
                      r.timestamp <= respCache[r.cId]
               PROVE  /\ r \notin Accepted'
                      /\ r.timestamp <= respCache'[r.cId]
    OBVIOUS
  <2>1. r.cId \in Client /\ r.timestamp \in Nat
    BY BatchingAssumption DEF Request
  <2>2. /\ respCache[r.cId] \in Nat /\ respCache'[r.cId] \in Nat
        /\ respCache[r.cId] <= respCache'[r.cId]
    BY <2>1, CacheGrows
  <2>3. ASSUME NEW m \in sent, CheckTimestamp(m)
        PROVE  r # m.req
    BY <2>1, <2>2, <2>3 DEF CheckTimestamp, IsNew
  <2>4. r \notin Accepted'
    BY <2>3, OnlyCheckAccepts
  <2> QED
    BY <2>1, <2>2, <2>4
<1> QED
  BY <1>1, TypeCorrect, PTL DEF Spec, OvertakenForGood

-----------------------------------------------------------------------------
(***************************************************************************)
(* The pipeline implements the log                                         *)
(***************************************************************************)

\* An accepted request is nowhere twice: it is between the sections of its
\* handler, in the batch, in one batch that was taken, or ordered.
StagesInv ==
  /\ admitted \cap RL!Elements(currentBatch) = {}
  /\ admitted \cap RL!Elements(ordered) = {}
  /\ RL!Elements(currentBatch) \cap RL!Elements(ordered) = {}
  /\ RL!NoRepeats(currentBatch)
  /\ \A b \in taken :
       /\ b # <<>>
       /\ RL!NoRepeats(b)
       /\ RL!Elements(b) \cap admitted = {}
       /\ RL!Elements(b) \cap RL!Elements(currentBatch) = {}
       /\ RL!Elements(b) \cap RL!Elements(ordered) = {}
  /\ \A b1, b2 \in taken :
       b1 # b2 => RL!Elements(b1) \cap RL!Elements(b2) = {}

\* The response cache knows every accepted request.
CacheInv == \A r \in Accepted : r.timestamp <= respCache[r.cId]

\* Accepted requests are requests.
LEMMA AcceptedType ==
  ASSUME TypeOK
  PROVE  Accepted \subseteq Request
<1>1. \A s \in Seq(Request) : RL!Elements(s) \subseteq Request
  BY ElementOfSeq, LenProperties DEF RL!Elements
<1>2. UNION {RL!Elements(batch) : batch \in taken} \subseteq Request
  BY <1>1 DEF TypeOK
<1> QED
  BY <1>1, <1>2 DEF Accepted, TypeOK

\* Every step keeps the two invariants.
LEMMA StagesStep ==
  TypeOK /\ CacheInv /\ StagesInv /\ [Next]_vars => CacheInv' /\ StagesInv'
<1> SUFFICES ASSUME TypeOK, CacheInv, StagesInv, [Next]_vars
             PROVE  CacheInv' /\ StagesInv'
  OBVIOUS
<1>1. ASSUME UNCHANGED <<respCache, admitted, currentBatch, taken, ordered>>
      PROVE  CacheInv' /\ StagesInv'
  BY <1>1 DEF CacheInv, StagesInv, Accepted
<1>2. ASSUME NEW m \in sent, CheckTimestamp(m)
      PROVE  CacheInv' /\ StagesInv'
  <2> DEFINE r == m.req
  <2>1. /\ r.cId \in Client
        /\ r.timestamp \in 1..MaxTimestamp
    BY DEF TypeOK, ReqMsg, Request
  <2>2. respCache[r.cId] < r.timestamp /\ respCache[r.cId] \in 0..MaxTimestamp
    BY <1>2, <2>1 DEF CheckTimestamp, IsNew, TypeOK
  <2>3. /\ respCache' = [respCache EXCEPT ![r.cId] = r.timestamp]
        /\ admitted' = admitted \cup {r}
        /\ UNCHANGED <<currentBatch, taken, ordered>>
    BY <1>2 DEF CheckTimestamp
  <2>4. r \notin Accepted
    BY <2>1, <2>2, BatchingAssumption DEF CacheInv
  <2>5. CacheInv'
    <3>1. Accepted' \subseteq Accepted \cup {r}
      BY <2>3 DEF Accepted
    <3> SUFFICES ASSUME NEW q \in Accepted \cup {r}
                 PROVE  q.timestamp <= respCache'[q.cId]
      BY <3>1 DEF CacheInv
    <3>2. CASE q = r
      BY <2>1, <2>3, <3>2, BatchingAssumption DEF TypeOK
    <3>3. CASE q \in Accepted
      <4>1. q \in Request /\ q.timestamp <= respCache[q.cId]
        BY <3>3, AcceptedType DEF CacheInv
      <4>2. /\ q.cId \in Client /\ q.timestamp \in 1..MaxTimestamp
            /\ respCache[q.cId] \in 0..MaxTimestamp
        BY <4>1 DEF Request, TypeOK
      <4>3. CASE q.cId = r.cId
        <5>1. respCache'[q.cId] = r.timestamp
          BY <2>1, <2>3, <4>3 DEF TypeOK
        <5>2. respCache[q.cId] < r.timestamp
          BY <2>2, <4>3
        <5> QED
          BY <2>1, <4>1, <4>2, <5>1, <5>2, BatchingAssumption
      <4>4. CASE q.cId # r.cId
        BY <2>3, <4>1, <4>2, <4>4 DEF TypeOK
      <4> QED
        BY <4>3, <4>4
    <3> QED
      BY <3>2, <3>3
  <2>6. /\ r \notin RL!Elements(currentBatch)
        /\ r \notin RL!Elements(ordered)
        /\ \A b \in taken : r \notin RL!Elements(b)
    BY <2>4 DEF Accepted
  <2>7. StagesInv'
    BY <2>3, <2>6 DEF StagesInv
  <2> QED
    BY <2>5, <2>7
<1>3. ASSUME NEW r \in admitted, AddToBatch(r)
      PROVE  CacheInv' /\ StagesInv'
  <2>1. /\ admitted' = admitted \ {r}
        /\ currentBatch' = Append(currentBatch, r)
        /\ UNCHANGED <<respCache, taken, ordered>>
    BY <1>3 DEF AddToBatch
  <2>2. r \in Request /\ currentBatch \in Seq(Request)
    BY DEF TypeOK
  <2>3. RL!Elements(currentBatch') = RL!Elements(currentBatch) \cup {r}
    BY <2>1, <2>2, ElementsOfAppend
  <2>4. RL!NoRepeats(currentBatch')
    BY <2>1, <2>2, NoRepeatsAppend DEF StagesInv
  <2>5. CacheInv'
    BY <2>1, <2>3 DEF CacheInv, Accepted
  <2>6. StagesInv'
    BY <2>1, <2>3, <2>4 DEF StagesInv
  <2> QED
    BY <2>5, <2>6
<1>4. CASE TakeBatch
  <2>1. /\ taken' = (taken \cup {currentBatch}) \ {<<>>}
        /\ currentBatch' = <<>>
        /\ UNCHANGED <<respCache, admitted, ordered>>
    BY <1>4 DEF TakeBatch, BatchTaken
  <2>2. RL!Elements(currentBatch') = {} /\ RL!NoRepeats(currentBatch')
    BY <2>1, ElementsOfEmpty DEF RL!NoRepeats
  <2>3. Accepted' \subseteq Accepted
    BY <2>1, <2>2 DEF Accepted
  <2>4. CacheInv'
    BY <2>1, <2>3 DEF CacheInv
  <2>5. StagesInv'
    BY <2>1, <2>2 DEF StagesInv
  <2> QED
    BY <2>4, <2>5
<1>5. ASSUME NEW b \in taken, OrderBatch(b)
      PROVE  CacheInv' /\ StagesInv'
  <2>1. /\ taken' = taken \ {b}
        /\ ordered' = ordered \o b
        /\ UNCHANGED <<respCache, admitted, currentBatch>>
    BY <1>5 DEF OrderBatch
  <2>2. RL!Elements(ordered') = RL!Elements(ordered) \cup RL!Elements(b)
    BY <2>1, ElementsOfConcat DEF TypeOK
  <2>3. Accepted' \subseteq Accepted
    BY <2>1, <2>2 DEF Accepted
  <2>4. CacheInv'
    BY <2>1, <2>3 DEF CacheInv
  <2>5. StagesInv'
    BY <2>1, <2>2 DEF StagesInv
  <2> QED
    BY <2>4, <2>5
<1> QED
  BY <1>1, <1>2, <1>3, <1>4, <1>5
     DEF Next, vars, SendRequest, ForwardToPrimary, TimerFires

\* A batch that is ordered is the next batch of the log.
LEMMA OrderBatchOrders ==
  ASSUME TypeOK, StagesInv, NEW b \in taken, OrderBatch(b)
  PROVE  RL!Order
<1>1. b \in Seq(Request) /\ ordered \in Seq(Request) /\ ordered' = ordered \o b
  BY DEF TypeOK, OrderBatch
<1>2. SubSeq(ordered', Len(ordered) + 1, Len(ordered')) = b
  BY <1>1, ConcatGain
<1>3. RL!Elements(b) \subseteq Request
  BY <1>1, ElementOfSeq, LenProperties DEF RL!Elements
<1>4. RL!FreshBatch(b, ordered)
  BY <1>3 DEF StagesInv, RL!FreshBatch
<1> QED
  BY <1>1, <1>2, <1>4 DEF RL!Order

LEMMA StagesCorrect == Spec => [](TypeOK /\ CacheInv /\ StagesInv)
<1>1. Init => CacheInv /\ StagesInv
  BY ElementsOfEmpty
     DEF Init, CacheInv, StagesInv, Accepted, RL!NoRepeats
<1>2. TypeOK /\ CacheInv /\ StagesInv /\ [Next]_vars => CacheInv' /\ StagesInv'
  BY StagesStep
<1> QED
  BY <1>1, <1>2, TypeCorrect, PTL DEF Spec

\* The primary's intake implements the log: one that only grows, batch by
\* batch, and in which no request occurs twice.
THEOREM RequestLogImplemented == Spec => ImplementsRequestLog
<1>1. Init => RL!Init
  BY DEF Init, RL!Init
<1>2. TypeOK /\ StagesInv /\ [Next]_vars => [RL!Order]_ordered
  BY OrderBatchOrders
     DEF Next, vars, SendRequest, ForwardToPrimary, CheckTimestamp,
         AddToBatch, TimerFires, TakeBatch
<1> QED
  BY <1>1, <1>2, StagesCorrect, PTL DEF Spec, ImplementsRequestLog, RL!Spec

-----------------------------------------------------------------------------
(***************************************************************************)
(* Nothing is accepted that was not sent                                   *)
(***************************************************************************)

\* Neither a message nor the response cache is ahead of a client's clock.
ClockInv ==
  /\ \A m \in sent : m.req.timestamp <= clock[m.req.cId]
  /\ \A c \in Client : respCache[c] <= clock[c]

LEMMA ClockStep == TypeOK /\ ClockInv /\ [Next]_vars => ClockInv'
<1> SUFFICES ASSUME TypeOK, ClockInv, [Next]_vars PROVE ClockInv'
  OBVIOUS
<1>0. \A m \in sent : m.req.cId \in Client /\ m.req.timestamp \in Nat
  BY BatchingAssumption DEF TypeOK, ReqMsg, Request
<1>1. ASSUME NEW c \in Client, SendRequest(c) PROVE ClockInv'
  <2>1. \A d \in Client : clock[d] \in Nat /\ respCache[d] \in Nat
    BY BatchingAssumption DEF TypeOK
  <2>2. /\ \A d \in Client : clock'[d] = IF d = c THEN clock[c] + 1 ELSE clock[d]
        /\ respCache' = respCache
    BY <1>1 DEF SendRequest, TypeOK
  <2>3. \A d \in Client : clock[d] <= clock'[d]
    BY <2>1, <2>2
  <2>4. \A d \in Client : clock'[d] \in Nat
    BY <2>1, <2>2
  <2>5. \A d \in Client : respCache'[d] <= clock'[d]
    BY <2>1, <2>2, <2>3, <2>4 DEF ClockInv
  <2>6. \A m \in sent : m.req.timestamp <= clock'[m.req.cId]
    BY <1>0, <2>1, <2>3, <2>4 DEF ClockInv
  <2>7. \A m \in sent' : m \in sent \/ (m.req.cId = c /\ m.req.timestamp = clock'[c])
    BY <1>1, <2>2 DEF SendRequest
  <2> QED BY <2>4, <2>5, <2>6, <2>7 DEF ClockInv
<1>2. ASSUME NEW m \in sent, ForwardToPrimary(m) PROVE ClockInv'
  <2>1. Forwarded(m).req = m.req
    BY DEF TypeOK, ReqMsg, Forwarded
  <2>2. /\ sent' = sent \cup {Forwarded(m)}
        /\ UNCHANGED <<clock, respCache>>
    BY <1>2 DEF ForwardToPrimary
  <2> QED BY <2>1, <2>2 DEF ClockInv
<1>3. ASSUME NEW m \in sent, CheckTimestamp(m) PROVE ClockInv'
  BY <1>0, <1>3 DEF CheckTimestamp, ClockInv, TypeOK
<1>4. ASSUME UNCHANGED <<clock, sent, respCache>> PROVE ClockInv'
  BY <1>4 DEF ClockInv
<1> QED
  BY <1>1, <1>2, <1>3, <1>4
     DEF Next, vars, AddToBatch, TimerFires, TakeBatch, OrderBatch

\* What was accepted was sent before: by its client's clock, it is not of the
\* future.
LEMMA AcceptedWasSent ==
  Spec => [](\A r \in Accepted : r \in Request /\ r.timestamp <= clock[r.cId])
<1>1. Init => ClockInv
  BY DEF Init, ClockInv
<1>2. TypeOK /\ CacheInv /\ ClockInv
        => \A r \in Accepted : r \in Request /\ r.timestamp <= clock[r.cId]
  <2> SUFFICES ASSUME TypeOK, CacheInv, ClockInv, NEW r \in Accepted
               PROVE  r \in Request /\ r.timestamp <= clock[r.cId]
    OBVIOUS
  <2>1. r \in Request
    BY AcceptedType
  <2>2. r.cId \in Client /\ r.timestamp \in Nat
    BY <2>1, BatchingAssumption DEF Request
  <2>3. respCache[r.cId] \in Nat /\ clock[r.cId] \in Nat
    BY <2>2, BatchingAssumption DEF TypeOK
  <2>4. r.timestamp <= respCache[r.cId] /\ respCache[r.cId] <= clock[r.cId]
    BY <2>2 DEF CacheInv, ClockInv
  <2> QED BY <2>1, <2>2, <2>3, <2>4
<1> QED BY <1>1, <1>2, ClockStep, StagesCorrect, PTL DEF Spec
=============================================================================
