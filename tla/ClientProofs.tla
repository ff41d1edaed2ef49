---------------------------- MODULE ClientProofs ----------------------------
(***************************************************************************)
(* What TLAPS proves of Client, for every number of requests and every     *)
(* capacity of the response channel: type correctness, and that the        *)
(* counters agree with what happened.                                      *)
(***************************************************************************)
EXTENDS Client, FiniteSetTheorems, TLAPS

\* A set of timestamps used so far is finite.
LEMMA FiniteTimestamps ==
  ASSUME NEW n \in Nat, NEW S, S \subseteq 0..n
  PROVE  IsFiniteSet(S) /\ Cardinality(S) \in Nat
<1>1. IsFiniteSet(0..n)
  BY FS_Interval
<1>2. IsFiniteSet(S)
  BY <1>1, FS_Subset, Zenon
<1> QED BY <1>2, FS_CardinalityType, Zenon

\* The types are preserved by every step.
LEMMA TypeStep == ASSUME TypeOK, [Next]_vars PROVE TypeOK'
<1> USE ClientAssumption DEF TypeOK, Stats, Caller, statVars
<1>1. CASE SendRequest
  BY <1>1 DEF SendRequest, handlerVars, stopVars
<1>2. CASE Register
  <2>1. inFlight \cup {clock} \subseteq 0..clock /\ clock \in Nat
    BY <1>2 DEF Register
  <2>2. Cardinality(inFlight \cup {clock}) \in Nat
    BY <2>1, FiniteTimestamps, Zenon
  <2> QED BY <1>2, <2>1, <2>2 DEF Register, handlerVars, stopVars
<1>3. CASE LeaveLoop
  BY <1>3 DEF LeaveLoop, handlerVars, stopVars
<1>4. CASE WaitTimesOut \/ FinishWaiting
  BY <1>4 DEF WaitTimesOut, FinishWaiting, handlerVars, stopVars
<1>5. CASE PrintStats
  BY <1>5 DEF PrintStats, handlerVars, stopVars
<1>6. CASE TakeResponse
  BY <1>6 DEF TakeResponse, stopVars
<1>7. CASE HandlerReturns
  BY <1>7 DEF HandlerReturns, stopVars
<1>8. CASE LookUp
  BY <1>8 DEF LookUp, stopVars
<1>9. CASE ProcessResponse
  BY <1>9 DEF ProcessResponse, stopVars
<1>10. CASE DeleteInFlight
  <2>1. inFlight \ {response} \subseteq 0..clock /\ clock \in Nat
    OBVIOUS
  <2>2. Cardinality(inFlight \ {response}) \in Nat
    BY <2>1, FiniteTimestamps, Zenon
  <2> QED BY <1>10, <2>1, <2>2 DEF DeleteInFlight, stopVars
<1>11. CASE Listen
  <2>1. CASE CheckStopChan
    BY <2>1 DEF CheckStopChan, handlerVars, stopVars
  <2>2. CASE ReadTimesOut
    BY <2>2 DEF ReadTimesOut, handlerVars, stopVars
  <2>3. CASE \E t \in 1..clock : ReceiveResponse(t)
    <3>1. PICK t \in 1..clock : ReceiveResponse(t)
      BY <2>3
    <3>2. responses' \in Seq(Nat) /\ Len(responses') <= Capacity
      BY <3>1 DEF ReceiveResponse, Queued
    <3> QED BY <3>1, <3>2 DEF ReceiveResponse, handlerVars, stopVars
  <2> QED BY <1>11, <2>1, <2>2, <2>3 DEF Listen
<1>12. CASE Signal
  BY <1>12 DEF Signal, handlerVars
<1>13. CASE \E p \in Caller : Stop(p)
  <2> PICK p \in Caller : Stop(p)
    BY <1>13
  <2>1. CASE CheckRunning(p)
    BY <2>1 DEF CheckRunning, handlerVars
  <2>2. CASE ClearRunning(p)
    BY <2>2 DEF ClearRunning, handlerVars
  <2>3. CASE CloseStopChan(p)
    BY <2>3 DEF CloseStopChan, handlerVars
  <2> QED BY <2>1, <2>2, <2>3 DEF Stop
<1>14. CASE UNCHANGED vars
  BY <1>14 DEF vars, handlerVars, stopVars
<1> QED
  BY <1>1, <1>2, <1>3, <1>4, <1>5, <1>6, <1>7, <1>8, <1>9, <1>10, <1>11,
     <1>12, <1>13, <1>14 DEF Next, Run, HandleResponses

-----------------------------------------------------------------------------
(***************************************************************************)
(* The inductive invariant behind Accounting.  A request is tracked under  *)
(* a timestamp that was never tracked before, and the response goroutine   *)
(* counts a request only while it is tracked, so the tracked and the       *)
(* counted requests have at most the one in common that is being removed.  *)
(***************************************************************************)
CountInv ==
  /\ Accounting
  /\ inFlight \cup answered \subseteq 0..clock
  /\ main = "register" => clock \notin inFlight \cup answered
  /\ handler \in {"process", "delete"} => response \in inFlight
  /\ inFlight \cap answered = IF handler = "delete" THEN {response} ELSE {}

\* Steps that touch neither the requests nor the counters nor the handler.
LEMMA CountIdle ==
  ASSUME CountInv,
         UNCHANGED <<clock, inFlight, statVars, handlerVars>>,
         main' = main \/ main' # "register"
  PROVE  CountInv'
BY DEF CountInv, Accounting, statVars, handlerVars

\* CountInv is preserved by every step.
LEMMA CountStep == ASSUME TypeOK, CountInv, [Next]_vars PROVE CountInv'
<1> USE DEF TypeOK
<1>0. /\ IsFiniteSet(inFlight) /\ Cardinality(inFlight) \in Nat
      /\ IsFiniteSet(answered) /\ Cardinality(answered) \in Nat
  <2>1. inFlight \subseteq 0..clock /\ answered \subseteq 0..clock /\ clock \in Nat
    BY DEF CountInv
  <2> QED BY <2>1, FiniteTimestamps, Zenon
<1>1. CASE SendRequest
  <2>1. clock + 1 \notin inFlight \cup answered
    BY DEF CountInv
  <2> QED
    BY <1>1, <2>1 DEF SendRequest, CountInv, Accounting, statVars, handlerVars
<1>2. CASE Register
  <2>1. clock \notin inFlight /\ clock \notin answered
    BY <1>2 DEF Register, CountInv
  <2>2. Cardinality(inFlight \cup {clock}) = Cardinality(inFlight) + 1
    BY <1>0, <2>1, FS_AddElement
  <2>3. Accounting'
    <3>1. inFlightStat' = Cardinality(inFlight') /\ inFlightStat' = inFlightStat + 1
      BY <1>2, <2>2 DEF Register, CountInv, Accounting
    <3>2. successful' = successful /\ answered' = answered /\ handler' = handler
      BY <1>2 DEF Register, handlerVars
    <3>3. total' = total + 1
      BY <1>2 DEF Register
    <3> QED BY <3>1, <3>2, <3>3 DEF CountInv, Accounting
  <2>4. (inFlight \cup {clock}) \cap answered = inFlight \cap answered
    BY <2>1
  <2> QED BY <1>2, <2>3, <2>4 DEF Register, CountInv, handlerVars
<1>3. CASE LeaveLoop
  BY <1>3, CountIdle DEF LeaveLoop
<1>4. CASE WaitTimesOut \/ FinishWaiting
  BY <1>4, CountIdle DEF WaitTimesOut, FinishWaiting
<1>5. CASE PrintStats
  BY <1>5, CountIdle DEF PrintStats
<1>6. CASE TakeResponse
  BY <1>6 DEF TakeResponse, CountInv, Accounting, statVars
<1>7. CASE HandlerReturns
  BY <1>7 DEF HandlerReturns, CountInv, Accounting, statVars
<1>8. CASE LookUp
  BY <1>8 DEF LookUp, Tracked, CountInv, Accounting, statVars
<1>9. CASE ProcessResponse
  <2>1. response \in inFlight /\ response \notin answered
    BY <1>9 DEF ProcessResponse, CountInv
  <2>2. Cardinality(answered \cup {response}) = Cardinality(answered) + 1
    BY <1>0, <2>1, FS_AddElement
  <2>3. Accounting'
    BY <1>0, <1>9, <2>2 DEF ProcessResponse, CountInv, Accounting
  <2>4. inFlight \cap (answered \cup {response}) = {response}
    BY <1>9, <2>1 DEF ProcessResponse, CountInv
  <2>5. inFlight \cup (answered \cup {response}) \subseteq 0..clock
    BY <2>1 DEF CountInv
  <2>6. main = "register" => clock \notin inFlight \cup (answered \cup {response})
    BY <2>1 DEF CountInv
  <2> QED
    BY <1>9, <2>1, <2>3, <2>4, <2>5, <2>6 DEF ProcessResponse, CountInv
<1>10. CASE DeleteInFlight
  <2>1. response \in inFlight /\ inFlight \cap answered = {response}
    BY <1>10 DEF DeleteInFlight, CountInv
  <2>2. Cardinality(inFlight \ {response}) = Cardinality(inFlight) - 1
    BY <1>0, <2>1, FS_RemoveElement
  <2>3. Accounting'
    <3>1. inFlightStat' = Cardinality(inFlight') /\ inFlightStat' = inFlightStat - 1
      BY <1>10, <2>2 DEF DeleteInFlight, CountInv, Accounting
    <3>2. /\ UNCHANGED <<total, successful, answered>>
          /\ handler = "delete" /\ handler' # "delete"
      BY <1>10 DEF DeleteInFlight
    <3> QED BY <3>1, <3>2 DEF CountInv, Accounting
  <2>4. (inFlight \ {response}) \cap answered = {}
    BY <2>1
  <2> QED BY <1>10, <2>3, <2>4 DEF DeleteInFlight, CountInv
<1>11. CASE Listen
  BY <1>11, CountIdle DEF Listen, CheckStopChan, ReadTimesOut, ReceiveResponse
<1>12. CASE Signal
  BY <1>12, CountIdle DEF Signal
<1>13. CASE \E p \in Caller : Stop(p)
  BY <1>13, CountIdle DEF Stop, CheckRunning, ClearRunning, CloseStopChan
<1>14. CASE UNCHANGED vars
  BY <1>14, CountIdle DEF vars
<1> QED
  BY <1>1, <1>2, <1>3, <1>4, <1>5, <1>6, <1>7, <1>8, <1>9, <1>10, <1>11,
     <1>12, <1>13, <1>14 DEF Next, Run, HandleResponses

-----------------------------------------------------------------------------
\* Every reachable state has the types of TypeOK.
THEOREM TypeCorrect == Spec => []TypeOK
<1>1. Init => TypeOK
  <2> SUFFICES ASSUME Init PROVE TypeOK
    OBVIOUS
  <2>1. clock \in 0..MaxSent /\ inFlight \subseteq 0..clock /\ answered \subseteq Nat
    BY ClientAssumption DEF Init
  <2>2. stop \in [Caller -> {"idle", "called", "clear", "close", "returned"}]
    BY DEF Init
  <2>3. responses \in Seq(Nat) /\ Len(responses) <= Capacity /\ saved \in Seq(Stats)
    BY ClientAssumption DEF Init
  <2> QED BY <2>1, <2>2, <2>3 DEF Init, TypeOK
<1>2. TypeOK /\ [Next]_vars => TypeOK'
  BY TypeStep
<1> QED BY <1>1, <1>2, PTL DEF Spec

\* The counters of the client count every registered request once.
THEOREM AccountingCorrect == Spec => []Accounting
<1>1. Init => CountInv
  BY ClientAssumption, FS_EmptySet DEF Init, CountInv, Accounting
<1>2. TypeOK /\ CountInv /\ [Next]_vars => CountInv'
  BY CountStep
<1>3. CountInv => Accounting
  BY DEF CountInv
<1> QED BY <1>1, <1>2, <1>3, TypeCorrect, PTL DEF Spec

\* The statistics a client saves add up.
THEOREM SavedAddsUpCorrect == Spec => []SavedAddsUp
<1>1. Init => SavedAddsUp
  BY DEF Init, SavedAddsUp
<1>2. TypeOK /\ Accounting /\ SavedAddsUp /\ [Next]_vars => SavedAddsUp'
  <2> SUFFICES ASSUME TypeOK, Accounting, SavedAddsUp, [Next]_vars
               PROVE  SavedAddsUp'
    OBVIOUS
  <2>1. CASE PrintStats
    <3>1. total = successful + inFlightStat
      BY <2>1 DEF PrintStats, Joined, Accounting, TypeOK
    <3> QED BY <2>1, <3>1 DEF PrintStats, SavedAddsUp
  <2>2. ~PrintStats => saved' = saved
    BY DEF Next, Run, HandleResponses, Listen, Stop, SendRequest, Register,
       LeaveLoop, WaitTimesOut, FinishWaiting, TakeResponse, HandlerReturns, LookUp,
       ProcessResponse, DeleteInFlight, CheckStopChan, ReadTimesOut,
       ReceiveResponse, Signal, CheckRunning, ClearRunning, CloseStopChan, vars
  <2> QED BY <2>1, <2>2 DEF SavedAddsUp
<1> QED BY <1>1, <1>2, TypeCorrect, AccountingCorrect, PTL DEF Spec

-----------------------------------------------------------------------------
(***************************************************************************)
(* The client implements the tally                                         *)
(***************************************************************************)

\* What the tally sees of the client.
Waiting == [c \in {"client"} |-> inFlight \ answered]
Answered == [c \in {"client"} |-> answered]

LEMMA RegisterTallies ==
  ASSUME TypeOK, CountInv, Register
  PROVE  Tally!Register("client", clock) /\ clock \in 0..MaxSent
<1>1. clock \notin inFlight \cup answered
  BY DEF Register, CountInv
<1>2. /\ inFlight' \ answered' = (inFlight \ answered) \cup {clock}
      /\ answered' = answered
  BY <1>1 DEF Register, handlerVars
<1>3. Waiting' = [Waiting EXCEPT !["client"] = @ \cup {clock}]
  BY <1>2 DEF Waiting
<1>4. Waiting["client"] = inFlight \ answered /\ Answered["client"] = answered
  BY DEF Waiting, Answered
<1>5. Answered' = Answered
  BY <1>2 DEF Answered
<1> QED BY <1>1, <1>3, <1>4, <1>5 DEF Tally!Register, Waiting, Answered, TypeOK

LEMMA ProcessResponseTallies ==
  ASSUME TypeOK, CountInv, ProcessResponse
  PROVE  Tally!Complete("client", response) /\ response \in 0..MaxSent
<1>1. response \in inFlight \ answered
  BY DEF ProcessResponse, CountInv
<1>2. /\ inFlight' \ answered' = (inFlight \ answered) \ {response}
      /\ answered' = answered \cup {response}
  BY DEF ProcessResponse
<1>3. /\ Waiting' = [Waiting EXCEPT !["client"] = @ \ {response}]
      /\ Answered' = [Answered EXCEPT !["client"] = @ \cup {response}]
  BY <1>2 DEF Waiting, Answered
<1>4. Waiting["client"] = inFlight \ answered
  BY DEF Waiting
<1>5. response \in 0..MaxSent
  BY <1>1, ClientAssumption DEF TypeOK
<1> QED BY <1>1, <1>3, <1>4, <1>5 DEF Tally!Complete, Waiting, Answered

\* Every other step leaves the tally as it is; deleting a request does so
\* because it was counted.
LEMMA OthersDoNotTally ==
  ASSUME CountInv, [Next]_vars, ~Register, ~ProcessResponse
  PROVE  /\ inFlight' \ answered' = inFlight \ answered
         /\ answered' = answered
<1>1. CASE DeleteInFlight
  <2>1. response \in answered
    BY <1>1 DEF DeleteInFlight, CountInv
  <2> QED BY <1>1, <2>1 DEF DeleteInFlight
<1>2. CASE ~DeleteInFlight
  BY <1>2
     DEF Next, Run, HandleResponses, Listen, Stop, SendRequest, LeaveLoop,
         WaitTimesOut, FinishWaiting, PrintStats, TakeResponse, HandlerReturns, LookUp,
         CheckStopChan, ReadTimesOut, ReceiveResponse, Signal, CheckRunning,
         ClearRunning, CloseStopChan, vars, handlerVars
<1> QED BY <1>1, <1>2

\* Requests are registered once and succeed at most once.
THEOREM ClientImplementsTally == Spec => ImplementsTally
<1>1. Init => Tally!Init
  BY DEF Init, Tally!Init
<1>2. TypeOK /\ CountInv /\ [Next]_vars
        => [Tally!Next]_<<Waiting, Answered>>
  <2> SUFFICES ASSUME TypeOK, CountInv, [Next]_vars
               PROVE  [Tally!Next]_<<Waiting, Answered>>
    OBVIOUS
  <2>1. CASE Register
    BY <2>1, RegisterTallies DEF Tally!Next
  <2>2. CASE ProcessResponse
    BY <2>2, ProcessResponseTallies DEF Tally!Next
  <2>3. CASE ~Register /\ ~ProcessResponse
    BY <2>3, OthersDoNotTally DEF Waiting, Answered
  <2> QED BY <2>1, <2>2, <2>3
<1>3. Spec => [](TypeOK /\ CountInv)
  <2>1. Init => CountInv
    BY ClientAssumption, FS_EmptySet DEF Init, CountInv, Accounting
  <2>2. TypeOK /\ CountInv /\ [Next]_vars => CountInv'
    BY CountStep
  <2> QED BY <2>1, <2>2, TypeCorrect, PTL DEF Spec
<1> QED
  BY <1>1, <1>2, <1>3, PTL
     DEF Spec, ImplementsTally, Tally!Spec, Waiting, Answered
=============================================================================
