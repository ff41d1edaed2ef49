------------------------------- MODULE Ledger -------------------------------
(***************************************************************************)
(* What the servers promise together: every server executes a prefix of    *)
(* the one log that the primary builds.  The primary executes what it      *)
(* orders at once; another server executes the next entry of the log or    *)
(* nothing.  Nothing executed is ever undone, replaced or repeated.        *)
(*                                                                         *)
(* Replication (sequence numbers, hash chain, checkpoints, an unreliable   *)
(* network) implements this specification.                                 *)
(***************************************************************************)
EXTENDS Integers, Sequences

CONSTANTS Server, Primary, Request

VARIABLE executed    \* executed[s]: the requests server s has executed

Log == INSTANCE RequestLog WITH log <- executed[Primary]

Init == executed = [s \in Server |-> <<>>]

Order ==
  /\ Log!Order
  /\ executed' = [executed EXCEPT ![Primary] = executed'[Primary]]

Execute(s) ==
  /\ s # Primary
  /\ Len(executed[s]) < Len(executed[Primary])
  /\ executed' =
       [executed EXCEPT ![s] = Append(@, executed[Primary][Len(@) + 1])]

Next == Order \/ \E s \in Server : Execute(s)

Spec == Init /\ [][Next]_executed
=============================================================================
