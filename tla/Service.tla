------------------------------- MODULE Service -------------------------------
(***************************************************************************)
(* What clients and servers promise together: requests that clients issued *)
(* are put into one log, without repetition; every server executes a       *)
(* prefix of it (Ledger); and a request succeeds at its client at most     *)
(* once, when the primary has executed it.                                 *)
(*                                                                         *)
(* Zyzzyva (clients, the primary's intake, and replication composed)       *)
(* implements this specification.                                          *)
(***************************************************************************)
EXTENDS Integers, Sequences

CONSTANTS Server, Primary, Request

VARIABLES
  issued,       \* the requests that clients have sent
  executed,     \* executed[s]: the requests server s has executed
  succeeded     \* the requests that clients counted as successful

vars == <<issued, executed, succeeded>>

L == INSTANCE Ledger

Elements(s) == {s[i] : i \in DOMAIN s}

Init == issued = {} /\ L!Init /\ succeeded = {}

Issue ==
  /\ \E r \in Request \ issued : issued' = issued \cup {r}
  /\ UNCHANGED <<executed, succeeded>>

Order ==
  /\ L!Order
  /\ Elements(executed'[Primary]) \subseteq issued
  /\ UNCHANGED <<issued, succeeded>>

Execute(s) == L!Execute(s) /\ UNCHANGED <<issued, succeeded>>

Succeed ==
  /\ \E r \in Elements(executed[Primary]) \ succeeded :
       succeeded' = succeeded \cup {r}
  /\ UNCHANGED <<issued, executed>>

Next == Issue \/ Order \/ (\E s \in Server : Execute(s)) \/ Succeed

Spec == Init /\ [][Next]_vars
=============================================================================
