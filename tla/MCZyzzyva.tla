------------------------------ MODULE MCZyzzyva ------------------------------
(***************************************************************************)
(* An instance of Zyzzyva for TLC: a client whose requests are forwarded   *)
(* to the primary.                                                         *)
(***************************************************************************)
EXTENDS Zyzzyva

CONSTANTS s0, s1, c1

Contacts == [c \in Client |-> s1]
=============================================================================
