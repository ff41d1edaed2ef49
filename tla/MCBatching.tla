----------------------------- MODULE MCBatching -----------------------------
(***************************************************************************)
(* Instances of Batching for TLC: one client sends to the primary, the     *)
(* other to a server that forwards.                                        *)
(***************************************************************************)
EXTENDS Batching

CONSTANTS s0, s1, c1, c2

Servers == {s0, s1}
Clients == {c1, c2}
Contacts == [c \in Clients |-> IF c = c1 THEN s0 ELSE s1]
=============================================================================
