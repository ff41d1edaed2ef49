--------------------------- MODULE MCReplication ---------------------------
(***************************************************************************)
(* Instances of Replication for TLC.  The servers other than the primary   *)
(* are interchangeable, and so are the requests.                           *)
(***************************************************************************)
EXTENDS Replication, TLC

Symmetry == Permutations(Server \ {Primary}) \cup Permutations(Request)
=============================================================================
