------------------------------- MODULE MCClient -------------------------------
(***************************************************************************)
(* Instances of Client for TLC: the constants are numbers, and the .cfg    *)
(* files give them their values.                                           *)
(***************************************************************************)
EXTENDS Client
=============================================================================
