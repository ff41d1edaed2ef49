----------------------------- MODULE MCDeployment -----------------------------
(***************************************************************************)
(* Instances of Deployment for TLC: servers 0 and 1 and client 2.  Ports   *)
(* are small numbers, and the environment sets what the instance varies.   *)
(***************************************************************************)
EXTENDS Deployment

CONSTANTS unset

Servers == {0, 1}
Processes == Servers \cup {2}

Flags == [p \in Processes |-> IF p = 0 THEN 2 ELSE unset]

\* One to four servers and a client.
Settings ==
  {v \in [{"F", "N", "M"} -> {unset, 0, 2}] :
     /\ v["F"] # 2
     /\ v["N"] = IF v["F"] = 0 THEN unset ELSE v["N"]
     /\ v["N"] # 0
     /\ v["M"] = unset}
=============================================================================
