----------------------------- MODULE RequestTally -----------------------------
(***************************************************************************)
(* What clients promise about their requests: each is registered once, and *)
(* completes at most once, after it was registered.                        *)
(*                                                                         *)
(* Client (its response goroutine, its main loop, repeated responses)      *)
(* implements this specification; Zyzzyva takes its steps for the clients. *)
(***************************************************************************)
CONSTANTS Client, Timestamp

VARIABLES
  waiting,     \* waiting[c]: the requests of c that are registered
  answered     \* answered[c]: those that were counted as successful

Init ==
  /\ waiting = [c \in Client |-> {}]
  /\ answered = [c \in Client |-> {}]

Register(c, t) ==
  /\ t \notin waiting[c] \cup answered[c]
  /\ waiting' = [waiting EXCEPT ![c] = @ \cup {t}]
  /\ UNCHANGED answered

Complete(c, t) ==
  /\ t \in waiting[c]
  /\ waiting' = [waiting EXCEPT ![c] = @ \ {t}]
  /\ answered' = [answered EXCEPT ![c] = @ \cup {t}]

Next == \E c \in Client, t \in Timestamp : Register(c, t) \/ Complete(c, t)

Spec == Init /\ [][Next]_<<waiting, answered>>
=============================================================================
