----------------------------- MODULE RequestLog -----------------------------
(***************************************************************************)
(* What the primary promises about the order of client requests: one log   *)
(* that only grows, batch by batch, and in which no request occurs twice.  *)
(*                                                                         *)
(* Batching (handler goroutines, timer, response cache) implements this    *)
(* specification; Ledger takes its Order step as the primary's step.       *)
(***************************************************************************)
EXTENDS Integers, Sequences

CONSTANT Request     \* the client requests

VARIABLE log         \* the requests in the order the primary gave them

Elements(s) == {s[i] : i \in DOMAIN s}

NoRepeats(s) == \A i, j \in DOMAIN s : i # j => s[i] # s[j]

\* A batch that may follow the log l: not empty, nothing twice, and nothing
\* that l already holds.
FreshBatch(batch, l) ==
  /\ batch # <<>>
  /\ NoRepeats(batch)
  /\ Elements(batch) \subseteq Request
  /\ Elements(batch) \cap Elements(l) = {}

Init == log = <<>>

\* The batch is what the log gained in the step.
Order ==
  LET batch == SubSeq(log', Len(log) + 1, Len(log'))
  IN  /\ log' = log \o batch
      /\ FreshBatch(batch, log)

Spec == Init /\ [][Order]_log
=============================================================================
