----------------------------- MODULE ServerLocks -----------------------------
(***************************************************************************)
(* The goroutines of one server and its three mutexes: stateMu, batchMu    *)
(* and statsMu.  Replication and Batching take each section under a mutex  *)
(* as one action; here it is seen from lock to unlock, with the statistics *)
(* that the sections update, for what those models take for granted: that  *)
(* the sections exclude each other, and that everyone gets to run.         *)
(*                                                                         *)
(* Grain.  Waiting for a mutex, each access to the statistics, and each    *)
(* unlock is a step.  A mutex of Go has no owner the runtime knows of: who *)
(* unlocks it need not have locked it, and unlocking a free one is fatal   *)
(* to the process.                                                         *)
(*                                                                         *)
(* Abstractions.  A batch is its length.  Every branch that the contents   *)
(* of a message decide (outdated or not, a checkpoint due or not) may be   *)
(* taken.  processBatch under stateMu, handleOrderReq and handleCP lock    *)
(* alike, and share the place "ordering".  The server is the primary;      *)
(* another one forwards requests, and locks nothing for it.                *)
(***************************************************************************)
EXTENDS Integers, FiniteSetsExt

CONSTANTS
  Goroutine,    \* those that handle messages and run processBatch
  Main,         \* the one that waits for a signal and prints the statistics
  Free,         \* the owner of a free mutex
  MaxHandlers   \* bound: how many handlers and processBatch runs there are

ASSUME LocksAssumption ==
  /\ IsFiniteSet(Goroutine)
  /\ Main \notin Goroutine
  /\ Free \notin Goroutine \cup {Main}
  /\ MaxHandlers \in Nat

VARIABLES
  at,           \* at[g]: the place of goroutine g
  owner,        \* owner[m]: who locked mutex m and has not unlocked it
  process,      \* "running", or what put an end to the process
  handlers,     \* how many handlers were started
  batch,        \* the length of currentBatch
  due,          \* processBatch runs that a full batch or the timer may start
  size,         \* size[g]: the length of the batch g took and did not count
  batches, total, checkpoints,   \* the fields of stats that change
  report,       \* what PrintStats printed: {} or {[batches, total]}
  added,        \* history variable: how many requests joined a batch
  committed     \* history variable: a commit message was handled

statVars == <<batches, total, checkpoints>>
batchVars == <<batch, due, size, added>>
vars == <<at, owner, process, handlers, batchVars, statVars, report, committed>>

Thread == Goroutine \cup {Main}

Mutex == {"stateMu", "batchMu", "statsMu"}

Kind == {"request", "orderReq", "cp", "commit"}

\* Where handle sends a message of each kind.
Entry == [request |-> "admit", orderReq |-> "order", cp |-> "order",
          commit |-> "commit"]

\* The places where a goroutine waits for a mutex, and for which.
Wants ==
  [admit |-> "stateMu", add |-> "batchMu", take |-> "batchMu",
   count |-> "statsMu", order |-> "stateMu", checkpoint |-> "statsMu",
   commit |-> "stateMu", print |-> "statsMu"]

\* The place it reaches once it has that mutex.
Inside ==
  [admit |-> "admitting", add |-> "adding", take |-> "taking",
   count |-> "counting", order |-> "ordering", checkpoint |-> "checkpointing",
   commit |-> "committing", print |-> "printing"]

Waiting == DOMAIN Wants

Place == {"idle", "totalling", "leaving", "return"}
           \cup Waiting \cup {Inside[w] : w \in Waiting}

Init ==
  /\ at = [g \in Thread |-> "idle"]
  /\ owner = [m \in Mutex |-> Free]
  /\ process = "running"
  /\ handlers = 0
  /\ batch = 0
  /\ due = 0
  /\ size = [g \in Goroutine |-> 0]
  /\ batches = 0
  /\ total = 0
  /\ checkpoints = 0
  /\ report = {}
  /\ added = 0
  /\ committed = FALSE

-----------------------------------------------------------------------------
\* Goroutine g goes on from place here to place there.
Goes(g, here, there) ==
  /\ process = "running"
  /\ at[g] = here
  /\ at' = [at EXCEPT ![g] = there]

Unlock(m) ==
  /\ owner' = [owner EXCEPT ![m] = Free]
  /\ process' = IF owner[m] = Free THEN "fatal" ELSE process

AvailableFault(m) == owner[m] = Free \/ m = "statsMu"

Available(m) == owner[m] = Free

\* Every Lock() call.
Lock(g) ==
  /\ at[g] \in Waiting
  /\ Available(Wants[at[g]])
  /\ owner' = [owner EXCEPT ![Wants[at[g]]] = g]
  /\ Goes(g, at[g], Inside[at[g]])
  /\ UNCHANGED <<process, handlers, batchVars, statVars, report, committed>>

\* handle, in the goroutine its listener started.
Start(g, kind) ==
  /\ handlers < MaxHandlers
  /\ handlers' = handlers + 1
  /\ Goes(g, "idle", Entry[kind])
  /\ UNCHANGED <<owner, process, batchVars, statVars, report, committed>>

\* A full batch or the timer starts processBatch.
StartBatch(g) ==
  /\ due > 0
  /\ handlers < MaxHandlers
  /\ handlers' = handlers + 1
  /\ due' = due - 1
  /\ Goes(g, "idle", "take")
  /\ UNCHANGED <<owner, process, batch, size, added, statVars, report,
                 committed>>

-----------------------------------------------------------------------------
(***************************************************************************)
(* handleReqWithBatching and processBatch.  A definition whose name ends   *)
(* in Fault is not part of the model: it is the one after it with a        *)
(* plausible programming error, which some property must expose.           *)
(***************************************************************************)

\* The check of the timestamp: unlock and return, or unlock and go on.
CheckTimestamp(g) ==
  /\ Unlock("stateMu")
  /\ \E next \in {"idle", "add"} : Goes(g, "admitting", next)
  /\ UNCHANGED <<handlers, batchVars, statVars, report, committed>>

\* A request starts the timer, or fills the batch, or neither: it leads to one
\* processBatch at most.
AddToBatch(g) ==
  /\ Unlock("batchMu")
  /\ Goes(g, "adding", "idle")
  /\ batch' = batch + 1
  /\ added' = added + 1
  /\ due' = due + 1
  /\ UNCHANGED <<handlers, size, statVars, report, committed>>

TakeBatchFault(g) ==
  /\ IF batch = 0 THEN UNCHANGED <<owner, process>> ELSE Unlock("batchMu")
  /\ Goes(g, "taking", IF batch = 0 THEN "idle" ELSE "count")
  /\ batch' = 0
  /\ size' = [size EXCEPT ![g] = batch]
  /\ UNCHANGED <<handlers, due, added, statVars, report, committed>>

TakeBatchAgainFault(g) ==
  /\ Unlock("batchMu")
  /\ Goes(g, "taking", IF batch = 0 THEN "idle" ELSE "count")
  /\ size' = [size EXCEPT ![g] = batch]
  /\ UNCHANGED <<handlers, batch, due, added, statVars, report, committed>>

\* processBatch under batchMu: return if there is no batch, or take it.
TakeBatch(g) ==
  /\ Unlock("batchMu")
  /\ Goes(g, "taking", IF batch = 0 THEN "idle" ELSE "count")
  /\ batch' = 0
  /\ size' = [size EXCEPT ![g] = batch]
  /\ UNCHANGED <<handlers, due, added, statVars, report, committed>>

\* processBatch under statsMu: BatchesProcessed++ ...
CountBatch(g) ==
  /\ Goes(g, "counting", "totalling")
  /\ batches' = batches + 1
  /\ UNCHANGED <<owner, process, handlers, batchVars, total, checkpoints, report,
                 committed>>

CountRequestsFault(g) ==
  /\ Goes(g, "totalling", "order")
  /\ total' = total + size[g]
  /\ size' = [size EXCEPT ![g] = 0]
  /\ UNCHANGED <<owner, process, handlers, batch, due, added, batches,
                 checkpoints, report, committed>>

\* ... and TotalRequests += len(batch).
CountRequests(g) ==
  /\ Unlock("statsMu")
  /\ Goes(g, "totalling", "order")
  /\ total' = total + size[g]
  /\ size' = [size EXCEPT ![g] = 0]
  /\ UNCHANGED <<handlers, batch, due, added, batches, checkpoints, report,
                 committed>>

-----------------------------------------------------------------------------
(***************************************************************************)
(* The sections under stateMu                                              *)
(***************************************************************************)

\* createCheckpoint, or a checkpoint committed by handleCP: statsMu is locked
\* while stateMu is held.
TakeCheckpoint(g) ==
  /\ Goes(g, "ordering", "checkpoint")
  /\ UNCHANGED <<owner, process, handlers, batchVars, statVars, report,
                 committed>>

CountCheckpointFault(g) ==
  /\ Unlock("stateMu")
  /\ Goes(g, "checkpointing", "leaving")
  /\ checkpoints' = checkpoints + 1
  /\ UNCHANGED <<handlers, batchVars, batches, total, report, committed>>

CountCheckpoint(g) ==
  /\ Unlock("statsMu")
  /\ Goes(g, "checkpointing", "leaving")
  /\ checkpoints' = checkpoints + 1
  /\ UNCHANGED <<handlers, batchVars, batches, total, report, committed>>

LeaveFault(g) ==
  /\ \/ Goes(g, "leaving", "idle") /\ UNCHANGED <<owner, process>>
     \/ Goes(g, "ordering", "idle") /\ Unlock("stateMu")
  /\ UNCHANGED <<handlers, batchVars, statVars, report, committed>>

\* The end of a section under stateMu, with a checkpoint or without.
Leave(g) ==
  /\ Unlock("stateMu")
  /\ Goes(g, "leaving", "idle") \/ Goes(g, "ordering", "idle")
  /\ UNCHANGED <<handlers, batchVars, statVars, report, committed>>

\* The case of commit messages locks stateMu and unlocks statsMu: stateMu stays
\* locked, and either statsMu is taken from its owner or the process ends.
HandleCommit(g) ==
  /\ Unlock("statsMu")
  /\ Goes(g, "committing", "idle")
  /\ committed' = TRUE
  /\ UNCHANGED <<handlers, batchVars, statVars, report>>

-----------------------------------------------------------------------------
(***************************************************************************)
(* The end: main receives a signal, prints the statistics and returns      *)
(***************************************************************************)
Signal ==
  /\ Goes(Main, "idle", "print")
  /\ UNCHANGED <<owner, process, handlers, batchVars, statVars, report,
                 committed>>

PrintStats ==
  /\ Unlock("statsMu")
  /\ Goes(Main, "printing", "return")
  /\ report' = {[batches |-> batches, total |-> total]}
  /\ UNCHANGED <<handlers, batchVars, statVars, committed>>

Exit ==
  /\ Goes(Main, "return", "return")
  /\ process' = "exited"
  /\ UNCHANGED <<owner, handlers, batchVars, statVars, report, committed>>

\* A goroutine that holds no mutex panics (Receiver!DecoderPanics).
Panic ==
  /\ process = "running"
  /\ process' = "panicked"
  /\ UNCHANGED <<at, owner, handlers, batchVars, statVars, report, committed>>

-----------------------------------------------------------------------------
\* What goroutine g does once it was started, apart from locking.
Proceed(g) ==
  \/ CheckTimestamp(g)
  \/ AddToBatch(g)
  \/ TakeBatch(g)
  \/ CountBatch(g)
  \/ CountRequests(g)
  \/ TakeCheckpoint(g)
  \/ CountCheckpoint(g)
  \/ Leave(g)
  \/ HandleCommit(g)

Next ==
  \/ \E g \in Goroutine, kind \in Kind : Start(g, kind)
  \/ \E g \in Goroutine : StartBatch(g)
  \/ \E g \in Goroutine : Proceed(g)
  \/ \E g \in Thread : Lock(g)
  \/ Signal
  \/ PrintStats
  \/ Exit
  \/ Panic

Spec == Init /\ [][Next]_vars

-----------------------------------------------------------------------------
(***************************************************************************)
(* Properties                                                              *)
(***************************************************************************)

\* The types of the state.
TypeOK ==
  /\ at \in [Thread -> Place]
  /\ owner \in [Mutex -> Thread \cup {Free}]
  /\ process \in {"running", "fatal", "panicked", "exited"}
  /\ handlers \in Nat
  /\ batch \in Nat
  /\ due \in Nat
  /\ size \in [Goroutine -> Nat]
  /\ batches \in Nat
  /\ total \in Nat
  /\ checkpoints \in Nat
  /\ report \subseteq [batches : Nat, total : Nat]
  /\ added \in Nat
  /\ committed \in BOOLEAN

\* The mutexes a goroutine must hold at place p, and no others.
Holds(p) ==
  {m \in Mutex :
     \/ /\ m = "stateMu"
        /\ p \in {"admitting", "ordering", "checkpoint", "checkpointing",
                  "leaving", "committing"}
     \/ m = "batchMu" /\ p \in {"adding", "taking"}
     \/ m = "statsMu" /\ p \in {"counting", "totalling", "checkpointing",
                                "printing"}}

\* Until a commit message is handled, every path through the handlers, early
\* returns included, holds exactly the mutexes that its place calls for: two
\* goroutines are never in sections of the same mutex, nobody returns with one
\* held, and nobody unlocks a free one.
LocksMatchPlaces ==
  ~committed =>
    /\ \A m \in Mutex, g \in Thread : owner[m] = g <=> m \in Holds(at[g])
    /\ process # "fatal"

\* A commit message does not open the state to two goroutines at once: whatever
\* its handler unlocks, the sections of stateMu exclude each other, and so do
\* those of batchMu.
SectionsExclude ==
  \A m \in {"stateMu", "batchMu"} : \A g, h \in Thread :
    m \in Holds(at[g]) \cap Holds(at[h]) => g = h

\* Goroutine g is not waiting for a mutex that another one holds.
CanGoOn(g) == at[g] \in Waiting => owner[Wants[at[g]]] = Free

\* Until a commit message is handled, the goroutines never all wait for each
\* other, although createCheckpoint and handleCP lock statsMu under stateMu
\* and processBatch goes from batchMu to statsMu to stateMu.
NoDeadlock ==
  ~committed =>
    \A g \in Thread : at[g] # "idle" =>
      \E h \in Thread : at[h] # "idle" /\ CanGoOn(h)

\* Every request that joined a batch is in the current batch, in the hands of
\* one processBatch, or counted in TotalRequests, and in one of these only.
EveryRequestCounted ==
  ~committed => added = total + batch + MapThenSumSet(LAMBDA g : size[g],
                                                       Goroutine)

\* The statistics printed at the end are those of whole batches, whatever
\* processBatch goroutines were doing when the signal came.
ReportConsistent ==
  ~committed =>
    \A r \in report : r.batches <= r.total /\ (r.total > 0 => r.batches > 0)

\* Every handler returns, and so does main after a signal, unless the process
\* ends or a commit message is handled.
HandlersFinish ==
  \A g \in Thread :
    at[g] # "idle" ~> at[g] = "idle" \/ process # "running" \/ committed
=============================================================================
