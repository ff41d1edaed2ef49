------------------------- MODULE ServerProcessProofs -------------------------
(***************************************************************************)
(* Proofs about ServerLocks and ServerProcess: types, mutual exclusion,    *)
(* absence of deadlock, the statistics printed at the end, and that the    *)
(* process with its listeners is an instance of ServerLocks.               *)
(***************************************************************************)
EXTENDS ServerProcess, SumFacts, TLAPS

\* Every place where a goroutine waits, with the mutex and the place inside.
LEMMA WaitingPlaces ==
  /\ Waiting = {"admit", "add", "take", "count", "order", "checkpoint",
                "commit", "print"}
  /\ Wants["admit"] = "stateMu" /\ Inside["admit"] = "admitting"
  /\ Wants["add"] = "batchMu" /\ Inside["add"] = "adding"
  /\ Wants["take"] = "batchMu" /\ Inside["take"] = "taking"
  /\ Wants["count"] = "statsMu" /\ Inside["count"] = "counting"
  /\ Wants["order"] = "stateMu" /\ Inside["order"] = "ordering"
  /\ Wants["checkpoint"] = "statsMu" /\ Inside["checkpoint"] = "checkpointing"
  /\ Wants["commit"] = "stateMu" /\ Inside["commit"] = "committing"
  /\ Wants["print"] = "statsMu" /\ Inside["print"] = "printing"
BY DEF Waiting, Wants, Inside

LEMMA PlacesListed ==
  Place = {"idle", "totalling", "leaving", "return", "admit", "add", "take",
           "count", "order", "checkpoint", "commit", "print", "admitting",
           "adding", "taking", "counting", "ordering", "checkpointing",
           "committing", "printing"}
BY WaitingPlaces DEF Place

\* Locking adds the mutex that was waited for to those the place calls for.
LEMMA HoldsInside ==
  \A w \in Waiting : /\ Wants[w] \in Mutex
                     /\ Inside[w] \in Place
                     /\ Holds(Inside[w]) = Holds(w) \cup {Wants[w]}
                     /\ Wants[w] \notin Holds(w)
BY WaitingPlaces, PlacesListed DEF Holds, Mutex

LEMMA EntryPlaces == \A kd \in Kind : Entry[kd] \in {"admit", "order", "commit"}
BY DEF Kind, Entry

-----------------------------------------------------------------------------
(***************************************************************************)
(* Types                                                                   *)
(***************************************************************************)

LEMMA TypesGoing ==
  ASSUME TypeOK, NEW g \in Thread, NEW here, NEW there \in Place,
         Goes(g, here, there)
  PROVE  at' \in [Thread -> Place]
BY DEF TypeOK, Goes

LEMMA TypesUnlocking ==
  ASSUME TypeOK, NEW m \in Mutex, Unlock(m)
  PROVE  /\ owner' \in [Mutex -> Thread \cup {Free}]
         /\ process' \in {"running", "fatal", "panicked", "exited"}
BY DEF TypeOK, Unlock

\* Type correctness of the locks and the statistics.
THEOREM LocksTypeCorrect == Spec => []TypeOK
<1>1. Init => TypeOK
  <2> SUFFICES ASSUME Init PROVE TypeOK
    OBVIOUS
  <2>1. at \in [Thread -> Place]
    BY PlacesListed DEF Init
  <2>2. owner \in [Mutex -> Thread \cup {Free}] /\ size \in [Goroutine -> Nat]
    BY DEF Init
  <2> QED BY <2>1, <2>2 DEF Init, TypeOK
<1>2. TypeOK /\ [Next]_vars => TypeOK'
  <2> SUFFICES ASSUME TypeOK, [Next]_vars PROVE TypeOK'
    OBVIOUS
  <2> USE DEF statVars, batchVars
  <2>a. /\ "stateMu" \in Mutex /\ "batchMu" \in Mutex /\ "statsMu" \in Mutex
        /\ Goroutine \subseteq Thread /\ Main \in Thread
    BY DEF Mutex, Thread
  <2>1. ASSUME NEW g \in Goroutine, NEW kd \in Kind, Start(g, kd) PROVE TypeOK'
    <3>1. Entry[kd] \in Place
      BY EntryPlaces, PlacesListed
    <3>2. at' \in [Thread -> Place]
      BY <2>a, <2>1, <3>1, TypesGoing DEF Start
    <3> QED BY <2>1, <3>2 DEF TypeOK, Start
  <2>2. ASSUME NEW g \in Goroutine, StartBatch(g) PROVE TypeOK'
    <3>1. at' \in [Thread -> Place]
      BY <2>a, <2>2, TypesGoing, PlacesListed DEF StartBatch
    <3> QED BY <2>2, <3>1 DEF TypeOK, StartBatch
  <2>3. ASSUME NEW g \in Goroutine, CheckTimestamp(g) PROVE TypeOK'
    <3>1. at' \in [Thread -> Place]
      BY <2>a, <2>3, TypesGoing, PlacesListed DEF CheckTimestamp
    <3> QED BY <2>a, <2>3, <3>1, TypesUnlocking DEF TypeOK, CheckTimestamp
  <2>4. ASSUME NEW g \in Goroutine, AddToBatch(g) PROVE TypeOK'
    <3>1. at' \in [Thread -> Place]
      BY <2>a, <2>4, TypesGoing, PlacesListed DEF AddToBatch
    <3> QED BY <2>a, <2>4, <3>1, TypesUnlocking DEF TypeOK, AddToBatch
  <2>5. ASSUME NEW g \in Goroutine, TakeBatch(g) PROVE TypeOK'
    <3>1. at' \in [Thread -> Place]
      BY <2>a, <2>5, TypesGoing, PlacesListed DEF TakeBatch
    <3> QED BY <2>a, <2>5, <3>1, TypesUnlocking DEF TypeOK, TakeBatch
  <2>6. ASSUME NEW g \in Goroutine, CountBatch(g) PROVE TypeOK'
    <3>1. at' \in [Thread -> Place]
      BY <2>a, <2>6, TypesGoing, PlacesListed DEF CountBatch
    <3> QED BY <2>6, <3>1 DEF TypeOK, CountBatch
  <2>7. ASSUME NEW g \in Goroutine, CountRequests(g) PROVE TypeOK'
    <3>1. at' \in [Thread -> Place]
      BY <2>a, <2>7, TypesGoing, PlacesListed DEF CountRequests
    <3> QED BY <2>a, <2>7, <3>1, TypesUnlocking DEF TypeOK, CountRequests
  <2>8. ASSUME NEW g \in Goroutine, TakeCheckpoint(g) PROVE TypeOK'
    <3>1. at' \in [Thread -> Place]
      BY <2>a, <2>8, TypesGoing, PlacesListed DEF TakeCheckpoint
    <3> QED BY <2>8, <3>1 DEF TypeOK, TakeCheckpoint
  <2>9. ASSUME NEW g \in Goroutine, CountCheckpoint(g) PROVE TypeOK'
    <3>1. at' \in [Thread -> Place]
      BY <2>a, <2>9, TypesGoing, PlacesListed DEF CountCheckpoint
    <3> QED BY <2>a, <2>9, <3>1, TypesUnlocking DEF TypeOK, CountCheckpoint
  <2>10. ASSUME NEW g \in Goroutine, Leave(g) PROVE TypeOK'
    <3>1. at' \in [Thread -> Place]
      BY <2>a, <2>10, TypesGoing, PlacesListed DEF Leave
    <3> QED BY <2>a, <2>10, <3>1, TypesUnlocking DEF TypeOK, Leave
  <2>11. ASSUME NEW g \in Goroutine, HandleCommit(g) PROVE TypeOK'
    <3>1. at' \in [Thread -> Place]
      BY <2>a, <2>11, TypesGoing, PlacesListed DEF HandleCommit
    <3> QED BY <2>a, <2>11, <3>1, TypesUnlocking DEF TypeOK, HandleCommit
  <2>12. ASSUME NEW g \in Thread, Lock(g) PROVE TypeOK'
    <3>1. Wants[at[g]] \in Mutex /\ Inside[at[g]] \in Place
      BY <2>12, HoldsInside DEF Lock
    <3>2. at' \in [Thread -> Place]
      BY <2>12, <3>1, TypesGoing DEF Lock
    <3> QED BY <2>12, <3>1, <3>2 DEF TypeOK, Lock
  <2>13. CASE Signal
    <3>1. at' \in [Thread -> Place]
      BY <2>a, <2>13, TypesGoing, PlacesListed DEF Signal
    <3> QED BY <2>13, <3>1 DEF TypeOK, Signal
  <2>14. CASE PrintStats
    <3>1. at' \in [Thread -> Place]
      BY <2>a, <2>14, TypesGoing, PlacesListed DEF PrintStats
    <3> QED BY <2>a, <2>14, <3>1, TypesUnlocking DEF TypeOK, PrintStats
  <2>15. CASE Exit
    <3>1. at' \in [Thread -> Place]
      BY <2>a, <2>15, TypesGoing, PlacesListed DEF Exit
    <3> QED BY <2>15, <3>1 DEF TypeOK, Exit
  <2>16. CASE Panic
    BY <2>16 DEF TypeOK, Panic
  <2>17. CASE UNCHANGED vars
    BY <2>17 DEF TypeOK, vars
  <2> QED
    BY <2>1, <2>2, <2>3, <2>4, <2>5, <2>6, <2>7, <2>8, <2>9, <2>10, <2>11,
       <2>12, <2>13, <2>14, <2>15, <2>16, <2>17 DEF Next, Proceed
<1> QED BY <1>1, <1>2, PTL DEF Spec
-----------------------------------------------------------------------------
(***************************************************************************)
(* Mutual exclusion                                                        *)
(***************************************************************************)

LEMMA HeldPlaces ==
  /\ Holds("idle") = {} /\ Holds("totalling") = {"statsMu"}
  /\ Holds("leaving") = {"stateMu"} /\ Holds("return") = {}
  /\ Holds("admit") = {} /\ Holds("add") = {} /\ Holds("take") = {}
  /\ Holds("count") = {} /\ Holds("order") = {} /\ Holds("commit") = {}
  /\ Holds("checkpoint") = {"stateMu"} /\ Holds("print") = {}
  /\ Holds("admitting") = {"stateMu"} /\ Holds("adding") = {"batchMu"}
  /\ Holds("taking") = {"batchMu"} /\ Holds("counting") = {"statsMu"}
  /\ Holds("ordering") = {"stateMu"} /\ Holds("committing") = {"stateMu"}
  /\ Holds("checkpointing") = {"stateMu", "statsMu"}
  /\ Holds("printing") = {"statsMu"}
BY DEF Holds, Mutex

\* A step that unlocks what the place left behind no longer calls for.
LEMMA UnlockMatches ==
  ASSUME TypeOK, LocksMatchPlaces, ~committed,
         NEW g \in Thread, NEW m \in Mutex, NEW here, NEW there,
         Unlock(m), Goes(g, here, there),
         m \in Holds(here), Holds(there) = Holds(here) \ {m}
  PROVE  /\ \A n \in Mutex, h \in Thread : owner'[n] = h <=> n \in Holds(at'[h])
         /\ process' # "fatal"
<1>1. owner[m] = g /\ g # Free
  BY LocksAssumption DEF LocksMatchPlaces, Goes, Thread
<1>2. process' # "fatal"
  BY <1>1 DEF Unlock, LocksMatchPlaces
<1>3. ASSUME NEW n \in Mutex, NEW h \in Thread
      PROVE  owner'[n] = h <=> n \in Holds(at'[h])
  <2>1. h # Free
    BY LocksAssumption DEF Thread
  <2>2. CASE h = g
    BY <1>1, <2>1, <2>2 DEF TypeOK, LocksMatchPlaces, Goes, Unlock
  <2>3. CASE h # g
    BY <1>1, <2>1, <2>3 DEF TypeOK, LocksMatchPlaces, Goes, Unlock
  <2> QED BY <2>2, <2>3
<1> QED BY <1>2, <1>3

\* A step from one place to another that calls for the same mutexes.
LEMMA GoesMatches ==
  ASSUME TypeOK, LocksMatchPlaces, ~committed,
         NEW g \in Thread, NEW here, NEW there,
         Goes(g, here, there), Holds(there) = Holds(here),
         owner' = owner, process' \in {process, "exited"}
  PROVE  LocksMatchPlaces'
BY DEF TypeOK, LocksMatchPlaces, Goes

\* Mutual exclusion, and no mutex is kept or unlocked twice.
THEOREM LocksCorrect == Spec => []LocksMatchPlaces
<1>1. Init => LocksMatchPlaces
  BY HeldPlaces, LocksAssumption DEF Init, LocksMatchPlaces, Thread
<1>2. TypeOK /\ LocksMatchPlaces /\ [Next]_vars => LocksMatchPlaces'
  <2> SUFFICES ASSUME TypeOK, LocksMatchPlaces, [Next]_vars PROVE LocksMatchPlaces'
    OBVIOUS
  <2>a. /\ "stateMu" \in Mutex /\ "batchMu" \in Mutex /\ "statsMu" \in Mutex
        /\ Goroutine \subseteq Thread /\ Main \in Thread
    BY DEF Mutex, Thread
  <2>b. ASSUME ~committed' PROVE ~committed
    BY <2>b DEF Next, Proceed, Start, StartBatch, CheckTimestamp, AddToBatch,
       TakeBatch, CountBatch, CountRequests, TakeCheckpoint, CountCheckpoint,
       Leave, HandleCommit, Lock, Signal, PrintStats, Exit, Panic, vars
  <2> SUFFICES ASSUME ~committed, ~committed' PROVE LocksMatchPlaces'
    BY <2>b DEF LocksMatchPlaces
  <2>1. ASSUME NEW g \in Goroutine, NEW kd \in Kind, Start(g, kd)
        PROVE  LocksMatchPlaces'
    <3>1. Holds(Entry[kd]) = Holds("idle")
      BY EntryPlaces, HeldPlaces
    <3> QED BY <2>a, <2>1, <3>1, GoesMatches DEF Start
  <2>2. ASSUME NEW g \in Goroutine, StartBatch(g) PROVE LocksMatchPlaces'
    BY <2>a, <2>2, HeldPlaces, GoesMatches DEF StartBatch
  <2>3. ASSUME NEW g \in Goroutine, CheckTimestamp(g) PROVE LocksMatchPlaces'
    BY <2>a, <2>3, HeldPlaces, UnlockMatches DEF CheckTimestamp, LocksMatchPlaces
  <2>4. ASSUME NEW g \in Goroutine, AddToBatch(g) PROVE LocksMatchPlaces'
    BY <2>a, <2>4, HeldPlaces, UnlockMatches DEF AddToBatch, LocksMatchPlaces
  <2>5. ASSUME NEW g \in Goroutine, TakeBatch(g) PROVE LocksMatchPlaces'
    BY <2>a, <2>5, HeldPlaces, UnlockMatches DEF TakeBatch, LocksMatchPlaces
  <2>6. ASSUME NEW g \in Goroutine, CountBatch(g) PROVE LocksMatchPlaces'
    BY <2>a, <2>6, HeldPlaces, GoesMatches DEF CountBatch
  <2>7. ASSUME NEW g \in Goroutine, CountRequests(g) PROVE LocksMatchPlaces'
    BY <2>a, <2>7, HeldPlaces, UnlockMatches DEF CountRequests, LocksMatchPlaces
  <2>8. ASSUME NEW g \in Goroutine, TakeCheckpoint(g) PROVE LocksMatchPlaces'
    BY <2>a, <2>8, HeldPlaces, GoesMatches DEF TakeCheckpoint
  <2>9. ASSUME NEW g \in Goroutine, CountCheckpoint(g) PROVE LocksMatchPlaces'
    BY <2>a, <2>9, HeldPlaces, UnlockMatches
       DEF CountCheckpoint, LocksMatchPlaces
  <2>10. ASSUME NEW g \in Goroutine, Leave(g) PROVE LocksMatchPlaces'
    BY <2>a, <2>10, HeldPlaces, UnlockMatches DEF Leave, LocksMatchPlaces
  <2>11. ASSUME NEW g \in Goroutine, HandleCommit(g) PROVE LocksMatchPlaces'
    BY <2>11 DEF HandleCommit
  <2>12. ASSUME NEW g \in Thread, Lock(g) PROVE LocksMatchPlaces'
    <3> DEFINE m == Wants[at[g]]
    <3>1. /\ m \in Mutex
          /\ Holds(Inside[at[g]]) = Holds(at[g]) \cup {m}
          /\ owner[m] = Free
          /\ owner' = [owner EXCEPT ![m] = g]
          /\ at' = [at EXCEPT ![g] = Inside[at[g]]]
          /\ process' = process
      BY <2>12, HoldsInside DEF Lock, Goes, Available
    <3> HIDE DEF m
    <3>2. ASSUME NEW n \in Mutex, NEW h \in Thread
          PROVE  owner'[n] = h <=> n \in Holds(at'[h])
      <4>1. h # Free
        BY LocksAssumption DEF Thread
      <4>2. CASE h = g
        BY <3>1, <4>1, <4>2 DEF TypeOK, LocksMatchPlaces
      <4>3. CASE h # g
        BY <3>1, <4>1, <4>3 DEF TypeOK, LocksMatchPlaces
      <4> QED BY <4>2, <4>3
    <3> QED BY <3>1, <3>2 DEF LocksMatchPlaces
  <2>13. CASE Signal
    BY <2>a, <2>13, HeldPlaces, GoesMatches DEF Signal
  <2>14. CASE PrintStats
    BY <2>a, <2>14, HeldPlaces, UnlockMatches DEF PrintStats, LocksMatchPlaces
  <2>15. CASE Exit
    BY <2>a, <2>15, GoesMatches DEF Exit
  <2>16. CASE Panic
    BY <2>16 DEF LocksMatchPlaces, Panic
  <2>17. CASE UNCHANGED vars
    BY <2>17 DEF LocksMatchPlaces, vars
  <2> QED
    BY <2>1, <2>2, <2>3, <2>4, <2>5, <2>6, <2>7, <2>8, <2>9, <2>10, <2>11,
       <2>12, <2>13, <2>14, <2>15, <2>16, <2>17 DEF Next, Proceed
<1> QED BY <1>1, <1>2, LocksTypeCorrect, PTL DEF Spec

-----------------------------------------------------------------------------
(***************************************************************************)
(* The sections of stateMu and batchMu exclude each other even after a     *)
(* commit message, whose handler unlocks a statsMu that it does not own:   *)
(* whoever is in such a section is the owner of its mutex.                 *)
(***************************************************************************)
Guards == {"stateMu", "batchMu"}

SectionOwners ==
  \A m \in Guards, g \in Thread : m \in Holds(at[g]) => owner[m] = g

\* A step that enters no section, and unlocks statsMu at most.
LEMMA SectionsKept ==
  ASSUME TypeOK, SectionOwners, NEW g \in Thread, NEW here, NEW there,
         Goes(g, here, there), Holds(there) \cap Guards \subseteq Holds(here),
         owner' = owner \/ Unlock("statsMu")
  PROVE  SectionOwners'
<1>1. \A m \in Guards : owner'[m] = owner[m]
  BY DEF TypeOK, Unlock, Guards, Mutex
<1>2. \A h \in Thread : Holds(at'[h]) \cap Guards \subseteq Holds(at[h])
  BY DEF TypeOK, Goes
<1> QED BY <1>1, <1>2 DEF SectionOwners

\* A step out of a section that unlocks its mutex.
LEMMA SectionsLeft ==
  ASSUME TypeOK, SectionOwners, NEW g \in Thread, NEW m \in Guards,
         NEW here, NEW there, Goes(g, here, there), Unlock(m),
         m \in Holds(here), Holds(there) = {}
  PROVE  SectionOwners'
<1>1. owner[m] = g
  BY DEF SectionOwners, Goes
<1> SUFFICES ASSUME NEW n \in Guards, NEW h \in Thread, n \in Holds(at'[h])
             PROVE  owner'[n] = h
  BY DEF SectionOwners
<1>2. h # g /\ at'[h] = at[h]
  BY DEF TypeOK, Goes
<1>3. owner[n] = h
  BY <1>2 DEF SectionOwners
<1>4. n # m
  BY <1>1, <1>2, <1>3
<1> QED BY <1>3, <1>4 DEF Unlock

\* A commit message may end the process or hang it, but never lets two
\* goroutines into the state or the batch at once.
THEOREM SectionsExcludeCorrect == Spec => []SectionsExclude
<1>1. Init => SectionOwners
  BY HeldPlaces DEF Init, SectionOwners, Thread
<1>2. TypeOK /\ SectionOwners /\ [Next]_vars => SectionOwners'
  <2> SUFFICES ASSUME TypeOK, SectionOwners, [Next]_vars PROVE SectionOwners'
    OBVIOUS
  <2>a. /\ "stateMu" \in Guards /\ "batchMu" \in Guards /\ "statsMu" \notin Guards
        /\ Goroutine \subseteq Thread /\ Main \in Thread
    BY DEF Guards, Thread
  <2>1. ASSUME NEW g \in Goroutine, NEW kd \in Kind, Start(g, kd)
        PROVE  SectionOwners'
    <3>1. Holds(Entry[kd]) = {}
      BY EntryPlaces, HeldPlaces
    <3> QED BY <2>a, <2>1, <3>1, SectionsKept DEF Start
  <2>2. ASSUME NEW g \in Goroutine, StartBatch(g) PROVE SectionOwners'
    BY <2>a, <2>2, HeldPlaces, SectionsKept DEF StartBatch
  <2>3. ASSUME NEW g \in Goroutine, CheckTimestamp(g) PROVE SectionOwners'
    BY <2>a, <2>3, HeldPlaces, SectionsLeft DEF CheckTimestamp
  <2>4. ASSUME NEW g \in Goroutine, AddToBatch(g) PROVE SectionOwners'
    BY <2>a, <2>4, HeldPlaces, SectionsLeft DEF AddToBatch
  <2>5. ASSUME NEW g \in Goroutine, TakeBatch(g) PROVE SectionOwners'
    BY <2>a, <2>5, HeldPlaces, SectionsLeft DEF TakeBatch
  <2>6. ASSUME NEW g \in Goroutine, CountBatch(g) PROVE SectionOwners'
    BY <2>a, <2>6, HeldPlaces, SectionsKept DEF CountBatch
  <2>7. ASSUME NEW g \in Goroutine, CountRequests(g) PROVE SectionOwners'
    BY <2>a, <2>7, HeldPlaces, SectionsKept DEF CountRequests
  <2>8. ASSUME NEW g \in Goroutine, TakeCheckpoint(g) PROVE SectionOwners'
    BY <2>a, <2>8, HeldPlaces, SectionsKept DEF TakeCheckpoint
  <2>9. ASSUME NEW g \in Goroutine, CountCheckpoint(g) PROVE SectionOwners'
    BY <2>a, <2>9, HeldPlaces, SectionsKept DEF CountCheckpoint
  <2>10. ASSUME NEW g \in Goroutine, Leave(g) PROVE SectionOwners'
    BY <2>a, <2>10, HeldPlaces, SectionsLeft DEF Leave
  <2>11. ASSUME NEW g \in Goroutine, HandleCommit(g) PROVE SectionOwners'
    BY <2>a, <2>11, HeldPlaces, SectionsKept DEF HandleCommit
  <2>12. ASSUME NEW g \in Thread, Lock(g) PROVE SectionOwners'
    <3> DEFINE m == Wants[at[g]]
    <3>1. /\ m \in Mutex
          /\ Holds(Inside[at[g]]) = Holds(at[g]) \cup {m}
          /\ owner[m] = Free
          /\ owner' = [owner EXCEPT ![m] = g]
          /\ at' = [at EXCEPT ![g] = Inside[at[g]]]
      BY <2>12, HoldsInside DEF Lock, Goes, Available
    <3> HIDE DEF m
    <3> SUFFICES ASSUME NEW n \in Guards, NEW h \in Thread, n \in Holds(at'[h])
                 PROVE  owner'[n] = h
      BY DEF SectionOwners
    <3>2. h # Free
      BY LocksAssumption DEF Thread
    <3>3. CASE n \in Holds(at[h])
      BY <3>1, <3>2, <3>3 DEF TypeOK, SectionOwners
    <3>4. CASE n \notin Holds(at[h])
      BY <3>1, <3>4 DEF TypeOK
    <3> QED BY <3>3, <3>4
  <2>13. CASE Signal
    BY <2>a, <2>13, HeldPlaces, SectionsKept DEF Signal
  <2>14. CASE PrintStats
    BY <2>a, <2>14, HeldPlaces, SectionsKept DEF PrintStats
  <2>15. CASE Exit
    BY <2>a, <2>15, HeldPlaces, SectionsKept DEF Exit
  <2>16. CASE Panic
    BY <2>16 DEF SectionOwners, Panic
  <2>17. CASE UNCHANGED vars
    BY <2>17 DEF SectionOwners, vars
  <2> QED
    BY <2>1, <2>2, <2>3, <2>4, <2>5, <2>6, <2>7, <2>8, <2>9, <2>10, <2>11,
       <2>12, <2>13, <2>14, <2>15, <2>16, <2>17 DEF Next, Proceed
<1>3. SectionOwners => SectionsExclude
  BY DEF SectionOwners, SectionsExclude, Guards
<1> QED BY <1>1, <1>2, <1>3, LocksTypeCorrect, PTL DEF Spec

-----------------------------------------------------------------------------
(***************************************************************************)
(* Absence of deadlock: batchMu and statsMu are held only by goroutines    *)
(* that wait for nothing, and stateMu also by one that waits for statsMu.  *)
(***************************************************************************)
LEMMA HolderGoesOn ==
  \A w \in Waiting : Holds(w) \subseteq {"stateMu"}
                    /\ ("stateMu" \in Holds(w) => Wants[w] = "statsMu")
BY WaitingPlaces, HeldPlaces

\* Every mutex somebody waits for has an owner that is busy.
LEMMA OwnersAreBusy ==
  ASSUME TypeOK, LocksMatchPlaces, ~committed, NEW g \in Thread, ~CanGoOn(g)
  PROVE  \E h \in Thread : /\ Wants[at[g]] \in Holds(at[h])
                           /\ at[h] # "idle"
<1>1. at[g] \in Waiting /\ owner[Wants[at[g]]] # Free /\ Wants[at[g]] \in Mutex
  BY HoldsInside DEF CanGoOn
<1>2. PICK h \in Thread : owner[Wants[at[g]]] = h
  BY <1>1 DEF TypeOK
<1>3. Wants[at[g]] \in Holds(at[h])
  BY <1>1, <1>2 DEF LocksMatchPlaces
<1> QED BY <1>2, <1>3, HeldPlaces

LEMMA DeadlockFree == TypeOK /\ LocksMatchPlaces => NoDeadlock
<1> SUFFICES ASSUME TypeOK, LocksMatchPlaces, ~committed,
                    NEW g \in Thread, at[g] # "idle"
             PROVE  \E h \in Thread : at[h] # "idle" /\ CanGoOn(h)
  BY DEF NoDeadlock
<1>1. CASE CanGoOn(g)
  BY <1>1
<1>2. CASE ~CanGoOn(g)
  <2>1. PICK h \in Thread : Wants[at[g]] \in Holds(at[h]) /\ at[h] # "idle"
    BY <1>2, OwnersAreBusy
  <2>2. CASE CanGoOn(h)
    BY <2>1, <2>2
  <2>3. CASE ~CanGoOn(h)
    <3>1. at[h] \in Waiting
      BY <2>3 DEF CanGoOn
    <3>2. Wants[at[h]] = "statsMu"
      BY <2>1, <3>1, HolderGoesOn
    <3>3. PICK k \in Thread : "statsMu" \in Holds(at[k]) /\ at[k] # "idle"
      BY <2>3, <3>2, OwnersAreBusy
    <3>4. CanGoOn(k)
      BY <3>3, HolderGoesOn DEF CanGoOn
    <3> QED BY <3>3, <3>4
  <2> QED BY <2>2, <2>3
<1> QED BY <1>1, <1>2

\* The goroutines never all wait for each other.
THEOREM LocksDeadlockFree == Spec => []NoDeadlock
BY LocksTypeCorrect, LocksCorrect, DeadlockFree, PTL

-----------------------------------------------------------------------------
(***************************************************************************)
(* The statistics.  ReportConsistent alone is not inductive: between the   *)
(* two additions of processBatch one batch more is counted than its        *)
(* requests account for, and what saves the report is that nobody else can *)
(* have statsMu then, and that a batch that is counted is not empty.       *)
(***************************************************************************)
CountsAhead ==
  ~committed =>
    /\ \A g \in Goroutine :
         at[g] \in {"count", "counting", "totalling"} => size[g] >= 1
    /\ \A g \in Goroutine : at[g] = "totalling" => batches <= total + 1
    /\ (\A g \in Goroutine : at[g] # "totalling") => batches <= total
    /\ total > 0 => batches > 0
    /\ \A g \in Goroutine : at[g] = "totalling" => batches > 0

\* Two goroutines are not both in sections of statsMu.
LEMMA StatsExclusive ==
  ASSUME LocksMatchPlaces, ~committed, NEW g \in Thread, NEW h \in Thread,
         "statsMu" \in Holds(at[g]), "statsMu" \in Holds(at[h])
  PROVE  g = h
BY DEF LocksMatchPlaces, Mutex

\* A step that neither enters nor leaves the places CountsAhead is about, and
\* leaves its counters alone.
LEMMA CountsKept ==
  ASSUME TypeOK, CountsAhead, ~committed, NEW g \in Thread,
         NEW here, NEW there, Goes(g, here, there),
         there \notin {"count", "counting", "totalling"},
         here # "totalling",
         batches' = batches, total' = total,
         \A h \in Goroutine : h # g => size'[h] = size[h]
  PROVE  CountsAhead'
<1>1. \A h \in Goroutine : at'[h] = IF h = g THEN there ELSE at[h]
  BY DEF TypeOK, Goes, Thread
<1>2. at[g] = here
  BY DEF Goes
<1>3. \A h \in Goroutine : at'[h] = "totalling" <=> at[h] = "totalling"
  BY <1>1, <1>2
<1>4. ASSUME NEW h \in Goroutine, at'[h] \in {"count", "counting", "totalling"}
      PROVE  size'[h] >= 1
  BY <1>1, <1>4 DEF CountsAhead
<1> QED BY <1>3, <1>4 DEF CountsAhead

\* What is printed at the end is consistent.
THEOREM ReportCorrect == Spec => []ReportConsistent
<1> DEFINE Inv == CountsAhead /\ ReportConsistent
<1>1. Init => Inv
  BY DEF Init, CountsAhead, ReportConsistent, Thread
<1>2. TypeOK /\ LocksMatchPlaces /\ Inv /\ [Next]_vars => Inv'
  <2> SUFFICES ASSUME TypeOK, LocksMatchPlaces, CountsAhead, ReportConsistent,
                      [Next]_vars
               PROVE  CountsAhead' /\ ReportConsistent'
    OBVIOUS
  <2> USE DEF statVars, batchVars
  <2>a. Goroutine \subseteq Thread /\ Main \in Thread /\ Main \notin Goroutine
    BY LocksAssumption DEF Thread
  <2>b. ASSUME ~committed' PROVE ~committed
    BY <2>b DEF Next, Proceed, Start, StartBatch, CheckTimestamp, AddToBatch,
       TakeBatch, CountBatch, CountRequests, TakeCheckpoint, CountCheckpoint,
       Leave, HandleCommit, Lock, Signal, PrintStats, Exit, Panic, vars
  <2> SUFFICES ASSUME ~committed, ~committed'
               PROVE  CountsAhead' /\ ReportConsistent'
    BY <2>b DEF CountsAhead, ReportConsistent
  <2>c. ASSUME report' = report PROVE ReportConsistent'
    BY <2>c DEF ReportConsistent
  <2>1. ASSUME NEW g \in Goroutine, NEW kd \in Kind, Start(g, kd)
        PROVE  CountsAhead'
    <3>1. Entry[kd] \notin {"count", "counting", "totalling"}
      BY EntryPlaces
    <3> QED BY <2>a, <2>1, <3>1, CountsKept DEF Start
  <2>2. ASSUME NEW g \in Goroutine, StartBatch(g) PROVE CountsAhead'
    BY <2>a, <2>2, CountsKept DEF StartBatch
  <2>3. ASSUME NEW g \in Goroutine, CheckTimestamp(g) PROVE CountsAhead'
    BY <2>a, <2>3, CountsKept DEF CheckTimestamp
  <2>4. ASSUME NEW g \in Goroutine, AddToBatch(g) PROVE CountsAhead'
    BY <2>a, <2>4, CountsKept DEF AddToBatch
  <2>5. ASSUME NEW g \in Goroutine, TakeBatch(g) PROVE CountsAhead'
    <3>1. \A h \in Goroutine : h # g => size'[h] = size[h] /\ at'[h] = at[h]
      BY <2>5 DEF TakeBatch, Goes, TypeOK
    <3>2. at'[g] = (IF batch = 0 THEN "idle" ELSE "count") /\ size'[g] = batch
      BY <2>a, <2>5 DEF TakeBatch, Goes, TypeOK
    <3>3. batches' = batches /\ total' = total /\ at[g] = "taking"
      BY <2>5 DEF TakeBatch, Goes
    <3>4. \A h \in Goroutine : at'[h] = "totalling" <=> at[h] = "totalling"
      BY <3>1, <3>2, <3>3
    <3>5. ASSUME NEW h \in Goroutine, at'[h] \in {"count", "counting", "totalling"}
          PROVE  size'[h] >= 1
      BY <3>1, <3>2, <3>5 DEF CountsAhead, TypeOK
    <3> QED BY <3>3, <3>4, <3>5 DEF CountsAhead
  <2>6. ASSUME NEW g \in Goroutine, CountBatch(g) PROVE CountsAhead'
    <3>1. at[g] = "counting"
      BY <2>6 DEF CountBatch, Goes
    <3>2. \A h \in Goroutine : at[h] # "totalling"
      BY <2>a, <3>1, StatsExclusive, HeldPlaces
    <3>3. batches' = batches + 1 /\ total' = total /\ size' = size
      BY <2>6 DEF CountBatch
    <3>4. \A h \in Goroutine : at'[h] = IF h = g THEN "totalling" ELSE at[h]
      BY <2>a, <2>6 DEF CountBatch, Goes, TypeOK
    <3>5. batches <= total /\ batches \in Nat /\ total \in Nat /\ size[g] >= 1
      BY <3>1, <3>2 DEF CountsAhead, TypeOK
    <3>6. ASSUME NEW h \in Goroutine, at'[h] \in {"count", "counting", "totalling"}
          PROVE  size'[h] >= 1
      BY <3>3, <3>4, <3>5, <3>6 DEF CountsAhead
    <3>7. batches' <= total' + 1 /\ batches' > 0
      BY <3>3, <3>5
    <3>8. at'[g] = "totalling"
      BY <3>4
    <3> QED BY <3>6, <3>7, <3>8 DEF CountsAhead
  <2>7. ASSUME NEW g \in Goroutine, CountRequests(g) PROVE CountsAhead'
    <3>1. at[g] = "totalling"
      BY <2>7 DEF CountRequests, Goes
    <3>2. \A h \in Goroutine : h # g => at[h] # "totalling"
      BY <2>a, <3>1, StatsExclusive, HeldPlaces
    <3>3. /\ batches' = batches /\ total' = total + size[g]
          /\ \A h \in Goroutine : h # g => size'[h] = size[h]
      BY <2>7 DEF CountRequests, TypeOK
    <3>4. \A h \in Goroutine : at'[h] = IF h = g THEN "order" ELSE at[h]
      BY <2>a, <2>7 DEF CountRequests, Goes, TypeOK
    <3>5. /\ batches <= total + 1 /\ batches > 0 /\ size[g] >= 1
          /\ batches \in Nat /\ total \in Nat /\ size[g] \in Nat
      BY <3>1 DEF CountsAhead, TypeOK
    <3>6. batches' <= total' /\ batches' > 0
      BY <3>3, <3>5
    <3>7. \A h \in Goroutine : at'[h] # "totalling"
      BY <3>2, <3>4
    <3>8. ASSUME NEW h \in Goroutine, at'[h] \in {"count", "counting", "totalling"}
          PROVE  size'[h] >= 1
      BY <3>3, <3>4, <3>8 DEF CountsAhead
    <3> QED BY <3>6, <3>7, <3>8 DEF CountsAhead
  <2>8. ASSUME NEW g \in Goroutine, TakeCheckpoint(g) PROVE CountsAhead'
    BY <2>a, <2>8, CountsKept DEF TakeCheckpoint
  <2>9. ASSUME NEW g \in Goroutine, CountCheckpoint(g) PROVE CountsAhead'
    BY <2>a, <2>9, CountsKept DEF CountCheckpoint
  <2>10. ASSUME NEW g \in Goroutine, Leave(g) PROVE CountsAhead'
    BY <2>a, <2>10, CountsKept DEF Leave
  <2>11. ASSUME NEW g \in Goroutine, HandleCommit(g) PROVE CountsAhead'
    BY <2>11 DEF HandleCommit
  <2>12. ASSUME NEW g \in Thread, Lock(g) PROVE CountsAhead'
    <3>1. /\ at[g] \in Waiting /\ at[g] # "totalling"
          /\ Inside[at[g]] \notin {"count", "totalling"}
          /\ Inside[at[g]] = "counting" => at[g] = "count"
      BY <2>12, WaitingPlaces DEF Lock
    <3>2. \A h \in Goroutine : at'[h] = IF h = g THEN Inside[at[g]] ELSE at[h]
      BY <2>a, <2>12 DEF Lock, Goes, TypeOK
    <3>3. batches' = batches /\ total' = total /\ size' = size
      BY <2>12 DEF Lock
    <3>4. \A h \in Goroutine : at'[h] = "totalling" <=> at[h] = "totalling"
      BY <3>1, <3>2
    <3>5. ASSUME NEW h \in Goroutine, at'[h] \in {"count", "counting", "totalling"}
          PROVE  size'[h] >= 1
      BY <3>1, <3>2, <3>3, <3>5 DEF CountsAhead
    <3> QED BY <3>3, <3>4, <3>5 DEF CountsAhead
  <2>13. ASSUME Signal PROVE CountsAhead'
    BY <2>a, <2>13, CountsKept DEF Signal
  <2>14. CASE PrintStats
    <3>1. CountsAhead'
      BY <2>a, <2>14, CountsKept DEF PrintStats
    <3>2. at[Main] = "printing"
      BY <2>14 DEF PrintStats, Goes
    <3>3. \A h \in Goroutine : at[h] # "totalling"
      BY <2>a, <3>2, StatsExclusive, HeldPlaces
    <3>4. batches <= total /\ (total > 0 => batches > 0)
      BY <3>3 DEF CountsAhead
    <3>5. ReportConsistent'
      BY <2>14, <3>4 DEF PrintStats, ReportConsistent
    <3> QED BY <3>1, <3>5
  <2>15. ASSUME Exit PROVE CountsAhead'
    BY <2>a, <2>15, CountsKept DEF Exit
  <2>16. ASSUME Panic PROVE CountsAhead'
    BY <2>16 DEF CountsAhead, Panic
  <2>17. ASSUME UNCHANGED vars PROVE CountsAhead'
    BY <2>17, <2>c DEF CountsAhead, vars
  <2>18. Next /\ ~PrintStats => report' = report
    BY DEF Next, Proceed, Start, StartBatch, CheckTimestamp, AddToBatch,
       TakeBatch, CountBatch, CountRequests, TakeCheckpoint, CountCheckpoint,
       Leave, HandleCommit, Lock, Signal, Exit, Panic
  <2>19. CASE Next /\ ~PrintStats
    BY <2>19, <2>18, <2>c, <2>1, <2>2, <2>3, <2>4, <2>5, <2>6, <2>7, <2>8, <2>9,
       <2>10, <2>11, <2>12, <2>13, <2>15, <2>16 DEF Next, Proceed
  <2>20. UNCHANGED vars => report' = report
    BY DEF vars
  <2> QED BY <2>14, <2>17, <2>19, <2>20, <2>c
<1>3. Inv => ReportConsistent
  OBVIOUS
<1> QED BY <1>1, <1>2, <1>3, LocksTypeCorrect, LocksCorrect, PTL DEF Spec

-----------------------------------------------------------------------------
(***************************************************************************)
(* No request is lost between the batch and the statistics                 *)
(***************************************************************************)

\* Only between taking a batch and counting its requests has a goroutine
\* requests in its hands; with the current batch and those counted, they are
\* all that joined.  (This holds of the model whether or not a commit message
\* was handled; what is claimed of the program stops there.)
CountedInv ==
  /\ \A g \in Goroutine :
       size[g] # 0 => at[g] \in {"count", "counting", "totalling"}
  /\ added = total + batch + Total(size, Goroutine)

\* A step that only moves one goroutine, to or from none of these places or
\* between two of them, keeps the account.
LEMMA AccountKept ==
  ASSUME TypeOK, CountedInv, NEW g \in Thread, NEW here, NEW there,
         Goes(g, here, there),
         here \in {"count", "counting", "totalling"}
           => there \in {"count", "counting", "totalling"},
         size' = size, added' - batch' = added - batch, total' = total,
         added' \in Nat, batch' \in Nat
  PROVE  CountedInv'
<1>1. \A h \in Goroutine : at'[h] = IF h = g THEN there ELSE at[h]
  BY DEF TypeOK, Goes, Thread
<1>2. Total(size, Goroutine)' = Total(size, Goroutine)
  OBVIOUS
<1>3. Total(size, Goroutine) \in Nat
  BY TotalType, LocksAssumption DEF TypeOK
<1>4. added' = total' + batch' + Total(size, Goroutine)'
  BY <1>2, <1>3 DEF CountedInv, TypeOK
<1>5. at[g] = here
  BY DEF Goes
<1>6. ASSUME NEW h \in Goroutine, size'[h] # 0
      PROVE  at'[h] \in {"count", "counting", "totalling"}
  BY <1>1, <1>5, <1>6 DEF CountedInv
<1> QED BY <1>4, <1>6 DEF CountedInv

\* Every request that joined a batch is in the batch, in the hands of one
\* processBatch, or counted.
THEOREM RequestsCounted == Spec => []EveryRequestCounted
<1>1. Init => CountedInv
  <2> SUFFICES ASSUME Init PROVE CountedInv
    OBVIOUS
  <2>1. Total(size, Goroutine) = 0
    BY TotalOfZeros, LocksAssumption DEF Init
  <2> QED BY <2>1 DEF Init, CountedInv
<1>2. TypeOK /\ TypeOK' /\ CountedInv /\ [Next]_vars => CountedInv'
  <2> SUFFICES ASSUME TypeOK, TypeOK', CountedInv, [Next]_vars
               PROVE  CountedInv'
    OBVIOUS
  <2> USE DEF statVars, batchVars
  <2>a. Goroutine \subseteq Thread /\ Main \in Thread
    BY DEF Thread
  <2>b. added' \in Nat /\ batch' \in Nat /\ added \in Nat /\ batch \in Nat
    BY DEF TypeOK
  <2>1. ASSUME NEW g \in Goroutine, NEW kd \in Kind, Start(g, kd)
        PROVE  CountedInv'
    BY <2>a, <2>b, <2>1, AccountKept DEF Start
  <2>2. ASSUME NEW g \in Goroutine, StartBatch(g) PROVE CountedInv'
    BY <2>a, <2>b, <2>2, AccountKept DEF StartBatch
  <2>3. ASSUME NEW g \in Goroutine, CheckTimestamp(g) PROVE CountedInv'
    BY <2>a, <2>b, <2>3, AccountKept DEF CheckTimestamp
  <2>4. ASSUME NEW g \in Goroutine, AddToBatch(g) PROVE CountedInv'
    <3>1. added' - batch' = added - batch
      BY <2>b, <2>4 DEF AddToBatch
    <3> QED BY <2>a, <2>b, <2>4, <3>1, AccountKept DEF AddToBatch
  <2>5. ASSUME NEW g \in Goroutine, TakeBatch(g) PROVE CountedInv'
    <3>1. /\ at[g] = "taking"
          /\ size' = [size EXCEPT ![g] = batch]
          /\ batch' = 0 /\ total' = total /\ added' = added
      BY <2>5 DEF TakeBatch, Goes
    <3>2. size[g] = 0
      BY <3>1 DEF CountedInv
    <3>3. /\ Total(size, Goroutine)' = Total(size, Goroutine) - size[g] + batch
          /\ Total(size, Goroutine) \in Nat
      <4>1. size \in [Goroutine -> Nat] /\ IsFiniteSet(Goroutine)
        BY LocksAssumption DEF TypeOK
      <4>2. /\ size' \in [Goroutine -> Nat] /\ size'[g] = batch
            /\ \A h \in Goroutine : h # g => size'[h] = size[h]
        BY <3>1 DEF TypeOK
      <4>3. Total(size', Goroutine)
              = Total(size, Goroutine) - size[g] + size'[g]
        BY <4>1, <4>2, TotalChanged
      <4> QED BY <4>1, <4>2, <4>3, TotalType
    <3>4. added' = total' + batch' + Total(size, Goroutine)'
      BY <2>b, <3>1, <3>2, <3>3 DEF CountedInv, TypeOK
    <3>5. \A h \in Goroutine :
            at'[h] = IF h = g THEN IF batch = 0 THEN "idle" ELSE "count"
                              ELSE at[h]
      BY <2>a, <2>5 DEF TakeBatch, Goes, TypeOK
    <3>6. \A h \in Goroutine : size'[h] = IF h = g THEN batch ELSE size[h]
      BY <3>1 DEF TypeOK
    <3> QED BY <3>4, <3>5, <3>6 DEF CountedInv
  <2>6. ASSUME NEW g \in Goroutine, CountBatch(g) PROVE CountedInv'
    BY <2>a, <2>b, <2>6, AccountKept DEF CountBatch
  <2>7. ASSUME NEW g \in Goroutine, CountRequests(g) PROVE CountedInv'
    <3>1. /\ size' = [size EXCEPT ![g] = 0]
          /\ batch' = batch /\ total' = total + size[g] /\ added' = added
      BY <2>7 DEF CountRequests
    <3>2. size[g] \in Nat /\ total \in Nat
      BY DEF TypeOK
    <3>3. /\ Total(size, Goroutine)' = Total(size, Goroutine) - size[g] + 0
          /\ Total(size, Goroutine) \in Nat
      <4>1. size \in [Goroutine -> Nat] /\ IsFiniteSet(Goroutine)
        BY LocksAssumption DEF TypeOK
      <4>2. /\ size' \in [Goroutine -> Nat] /\ size'[g] = 0
            /\ \A h \in Goroutine : h # g => size'[h] = size[h]
        BY <3>1 DEF TypeOK
      <4>3. Total(size', Goroutine)
              = Total(size, Goroutine) - size[g] + size'[g]
        BY <4>1, <4>2, TotalChanged
      <4> QED BY <4>1, <4>2, <4>3, TotalType
    <3>4. added' = total' + batch' + Total(size, Goroutine)'
      BY <2>b, <3>1, <3>2, <3>3 DEF CountedInv
    <3>5. \A h \in Goroutine : at'[h] = IF h = g THEN "order" ELSE at[h]
      BY <2>a, <2>7 DEF CountRequests, Goes, TypeOK
    <3>6. \A h \in Goroutine : size'[h] = IF h = g THEN 0 ELSE size[h]
      BY <3>1 DEF TypeOK
    <3> QED BY <3>4, <3>5, <3>6 DEF CountedInv
  <2>8. ASSUME NEW g \in Goroutine, TakeCheckpoint(g) PROVE CountedInv'
    BY <2>a, <2>b, <2>8, AccountKept DEF TakeCheckpoint
  <2>9. ASSUME NEW g \in Goroutine, CountCheckpoint(g) PROVE CountedInv'
    BY <2>a, <2>b, <2>9, AccountKept DEF CountCheckpoint
  <2>10. ASSUME NEW g \in Goroutine, Leave(g) PROVE CountedInv'
    BY <2>a, <2>b, <2>10, AccountKept DEF Leave
  <2>11. ASSUME NEW g \in Goroutine, HandleCommit(g) PROVE CountedInv'
    BY <2>a, <2>b, <2>11, AccountKept DEF HandleCommit
  <2>12. ASSUME NEW g \in Thread, Lock(g) PROVE CountedInv'
    <3>1. at[g] \in {"count", "counting", "totalling"}
            => Inside[at[g]] \in {"count", "counting", "totalling"}
      BY <2>12, WaitingPlaces DEF Lock
    <3> QED BY <2>b, <2>12, <3>1, AccountKept DEF Lock
  <2>13. CASE Signal
    BY <2>a, <2>b, <2>13, AccountKept DEF Signal
  <2>14. CASE PrintStats
    BY <2>a, <2>b, <2>14, AccountKept DEF PrintStats
  <2>15. CASE Exit
    BY <2>a, <2>b, <2>15, AccountKept DEF Exit
  <2>16. CASE Panic
    BY <2>16 DEF Panic, CountedInv
  <2>17. CASE UNCHANGED vars
    BY <2>17 DEF vars, CountedInv
  <2> QED
    BY <2>1, <2>2, <2>3, <2>4, <2>5, <2>6, <2>7, <2>8, <2>9, <2>10, <2>11,
       <2>12, <2>13, <2>14, <2>15, <2>16, <2>17 DEF Next, Proceed
<1>3. CountedInv => EveryRequestCounted
  BY Zenon DEF CountedInv, EveryRequestCounted, Total
<1> QED BY <1>1, <1>2, <1>3, LocksTypeCorrect, PTL DEF Spec

-----------------------------------------------------------------------------
(***************************************************************************)
(* The process with its listeners                                          *)
(***************************************************************************)

\* What ReadFrom has copied is no longer on its way.
CopiedOnce ==
  \A k \in Socket : filling[k] \notin unread /\ buffer[k] \notin unread

ReceiverInv == R!TypeOK /\ CopiedOnce /\ OnlyRequestsMistaken

ReceiverSteps ==
  \/ \E d \in Datagram : R!Arrive(d)
  \/ \E k \in Socket, g \in Goroutine : R!Spawn(k, g)
  \/ \E g \in Goroutine : R!ParseType(g) \/ R!Drop(g) \/ R!DecoderPanics(g)
  \/ \E g \in Goroutine, d \in Datagram : R!Handle(g, d)
  \/ UNCHANGED receiverVars

\* What a goroutine finds in its slice was copied there by ReadFrom.
LEMMA FoundWasCopied ==
  ASSUME ReceiverInv, NEW g \in Goroutine, parsing[g] # "none",
         NEW d \in R!Found(g) \ {Nothing}
  PROVE  d \in Datagram /\ d \notin unread
<1> DEFINE k == SocketOf[slice[g]]
<1>1. k \in Socket
  BY ProcessAssumption DEF ReceiverInv, R!TypeOK
<1>2. d \in {filling[k], buffer[k]}
  BY DEF R!Found
<1> QED BY <1>1, <1>2 DEF ReceiverInv, CopiedOnce, R!TypeOK

LEMMA ReceiverKept == ReceiverInv /\ ReceiverSteps => ReceiverInv'
<1> SUFFICES ASSUME ReceiverInv, ReceiverSteps PROVE ReceiverInv'
  OBVIOUS
<1> USE DEF OnlyRequestsMistaken, R!OnlyRequestsMistaken
<1>1. ASSUME NEW d \in Datagram, R!Arrive(d) PROVE ReceiverInv'
  <2>1. SocketOf[d] \in Socket /\ d # Nothing
    BY ProcessAssumption
  <2>2. R!TypeOK'
    BY <1>1, <2>1 DEF ReceiverInv, R!TypeOK, R!Arrive
  <2>3. CopiedOnce'
    BY <1>1, <2>1 DEF ReceiverInv, CopiedOnce, R!TypeOK, R!Arrive
  <2>4. OnlyRequestsMistaken'
    BY <1>1 DEF ReceiverInv, R!Arrive
  <2> QED BY <2>2, <2>3, <2>4 DEF ReceiverInv
<1>2. ASSUME NEW k \in Socket, NEW g \in Goroutine, R!Spawn(k, g)
      PROVE  ReceiverInv'
  <2>1. R!TypeOK'
    BY <1>2 DEF ReceiverInv, R!TypeOK, R!Spawn
  <2>2. CopiedOnce'
    BY <1>2, ProcessAssumption DEF ReceiverInv, CopiedOnce, R!TypeOK, R!Spawn
  <2> QED BY <1>2, <2>1, <2>2 DEF ReceiverInv, R!Spawn
<1>3. ASSUME NEW g \in Goroutine, R!ParseType(g) PROVE ReceiverInv'
  <2>1. PICK d \in R!Found(g) \ {Nothing} :
          /\ kind' = [kind EXCEPT ![g] = R!TypeOf(d)]
          /\ parsing' = [parsing EXCEPT ![g] = "body"]
    BY <1>3 DEF R!ParseType
  <2>2. d \in Datagram
    BY <1>3, FoundWasCopied DEF R!ParseType
  <2>3. KindOf[d] \in Kind /\ KindOf[d] # "none"
    BY <2>2, ProcessAssumption DEF Kind
  <2>4. kind' \in [Goroutine -> {"none"} \cup {KindOf[e] : e \in Datagram}]
    BY <2>1, <2>2 DEF ReceiverInv, R!TypeOK, R!TypeOf
  <2>5. \A h \in Goroutine : parsing'[h] = "body" => kind'[h] # "none"
    BY <2>1, <2>3 DEF ReceiverInv, R!TypeOK, R!TypeOf
  <2>6. \A h \in Goroutine : parsing'[h] # "none" => slice[h] \in Datagram
    BY <1>3, <2>1 DEF ReceiverInv, R!TypeOK, R!ParseType
  <2>7. R!TypeOK'
    BY <1>3, <2>1, <2>4, <2>5, <2>6 DEF ReceiverInv, R!TypeOK, R!ParseType
  <2> QED BY <1>3, <2>7 DEF ReceiverInv, CopiedOnce, R!ParseType
<1>4. ASSUME NEW g \in Goroutine, R!Drop(g) PROVE ReceiverInv'
  BY <1>4 DEF ReceiverInv, CopiedOnce, R!TypeOK, R!Drop
<1>5. ASSUME NEW g \in Goroutine, R!DecoderPanics(g) PROVE ReceiverInv'
  BY <1>5 DEF ReceiverInv, CopiedOnce, R!TypeOK, R!DecoderPanics
<1>6. ASSUME NEW g \in Goroutine, NEW d \in Datagram, R!Handle(g, d)
      PROVE  ReceiverInv'
  <2>1. R!TypeOK' /\ CopiedOnce'
    BY <1>6 DEF ReceiverInv, CopiedOnce, R!TypeOK, R!Handle
  <2>2. d \notin unread
    BY <1>6, ProcessAssumption, FoundWasCopied DEF R!Handle
  <2>3. R!Verifies(d, kind[g]) /\ kind[g] # KindOf[d]
          => kind[g] = "request" /\ KindOf[d] = "orderReq"
    <3>1. kind[g] \in Kind /\ KindOf[d] \in Kind
      BY <1>6, ProcessAssumption DEF R!Handle, ReceiverInv, R!TypeOK
    <3> QED BY <3>1 DEF Kind, R!Verifies, R!Signed
  <2>4. OnlyRequestsMistaken'
    BY <1>6, <2>2, <2>3 DEF ReceiverInv, R!Handle
  <2> QED BY <2>1, <2>4 DEF ReceiverInv
<1>7. CASE UNCHANGED receiverVars
  BY <1>7 DEF receiverVars, ReceiverInv, CopiedOnce, R!TypeOK
<1> QED BY <1>1, <1>2, <1>3, <1>4, <1>5, <1>6, <1>7 DEF ReceiverSteps

\* What the receiver sees of a step of the process.
LEMMA StepsOfReceiver == [ProcessNext]_processVars => ReceiverSteps
BY DEF ProcessNext, processVars, receiverVars, ReceiverSteps, Listen, Parse,
       DecoderPanics, HandleMessage, Work, Shutdown

LEMMA ReceiverCorrect == ProcessSpec => []ReceiverInv
<1>1. ProcessInit => ReceiverInv
  <2> SUFFICES ASSUME R!Init PROVE ReceiverInv
    BY DEF ProcessInit
  <2>1. /\ filling \in [Socket -> Datagram \cup {Nothing}]
        /\ buffer \in [Socket -> Datagram \cup {Nothing}]
        /\ slice \in [Goroutine -> Datagram \cup {Nothing}]
    BY DEF R!Init
  <2>2. /\ parsing \in [Goroutine -> {"none", "type", "body"}]
        /\ kind \in [Goroutine -> {"none"} \cup {KindOf[d] : d \in Datagram}]
    BY DEF R!Init
  <2>3. \A g \in Goroutine : parsing[g] = "none"
    BY DEF R!Init
  <2>4. R!TypeOK
    BY <2>1, <2>2, <2>3 DEF R!Init, R!TypeOK
  <2>5. CopiedOnce
    BY ProcessAssumption DEF R!Init, CopiedOnce
  <2>6. OnlyRequestsMistaken
    BY DEF R!Init, OnlyRequestsMistaken, R!OnlyRequestsMistaken
  <2> QED BY <2>4, <2>5, <2>6 DEF ReceiverInv
<1> QED BY <1>1, ReceiverKept, StepsOfReceiver, PTL DEF ProcessSpec

\* Whatever the listeners and the scheduler do, on whichever sockets messages
\* arrive and however long they are, a handler acts on messages that were sent,
\* as what they are or as the request that an order request carries.
THEOREM OnlyRequestsMistakenCorrect == ProcessSpec => []OnlyRequestsMistaken
BY ReceiverCorrect, PTL DEF ReceiverInv

\* Every step of the process is a step of ServerLocks, or none to it.
THEOREM ProcessImplementsLocks == ProcessSpec => Spec
<1>1. ProcessInit => Init
  BY DEF ProcessInit
<1>2. ReceiverInv /\ [ProcessNext]_processVars => [Next]_vars
  <2> SUFFICES ASSUME ReceiverInv, [ProcessNext]_processVars PROVE [Next]_vars
    OBVIOUS
  <2>1. ASSUME UNCHANGED lockVars, process' = process PROVE UNCHANGED vars
    BY <2>1 DEF lockVars, vars
  <2>2. CASE Listen
    BY <2>1, <2>2 DEF Listen, R!Arrive, R!Spawn
  <2>3. ASSUME NEW g \in Goroutine, Parse(g) PROVE [Next]_vars
    BY <2>1, <2>3 DEF Parse, R!ParseType, R!Drop
  <2>4. ASSUME NEW g \in Goroutine, DecoderPanics(g) PROVE [Next]_vars
    <3>1. Panic
      BY <2>4 DEF DecoderPanics, R!DecoderPanics, Panic, lockVars
    <3> QED BY <3>1 DEF Next
  <2>5. ASSUME NEW g \in Goroutine, HandleMessage(g) PROVE [Next]_vars
    <3>1. PICK d \in Datagram : R!Handle(g, d)
                              /\ (UNCHANGED lockVars \/ Start(g, kind[g]))
      BY <2>5 DEF HandleMessage
    <3>2. kind[g] \in Kind
      BY <3>1, ProcessAssumption DEF R!Handle, ReceiverInv, R!TypeOK
    <3>3. CASE UNCHANGED lockVars
      BY <3>1, <3>3, <2>1 DEF R!Handle
    <3>4. CASE Start(g, kind[g])
      BY <3>2, <3>4 DEF Next
    <3> QED BY <3>1, <3>3, <3>4
  <2>6. ASSUME NEW g \in Goroutine, Work(g) PROVE [Next]_vars
    BY <2>6 DEF Work, Next, Thread
  <2>7. CASE Shutdown
    BY <2>7 DEF Shutdown, Next, Thread
  <2>8. CASE UNCHANGED processVars
    BY <2>8 DEF processVars
  <2> QED BY <2>2, <2>3, <2>4, <2>5, <2>6, <2>7, <2>8 DEF ProcessNext
<1> QED BY <1>1, <1>2, ReceiverCorrect, PTL DEF ProcessSpec, Spec

\* Mutual exclusion in the process.
THEOREM ProcessLocksCorrect == ProcessSpec => []LocksMatchPlaces
BY ProcessImplementsLocks, LocksCorrect

\* The sections of stateMu and of batchMu exclude each other in the process, also
\* after a commit message.
THEOREM ProcessSectionsExclude == ProcessSpec => []SectionsExclude
BY ProcessImplementsLocks, SectionsExcludeCorrect

\* Absence of deadlock in the process.
THEOREM ProcessDeadlockFree == ProcessSpec => []NoDeadlock
BY ProcessImplementsLocks, LocksDeadlockFree

\* Consistent statistics at the end of the process.
THEOREM ProcessReportCorrect == ProcessSpec => []ReportConsistent
BY ProcessImplementsLocks, ReportCorrect

\* Complete statistics in the process.
THEOREM ProcessRequestsCounted == ProcessSpec => []EveryRequestCounted
BY ProcessImplementsLocks, RequestsCounted

\* The types of the process.
THEOREM ProcessTypeCorrect == ProcessSpec => []ProcessTypeOK
<1>1. TypeOK /\ ReceiverInv => ProcessTypeOK
  BY DEF ReceiverInv, ProcessTypeOK
<1> QED BY <1>1, ProcessImplementsLocks, LocksTypeCorrect, ReceiverCorrect, PTL
=============================================================================
