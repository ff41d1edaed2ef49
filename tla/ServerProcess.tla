---------------------------- MODULE ServerProcess ----------------------------
(***************************************************************************)
(* One server process: its listeners (Receiver) feed the handlers, which   *)
(* run under its mutexes (ServerLocks).  A goroutine that handle runs in   *)
(* parses its message and then goes on in ServerLocks; a panic in either   *)
(* ends both.                                                              *)
(***************************************************************************)
EXTENDS ServerLocks

CONSTANTS Socket, Datagram, SocketOf, KindOf, Length, Nothing

ASSUME ProcessAssumption ==
  /\ SocketOf \in [Datagram -> Socket]
  /\ KindOf \in [Datagram -> Kind]
  /\ Length \in [Datagram -> Nat]
  /\ Nothing \notin Datagram

VARIABLES unread, filling, buffer, parsing, slice, kind, handled

R == INSTANCE Receiver

processVars == <<vars, unread, filling, buffer, parsing, slice, kind, handled>>

\* What belongs to the locks alone, and to the receiver alone.
lockVars == <<at, owner, handlers, batchVars, statVars, report, committed>>
receiverVars == <<unread, filling, buffer, parsing, slice, kind, handled>>

ProcessInit == Init /\ R!Init

\* A goroutine that parses nothing and handles nothing.
Unused(g) == at[g] = "idle" /\ parsing[g] = "none"

Listen ==
  /\ \/ \E d \in Datagram : R!Arrive(d)
     \/ \E k \in Socket, g \in Goroutine : Unused(g) /\ R!Spawn(k, g)
  /\ UNCHANGED lockVars

Parse(g) ==
  /\ R!ParseType(g) \/ R!Drop(g)
  /\ UNCHANGED lockVars

DecoderPanics(g) == R!DecoderPanics(g) /\ UNCHANGED lockVars

\* The switch in handle.  The signature of a request is checked before any
\* mutex is locked; the other cases lock stateMu first.
HandleMessage(g) ==
  \E d \in Datagram :
    /\ R!Handle(g, d)
    /\ IF kind[g] = "request" /\ ~R!Verifies(d, kind[g])
       THEN UNCHANGED lockVars
       ELSE Start(g, kind[g])

Work(g) ==
  /\ Proceed(g) \/ Lock(g) \/ (Unused(g) /\ StartBatch(g))
  /\ UNCHANGED receiverVars

Shutdown ==
  /\ Signal \/ Lock(Main) \/ PrintStats \/ Exit
  /\ UNCHANGED receiverVars

ProcessNext ==
  \/ Listen
  \/ \E g \in Goroutine : Parse(g)
  \/ \E g \in Goroutine : DecoderPanics(g)
  \/ \E g \in Goroutine : HandleMessage(g)
  \/ \E g \in Goroutine : Work(g)
  \/ Shutdown

ProcessSpec == ProcessInit /\ [][ProcessNext]_processVars

\* A goroutine that can go on does so in the end.  Only finitely many handlers
\* compete for a mutex, so that nothing more is needed of Lock; a server that
\* runs on relies on the starvation mode of Go's mutexes instead.
ProcessFairness ==
  /\ \A g \in Goroutine : WF_processVars(Work(g))
  /\ \A g \in Goroutine : WF_processVars(Parse(g) \/ HandleMessage(g))
  /\ WF_processVars((Lock(Main) \/ PrintStats \/ Exit) /\ UNCHANGED receiverVars)

FairProcessSpec == ProcessSpec /\ ProcessFairness

-----------------------------------------------------------------------------
(***************************************************************************)
(* Properties                                                              *)
(***************************************************************************)

\* The types of the state.
ProcessTypeOK == TypeOK /\ R!TypeOK

\* The buffer may change between the two parses of handle, but the only
\* mistake that the signatures leave is a client's request that was found in an
\* order request (Zyzzyva!OrderedIsOutdated says what becomes of it).
OnlyRequestsMistaken == R!OnlyRequestsMistaken

\* A datagram that was read is handled, as what it is, unless the next one of
\* its socket arrives before its goroutine has parsed it: the shared buffer
\* loses messages to later ones only (or to the end of the process).
LostToLaterOnly ==
  \A d \in Datagram :
    buffer[SocketOf[d]] = d ~>
      \/ [datagram |-> d, as |-> KindOf[d]] \in handled
      \/ buffer[SocketOf[d]] # d
      \/ filling[SocketOf[d]] # Nothing
      \/ process # "running"
=============================================================================
