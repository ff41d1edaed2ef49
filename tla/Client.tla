-------------------------------- MODULE Client --------------------------------
(***************************************************************************)
(* One client: its main loop (Run), the goroutine that handles responses,  *)
(* the listener that queues them, and Stop, which the main loop and the    *)
(* signal goroutine may both be in.                                        *)
(*                                                                         *)
(* Grain.  A section under inflightMu or statsMu is one action, and so is  *)
(* each access of Stop to the unlocked field running and to stopChan.      *)
(*                                                                         *)
(* Abstractions.  A request is its timestamp, and timestamps are 1, 2, ... *)
(* (nanoseconds of the clock in the code: later ones are larger).  A       *)
(* response is the timestamp of the request it answers: the handler looks  *)
(* at nothing else.  What the network does with responses is open: the     *)
(* listener may read an answer to any request sent, any number of times.   *)
(* sendRequest never fails, so FailedRequests stays 0 and requestCount     *)
(* equals TotalRequests.  The rate ticker only delays the loop.            *)
(***************************************************************************)
EXTENDS Integers, Sequences, FiniteSets

CONSTANTS
  Limits,         \* what options.NumRequests may be; 0: no limit
  Capacity,       \* of the channel of responses (conf.N*10)
  Interruptible,  \* whether SIGINT or SIGTERM may arrive
  MaxSent         \* bound: how many requests are sent

ASSUME ClientAssumption ==
  /\ Limits \subseteq Int
  /\ Capacity \in Nat
  /\ Interruptible \in BOOLEAN
  /\ MaxSent \in Nat

VARIABLES
  numRequests,  \* options.NumRequests of this client, fixed at start-up
  main,         \* where Run is
  clock,        \* the timestamp of the last request sent
  inFlight,     \* the requests registered and not yet answered
  total,        \* stats.TotalRequests
  successful,   \* stats.SuccessfulRequests, and stats.FastPathCompleted
  inFlightStat, \* stats.InFlightRequests
  responses,    \* the channel of responses
  listener,     \* where the listener is
  handler,      \* where the response goroutine is
  response,     \* the response it is handling
  stop,         \* stop[p]: where p is in Stop
  running,
  stopClosed,   \* stopChan has been closed
  panicked,     \* a goroutine panicked: the process is gone
  saved,        \* what PrintStats printed and saved, or <<>>
  answered      \* history variable: the requests counted as successful

stopVars == <<stop, running, stopClosed, panicked>>
handlerVars == <<handler, response, answered>>
statVars == <<total, successful, inFlightStat>>
vars == <<numRequests, main, clock, inFlight, statVars, responses, listener,
          handlerVars, stopVars, saved>>

Caller == {"main", "signal"}

Init ==
  /\ numRequests \in Limits
  /\ main = "loop"
  /\ clock = 0
  /\ inFlight = {}
  /\ total = 0
  /\ successful = 0
  /\ inFlightStat = 0
  /\ responses = <<>>
  /\ listener = "check"
  /\ handler = "select"
  /\ response = 0
  /\ stop = [p \in Caller |-> "idle"]
  /\ running = TRUE
  /\ stopClosed = FALSE
  /\ panicked = FALSE
  /\ saved = <<>>
  /\ answered = {}

-----------------------------------------------------------------------------
\* The process exists: no goroutine panicked and main has not returned.
Alive == ~panicked /\ main # "done"

(***************************************************************************)
(* The main loop.  A definition whose name ends in Fault is not part of    *)
(* the model: it is the one after it with a plausible programming error,   *)
(* which some property must expose.                                        *)
(***************************************************************************)
Continues == running /\ (numRequests = 0 \/ total < numRequests)

SendRequest ==
  /\ Alive
  /\ main = "loop"
  /\ Continues
  /\ clock < MaxSent
  /\ clock' = clock + 1
  /\ main' = "register"
  /\ UNCHANGED <<numRequests, inFlight, statVars, responses, listener,
                 handlerVars, stopVars, saved>>

\* The request is tracked only now that it is sent.  (The select on stopChan
\* that follows has no effect: its break leaves the select, not the loop.)
Register ==
  /\ Alive
  /\ main = "register"
  /\ main' = "loop"
  /\ inFlight' = inFlight \cup {clock}
  /\ total' = total + 1
  /\ inFlightStat' = Cardinality(inFlight \cup {clock})
  /\ UNCHANGED <<numRequests, clock, successful, responses, listener,
                 handlerVars, stopVars, saved>>

LeaveLoop ==
  /\ Alive
  /\ main = "loop"
  /\ ~Continues
  /\ main' = "wait"
  /\ UNCHANGED <<numRequests, clock, inFlight, statVars, responses, listener,
                 handlerVars, stopVars, saved>>

WaitTimesOutFault == FALSE

\* Five seconds have passed since Run began to wait.
WaitTimesOut ==
  /\ Alive
  /\ main = "wait"
  /\ main' = "timeUp"
  /\ UNCHANGED <<numRequests, clock, inFlight, statVars, responses, listener,
                 handlerVars, stopVars, saved>>

\* Run finds nothing in flight, or the time up, and calls Stop.
FinishWaiting ==
  /\ Alive
  /\ (main = "wait" /\ inFlight = {}) \/ main = "timeUp"
  /\ main' = "stop"
  /\ stop' = [stop EXCEPT !["main"] = "called"]
  /\ UNCHANGED <<numRequests, clock, inFlight, statVars, responses, listener,
                 handlerVars, running, stopClosed, panicked, saved>>

JoinedFault == stop["main"] = "returned"

\* Stop has returned, and so has the response goroutine (wg.Wait).
Joined == stop["main"] = "returned" /\ handler = "returned"

\* PrintStats, after which the process ends.
PrintStats ==
  /\ Alive
  /\ main = "stop"
  /\ Joined
  /\ main' = "done"
  /\ saved' = <<[total |-> total, successful |-> successful,
                 inFlight |-> inFlightStat]>>
  /\ UNCHANGED <<numRequests, clock, inFlight, statVars, responses, listener,
                 handlerVars, stopVars>>

-----------------------------------------------------------------------------
(***************************************************************************)
(* Responses                                                               *)
(***************************************************************************)
QueuedFault(t) ==
  IF Len(responses) <= Capacity THEN Append(responses, t) ELSE responses

Queued(t) ==
  IF Len(responses) < Capacity THEN Append(responses, t) ELSE responses

\* The listener reads a response to request t and queues it, or drops it if
\* the channel is full.
ReceiveResponse(t) ==
  /\ Alive
  /\ listener = "read"
  /\ listener' = "check"
  /\ responses' = Queued(t)
  /\ UNCHANGED <<numRequests, main, clock, inFlight, statVars, handlerVars,
                 stopVars, saved>>

\* Nothing arrives before the read deadline.
ReadTimesOut ==
  /\ Alive
  /\ listener = "read"
  /\ listener' = "check"
  /\ UNCHANGED <<numRequests, main, clock, inFlight, statVars, responses,
                 handlerVars, stopVars, saved>>

\* Before each read the listener looks whether stopChan is closed.
CheckStopChan ==
  /\ Alive
  /\ listener = "check"
  /\ listener' = IF stopClosed THEN "returned" ELSE "read"
  /\ UNCHANGED <<numRequests, main, clock, inFlight, statVars, responses,
                 handlerVars, stopVars, saved>>

TakeResponse ==
  /\ Alive
  /\ handler = "select"
  /\ responses # <<>>
  /\ handler' = "lookup"
  /\ response' = Head(responses)
  /\ responses' = Tail(responses)
  /\ UNCHANGED <<numRequests, main, clock, inFlight, statVars, listener,
                 answered, stopVars, saved>>

\* stopChan is closed.  Go's select may take this branch even if responses
\* are waiting, and may take the other one first.
HandlerReturns ==
  /\ Alive
  /\ handler = "select"
  /\ stopClosed
  /\ handler' = "returned"
  /\ UNCHANGED <<numRequests, main, clock, inFlight, statVars, responses,
                 listener, response, answered, stopVars, saved>>

TrackedFault == response <= clock

Tracked == response \in inFlight

\* Whether the request is still tracked decides what happens to the response.
LookUp ==
  /\ Alive
  /\ handler = "lookup"
  /\ handler' = IF Tracked THEN "process" ELSE "select"
  /\ UNCHANGED <<numRequests, main, clock, inFlight, statVars, responses,
                 listener, response, answered, stopVars, saved>>

\* processResponse: one response makes the request a success.
ProcessResponse ==
  /\ Alive
  /\ handler = "process"
  /\ handler' = "delete"
  /\ successful' = successful + 1
  /\ answered' = answered \cup {response}
  /\ UNCHANGED <<numRequests, main, clock, inFlight, total, inFlightStat,
                 responses, listener, response, stopVars, saved>>

DeleteInFlight ==
  /\ Alive
  /\ handler = "delete"
  /\ handler' = "select"
  /\ inFlight' = inFlight \ {response}
  /\ inFlightStat' = Cardinality(inFlight \ {response})
  /\ UNCHANGED <<numRequests, main, clock, total, successful, responses,
                 listener, response, answered, stopVars, saved>>

-----------------------------------------------------------------------------
(***************************************************************************)
(* Stop, called by Run and by the goroutine that waits for a signal        *)
(***************************************************************************)
Signal ==
  /\ Alive
  /\ Interruptible
  /\ stop["signal"] = "idle"
  /\ stop' = [stop EXCEPT !["signal"] = "called"]
  /\ UNCHANGED <<numRequests, main, clock, inFlight, statVars, responses,
                 listener, handlerVars, running, stopClosed, panicked, saved>>

CheckRunning(p) ==
  /\ Alive
  /\ stop[p] = "called"
  /\ stop' = [stop EXCEPT ![p] = IF running THEN "clear" ELSE "returned"]
  /\ UNCHANGED <<numRequests, main, clock, inFlight, statVars, responses,
                 listener, handlerVars, running, stopClosed, panicked, saved>>

ClearRunning(p) ==
  /\ Alive
  /\ stop[p] = "clear"
  /\ stop' = [stop EXCEPT ![p] = "close"]
  /\ running' = FALSE
  /\ UNCHANGED <<numRequests, main, clock, inFlight, statVars, responses,
                 listener, handlerVars, stopClosed, panicked, saved>>

\* Closing a channel that is closed panics.
CloseStopChan(p) ==
  /\ Alive
  /\ stop[p] = "close"
  /\ stop' = [stop EXCEPT ![p] = "returned"]
  /\ panicked' = stopClosed
  /\ stopClosed' = TRUE
  /\ UNCHANGED <<numRequests, main, clock, inFlight, statVars, responses,
                 listener, handlerVars, running, saved>>

-----------------------------------------------------------------------------
Run ==
  \/ SendRequest \/ Register \/ LeaveLoop
  \/ WaitTimesOut \/ FinishWaiting \/ PrintStats

HandleResponses ==
  TakeResponse \/ HandlerReturns \/ LookUp \/ ProcessResponse \/ DeleteInFlight

Listen ==
  CheckStopChan \/ ReadTimesOut \/ \E t \in 1..clock : ReceiveResponse(t)

Stop(p) == CheckRunning(p) \/ ClearRunning(p) \/ CloseStopChan(p)

Next ==
  \/ Run
  \/ HandleResponses
  \/ Listen
  \/ Signal
  \/ \E p \in Caller : Stop(p)

Spec == Init /\ [][Next]_vars

\* Every goroutine that can go on does so in the end.
Fairness ==
  /\ WF_vars(Run)
  /\ WF_vars(HandleResponses)
  /\ WF_vars(Listen)
  /\ \A p \in Caller : WF_vars(Stop(p))

FairSpec == Spec /\ Fairness

-----------------------------------------------------------------------------
(***************************************************************************)
(* Properties                                                              *)
(***************************************************************************)

Stats == [total : Nat, successful : Nat, inFlight : Nat]

\* The types of the state; the channel holds no more than its capacity.
TypeOK ==
  /\ numRequests \in Limits
  /\ main \in {"loop", "register", "wait", "timeUp", "stop", "done"}
  /\ clock \in 0..MaxSent
  /\ inFlight \subseteq 0..clock
  /\ total \in Nat
  /\ successful \in Nat
  /\ inFlightStat \in Nat
  /\ responses \in Seq(Nat)
  /\ Len(responses) <= Capacity
  /\ listener \in {"check", "read", "returned"}
  /\ handler \in {"select", "lookup", "process", "delete", "returned"}
  /\ response \in Nat
  /\ stop \in [Caller -> {"idle", "called", "clear", "close", "returned"}]
  /\ running \in BOOLEAN
  /\ stopClosed \in BOOLEAN
  /\ panicked \in BOOLEAN
  /\ saved \in Seq(Stats)
  /\ answered \subseteq Nat

\* The counters agree with what happened, however responses are repeated and
\* whatever the two goroutines interleave: every registered request is counted
\* once, as in flight or as a success, except for the one that the handler has
\* counted and not yet removed.
Accounting ==
  /\ inFlightStat = Cardinality(inFlight)
  /\ successful = Cardinality(answered)
  /\ handler # "delete" => total = successful + inFlightStat
  /\ handler = "delete" => total = successful + inFlightStat - 1

\* The statistics saved at the end add up: PrintStats never sees the response
\* goroutine between counting a request and removing it.
SavedAddsUp ==
  \A i \in DOMAIN saved :
    saved[i].total = saved[i].successful + saved[i].inFlight

\* A request is registered once and succeeds at most once, and only then: the
\* response goroutine looks it up, counts it and removes it in three sections,
\* and nothing that comes between them makes another response count.
Tally == INSTANCE RequestTally WITH
           Client <- {"client"},
           Timestamp <- 0..MaxSent,
           waiting <- [c \in {"client"} |-> inFlight \ answered],
           answered <- [c \in {"client"} |-> answered]

ImplementsTally == Tally!Spec

\* A client that was given a number of requests, or a signal, comes to an end
\* even if no response ever arrives, or the response goroutine is gone before
\* Run has nothing in flight (the panic of StopsGracefully is an end).
RunReturns == (numRequests > 0 \/ stop["signal"] # "idle") ~> ~Alive

-----------------------------------------------------------------------------
(***************************************************************************)
(* What the code's own comments say of it, and what it does not do         *)
(***************************************************************************)

\* "Stop gracefully stops the client".  Refuted: Run and the signal goroutine
\* may both find running set, and the second close panics.
StopsGracefully == ~panicked
=============================================================================
