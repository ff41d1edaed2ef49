------------------------------- MODULE Receiver -------------------------------
(***************************************************************************)
(* How a server receives: one listener per socket reads every datagram     *)
(* into the same buffer and starts a goroutine that parses a slice of that *)
(* buffer, first for the type and then for the whole message, while the    *)
(* listener goes on reading.                                               *)
(*                                                                         *)
(* Grain.  ReadFrom is two steps, so that a goroutine may parse while the  *)
(* next datagram is copied into the buffer; each json.Unmarshal is one.    *)
(*                                                                         *)
(* Abstractions.  A goroutine parses the bytes of the buffer up to the     *)
(* length of its own datagram.  They are a message if a datagram of that   *)
(* very length is there; otherwise one JSON object is followed by the rest *)
(* of another or cut off, and Unmarshal fails.  Bytes of two datagrams     *)
(* mixed by a copy under way may be the one, the other, or no message: a   *)
(* mixture that parses carries a signature of other bytes, and is dropped  *)
(* like one that fails.  Or the decoder panics, because the bytes it has   *)
(* just validated have changed.                                            *)
(***************************************************************************)
EXTENDS Integers

CONSTANTS
  Goroutine,   \* those that run handle
  Socket,      \* the sockets of the server
  Datagram,    \* the messages sent to this server
  SocketOf,    \* SocketOf[d]: the socket that message d arrives at
  KindOf,      \* KindOf[d]: its type
  Length,      \* Length[d]: its length
  Nothing      \* no datagram

VARIABLES
  process,     \* "running", or what put an end to the process
  unread,      \* the messages on their way (the network may lose them)
  filling,     \* filling[k]: what ReadFrom is copying into k's buffer
  buffer,      \* buffer[k]: what ReadFrom copied there last
  parsing,     \* parsing[g]: the Unmarshal goroutine g comes to next
  slice,       \* slice[g]: the datagram its slice was made for
  kind,        \* kind[g]: the type it read
  handled      \* history variable: what was handled, and as which type

vars == <<process, unread, filling, buffer, parsing, slice, kind, handled>>

Init ==
  /\ process = "running"
  /\ unread = Datagram
  /\ filling = [k \in Socket |-> Nothing]
  /\ buffer = [k \in Socket |-> Nothing]
  /\ parsing = [g \in Goroutine |-> "none"]
  /\ slice = [g \in Goroutine |-> Nothing]
  /\ kind = [g \in Goroutine |-> "none"]
  /\ handled = {}

-----------------------------------------------------------------------------
\* ReadFrom begins to copy datagram d into the buffer of its socket.
Arrive(d) ==
  /\ process = "running"
  /\ d \in unread
  /\ filling[SocketOf[d]] = Nothing
  /\ unread' = unread \ {d}
  /\ filling' = [filling EXCEPT ![SocketOf[d]] = d]
  /\ UNCHANGED <<process, buffer, parsing, slice, kind, handled>>

\* ReadFrom returns, and handle runs in goroutine g with a slice of the length
\* that was read.
Spawn(k, g) ==
  /\ process = "running"
  /\ filling[k] # Nothing
  /\ parsing[g] = "none"
  /\ buffer' = [buffer EXCEPT ![k] = filling[k]]
  /\ filling' = [filling EXCEPT ![k] = Nothing]
  /\ parsing' = [parsing EXCEPT ![g] = "type"]
  /\ slice' = [slice EXCEPT ![g] = filling[k]]
  /\ UNCHANGED <<process, unread, kind, handled>>

\* What goroutine g may find in its slice.
Found(g) ==
  LET k    == SocketOf[slice[g]]
      Fits == {d \in {buffer[k], filling[k]} \ {Nothing} :
                 Length[d] = Length[slice[g]]}
  IN  IF filling[k] = Nothing /\ Fits # {} THEN Fits ELSE Fits \cup {Nothing}

TypeOfFault(d) == "request"

\* msg.DeType.
TypeOf(d) == KindOf[d]

ParseTypeFault(g) ==
  /\ process = "running"
  /\ parsing[g] = "type"
  /\ Found(g) # {Nothing}
  /\ parsing' = [parsing EXCEPT ![g] = "body"]
  /\ UNCHANGED <<process, unread, filling, buffer, slice, kind, handled>>

ParseType(g) ==
  /\ process = "running"
  /\ parsing[g] = "type"
  /\ \E d \in Found(g) \ {Nothing} :
       /\ kind' = [kind EXCEPT ![g] = TypeOf(d)]
       /\ parsing' = [parsing EXCEPT ![g] = "body"]
  /\ UNCHANGED <<process, unread, filling, buffer, slice, handled>>

\* The signed fields of a message of each type.  A commit message also has the
\* signatures of its certificate.
Signed ==
  [request |-> {"Req"}, orderReq |-> {"OrderReq", "Req"}, cp |-> {"CP"},
   commit |-> {"Commit"}]

VerifiesFault(d, t) == Signed[t] \cap Signed[KindOf[d]] # {}

\* Message d, unmarshalled as one of type t, passes VerifySig.  Unmarshal skips
\* the fields that t does not have, and leaves those that d lacks empty, with a
\* signature that is refused.  So an order request also passes for the client's
\* request that it carries.
Verifies(d, t) == Signed[t] \subseteq Signed[KindOf[d]]

\* The second Unmarshal finds message d: it is handled, or its signatures are
\* refused.
Handle(g, d) ==
  /\ process = "running"
  /\ parsing[g] = "body"
  /\ d \in Found(g)
  /\ parsing' = [parsing EXCEPT ![g] = "none"]
  /\ handled' = IF Verifies(d, kind[g])
                THEN handled \cup {[datagram |-> d, as |-> kind[g]]}
                ELSE handled
  /\ UNCHANGED <<process, unread, filling, buffer, slice, kind>>

\* An Unmarshal finds no message: handle returns.
Drop(g) ==
  /\ process = "running"
  /\ parsing[g] # "none"
  /\ Nothing \in Found(g)
  /\ parsing' = [parsing EXCEPT ![g] = "none"]
  /\ UNCHANGED <<process, unread, filling, buffer, slice, kind, handled>>

\* The JSON decoder finds that its bytes are changing.
DecoderPanics(g) ==
  /\ process = "running"
  /\ parsing[g] # "none"
  /\ filling[SocketOf[slice[g]]] # Nothing
  /\ process' = "panicked"
  /\ UNCHANGED <<unread, filling, buffer, parsing, slice, kind, handled>>

-----------------------------------------------------------------------------
(***************************************************************************)
(* Properties                                                              *)
(***************************************************************************)

\* The types of the state.
TypeOK ==
  /\ unread \subseteq Datagram
  /\ filling \in [Socket -> Datagram \cup {Nothing}]
  /\ buffer \in [Socket -> Datagram \cup {Nothing}]
  /\ parsing \in [Goroutine -> {"none", "type", "body"}]
  /\ slice \in [Goroutine -> Datagram \cup {Nothing}]
  /\ \A g \in Goroutine : parsing[g] # "none" => slice[g] \in Datagram
  /\ kind \in [Goroutine -> {"none"} \cup {KindOf[d] : d \in Datagram}]
  /\ \A g \in Goroutine : parsing[g] = "body" => kind[g] # "none"

\* The buffer may change between the two parses, so that a handler gets a
\* message that its switch did not choose it for.  The signatures leave one such
\* mistake: the client's request in an order request is handled as if the client
\* had sent it here.  Nothing is executed in the name of the primary, and no
\* checkpoint is voted for, on the strength of another message.
OnlyRequestsMistaken ==
  \A h \in handled :
    /\ h.datagram \notin unread
    /\ h.as # KindOf[h.datagram] =>
         h.as = "request" /\ KindOf[h.datagram] = "orderReq"
=============================================================================
