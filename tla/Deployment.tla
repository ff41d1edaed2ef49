------------------------------ MODULE Deployment ------------------------------
(***************************************************************************)
(* How the processes of one deployment start: configuration from the       *)
(* environment and the flags, keys from files, the ports they listen at,   *)
(* and where the datagrams they send to each other arrive.                 *)
(*                                                                         *)
(* Grain.  Package initialisation, flag parsing, InitKeys and each bind    *)
(* are one action; a server binds its two sockets in two goroutines.       *)
(*                                                                         *)
(* Abstractions.  The environment is the variables that N, M and the       *)
(* quorums come from, and BASE_PORT; one that is empty or not a number     *)
(* counts as unset.  A key is the id it belongs to, and pub.txt is as      *)
(* genkeys writes it: the keys of 0, 1, ..., then a newline that           *)
(* strings.Split turns into one more, blank line.  Binding follows Linux:  *)
(* Go binds both sockets to the wildcard address, the multicast one with   *)
(* SO_REUSEADDR, so that only multicast sockets share a port.              *)
(***************************************************************************)
EXTENDS Integers

CONSTANTS
  Process,        \* the ids of the processes, from 0
  Server,         \* those that run cmd/server; the others run cmd/client
  Variables,      \* what the environment may be
  FaultFlag,      \* FaultFlag[p]: the flag -f of process p
  BasePorts,      \* what BASE_PORT may be, process by process
  MulticastPort,  \* the port of UDP_MULTICAST_ADDR
  KeyCounts,      \* the flag -n of genkeys
  Unset           \* of a variable, or a flag that is not given

ASSUME DeploymentAssumption ==
  /\ Process \subseteq Nat
  /\ Server \subseteq Process
  /\ Variables \subseteq [{"F", "N", "M"} -> Nat \cup {Unset}]
  /\ FaultFlag \in [Process -> Nat \cup {Unset}]
  /\ BasePorts \subseteq Nat
  /\ KeyCounts \subseteq Nat
  /\ Unset \notin Nat

VARIABLES
  oneHost,        \* every process runs on one host, or each on its own
  keys,           \* how many key pairs genkeys generated
  env,            \* env[p]: the environment of process p
  basePort,       \* basePort[p]: conf.BasePort in p
  stage,          \* stage[p]: how far p is
  conf,           \* conf[p]: the package variables F, N and M in p
  pub,            \* pub[p]: conf.Pub in p, its indices
  bound           \* bound[p]: the sockets p holds

vars == <<oneHost, keys, env, basePort, stage, conf, pub, bound>>

Init ==
  /\ oneHost \in BOOLEAN
  /\ keys \in KeyCounts
  /\ \E v \in Variables : env = [p \in Process |-> v]
  /\ basePort \in [Process -> BasePorts]
  /\ stage = [p \in Process |-> "started"]
  /\ conf = [p \in Process |-> [F |-> 0, N |-> 0, M |-> 0]]
  /\ pub = [p \in Process |-> {}]
  /\ bound = [p \in Process |-> {}]

-----------------------------------------------------------------------------
(***************************************************************************)
(* Configuration.  A definition whose name ends in Fault is not part of    *)
(* the model: it is the one after it with a plausible programming error,   *)
(* which some property must expose.                                        *)
(***************************************************************************)
envIntFault(v, default) == v

envInt(v, default) == IF v = Unset THEN default ELSE v

\* The package variables under environment v.
Configuration(v) ==
  [F |-> envInt(v["F"], 1),
   N |-> envInt(v["N"], 3 * envInt(v["F"], 1) + 1),
   M |-> envInt(v["M"], 1)]

\* Before main runs, the package variables are initialised.
InitializeConf(p) ==
  /\ stage[p] = "started"
  /\ stage' = [stage EXCEPT ![p] = "initialised"]
  /\ conf' = [conf EXCEPT ![p] = Configuration(env[p])]
  /\ UNCHANGED <<oneHost, keys, env, basePort, pub, bound>>

\* The flags are written to the environment, which nothing reads any more.
ParseFlags(p) ==
  /\ stage[p] = "initialised"
  /\ stage' = [stage EXCEPT ![p] = "parsed"]
  /\ env' = [env EXCEPT ![p]["F"] = envInt(FaultFlag[p], conf[p].F)]
  /\ UNCHANGED <<oneHost, keys, basePort, conf, pub, bound>>

Nodes(p) == conf[p].N + conf[p].M

\* p has a private key file and a place in Priv, and pub.txt, with the blank
\* line at its end, has lines enough.
HasKeys(p) ==
  /\ p < keys
  /\ p < Nodes(p)
  /\ keys + 1 >= Nodes(p)

PublicKeysFault(p) == {i \in 0..(conf[p].N - 1) : i < keys}

\* The blank line, if it is reached, is skipped.
PublicKeys(p) == {i \in 0..(Nodes(p) - 1) : i < keys}

InitKeys(p) ==
  /\ stage[p] = "parsed"
  /\ HasKeys(p)
  /\ stage' = [stage EXCEPT ![p] = "ready"]
  /\ pub' = [pub EXCEPT ![p] = PublicKeys(p)]
  /\ UNCHANGED <<oneHost, keys, env, basePort, conf, bound>>

\* InitKeys panics.
LacksKeys(p) ==
  /\ stage[p] = "parsed"
  /\ ~HasKeys(p)
  /\ stage' = [stage EXCEPT ![p] = "panicked"]
  /\ UNCHANGED <<oneHost, keys, env, basePort, conf, pub, bound>>

-----------------------------------------------------------------------------
(***************************************************************************)
(* Addresses                                                               *)
(***************************************************************************)
SameHost(p, q) == oneHost \/ p = q

GetListenPortFault(p) == basePort[p]

\* GetListenAddr: any address of the host, and a port by the id.
GetListenPort(p) == basePort[p] + p

\* The port of each kind of socket.
Port(p, k) == IF k = "own" THEN GetListenPort(p) ELSE MulticastPort

\* A socket at the port of k stands in the way, unless both are multicast ones.
Conflicts(p, k) ==
  \E q \in Process : \E l \in bound[q] :
    /\ SameHost(p, q)
    /\ Port(q, l) = Port(p, k)
    /\ ~(k = "multicast" /\ l = "multicast")

Sockets(p) == IF p \in Server THEN {"own", "multicast"} ELSE {"own"}

\* A listener binds its socket.
Bind(p, k) ==
  /\ stage[p] = "ready"
  /\ k \in Sockets(p) \ bound[p]
  /\ ~Conflicts(p, k)
  /\ bound' = [bound EXCEPT ![p] = @ \cup {k}]
  /\ UNCHANGED <<oneHost, keys, env, basePort, stage, conf, pub>>

\* Or it cannot: the server panics, the client calls log.Fatalf.
BindFails(p, k) ==
  /\ stage[p] = "ready"
  /\ k \in Sockets(p) \ bound[p]
  /\ Conflicts(p, k)
  /\ stage' = [stage EXCEPT ![p] = "panicked"]
  /\ bound' = [bound EXCEPT ![p] = {}]
  /\ UNCHANGED <<oneHost, keys, env, basePort, conf, pub>>

\* UdpSend(b, q) by p reaches a socket of process r: the address is q's host,
\* by its id, and p's own base port.
Receives(r, p, q) ==
  /\ SameHost(q, r)
  /\ \E k \in bound[r] : Port(r, k) = basePort[p]

-----------------------------------------------------------------------------
Next ==
  \/ \E p \in Process : InitializeConf(p)
  \/ \E p \in Process : ParseFlags(p)
  \/ \E p \in Process : InitKeys(p)
  \/ \E p \in Process : LacksKeys(p)
  \/ \E p \in Process, k \in {"own", "multicast"} : Bind(p, k)
  \/ \E p \in Process, k \in {"own", "multicast"} : BindFails(p, k)

Spec == Init /\ [][Next]_vars

-----------------------------------------------------------------------------
(***************************************************************************)
(* Properties                                                              *)
(***************************************************************************)

\* The types of the state.
TypeOK ==
  /\ oneHost \in BOOLEAN
  /\ keys \in KeyCounts
  /\ env \in [Process -> [{"F", "N", "M"} -> Nat \cup {Unset}]]
  /\ basePort \in [Process -> BasePorts]
  /\ stage \in
       [Process -> {"started", "initialised", "parsed", "ready", "panicked"}]
  /\ conf \in [Process -> [F : Nat, N : Nat, M : Nat]]
  /\ pub \in [Process -> SUBSET Nat]
  /\ bound \in [Process -> SUBSET {"own", "multicast"}]

\* Every process that runs holds the public key of every other one that does:
\* conf.Pub[id] is never out of range for the sender of a message.  The blank
\* line lets N+M-1 keys pass for enough, but then the process without a key
\* does not run.
VerifiesAll ==
  \A p, q \in Process :
    stage[p] = "ready" /\ stage[q] = "ready" => q \in pub[p]

\* The processes are told one base port.
OneBasePort == \A p, q \in Process : basePort[p] = basePort[q]

\* Under one base port the ids keep the processes apart, however many share a
\* host and in whichever order they bind: a process that has its keys fails to
\* start only where the port of some id is the multicast port.  (With the
\* default ports it is that of id 1.)
OnlyMulticastPortClashes ==
  OneBasePort =>
    \A p \in Process : stage[p] = "panicked" /\ HasKeys(p) =>
      \E q \in Process : SameHost(p, q) /\ GetListenPort(q) = MulticastPort

-----------------------------------------------------------------------------
(***************************************************************************)
(* What the code's own comments say of it, and what it does not do         *)
(***************************************************************************)

\* "Override configuration from command line": a process that was given the
\* flag -f runs with that F.  Refuted: main sets environment variables that
\* package conf has read before main began.
FlagsTakeEffect ==
  \A p \in Process :
    stage[p] = "ready" /\ FaultFlag[p] # Unset => conf[p].F = FaultFlag[p]

\* "Generate and send response to client": what a server that listens sends to
\* a client that listens arrives there.  Refuted: it is sent to the base port,
\* and the client listens at the base port plus its id.
AnswersReachClients ==
  \A p \in Server, q \in Process \ Server :
    "own" \in bound[p] /\ "own" \in bound[q] => Receives(q, p, q)
=============================================================================
