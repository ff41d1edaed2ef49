--------------------------- MODULE DeploymentProofs ---------------------------
(***************************************************************************)
(* Proofs about Deployment: types, the configuration that flags do not     *)
(* change, the public keys, which ports clash, and where datagrams arrive. *)
(***************************************************************************)
EXTENDS Deployment, TLAPS

-----------------------------------------------------------------------------
(***************************************************************************)
(* Types                                                                   *)
(***************************************************************************)

\* The package variables are numbers, whatever the environment is.
LEMMA ConfigurationIsTyped ==
  ASSUME NEW v \in [{"F", "N", "M"} -> Nat \cup {Unset}]
  PROVE  Configuration(v) \in [F : Nat, N : Nat, M : Nat]
<1>1. v["F"] \in Nat \cup {Unset} /\ v["N"] \in Nat \cup {Unset}
        /\ v["M"] \in Nat \cup {Unset}
  OBVIOUS
<1>2. envInt(v["F"], 1) \in Nat
  BY <1>1 DEF envInt
<1>3. 3 * envInt(v["F"], 1) + 1 \in Nat
  BY <1>2
<1>4. envInt(v["N"], 3 * envInt(v["F"], 1) + 1) \in Nat
  BY <1>1, <1>3 DEF envInt
<1>5. envInt(v["M"], 1) \in Nat
  BY <1>1 DEF envInt
<1> QED BY <1>2, <1>4, <1>5 DEF Configuration

LEMMA TypeStep == TypeOK /\ [Next]_vars => TypeOK'
<1> SUFFICES ASSUME TypeOK, [Next]_vars PROVE TypeOK'
  OBVIOUS
<1> USE DEF TypeOK
<1>1. ASSUME NEW p \in Process, InitializeConf(p) PROVE TypeOK'
  <2>1. Configuration(env[p]) \in [F : Nat, N : Nat, M : Nat]
    BY ConfigurationIsTyped
  <2>2. conf' \in [Process -> [F : Nat, N : Nat, M : Nat]]
    BY <1>1, <2>1 DEF InitializeConf
  <2> QED BY <1>1, <2>2 DEF InitializeConf
<1>2. ASSUME NEW p \in Process, ParseFlags(p) PROVE TypeOK'
  <2>1. conf[p].F \in Nat
    OBVIOUS
  <2>2. FaultFlag[p] \in Nat \cup {Unset}
    BY DeploymentAssumption
  <2>3. envInt(FaultFlag[p], conf[p].F) \in Nat
    BY <2>1, <2>2 DEF envInt
  <2>4. env' = [env EXCEPT ![p] =
                  [env[p] EXCEPT !["F"] = envInt(FaultFlag[p], conf[p].F)]]
    BY <1>2 DEF ParseFlags
  <2>5. [env[p] EXCEPT !["F"] = envInt(FaultFlag[p], conf[p].F)]
          \in [{"F", "N", "M"} -> Nat \cup {Unset}]
    BY <2>3
  <2>6. env' \in [Process -> [{"F", "N", "M"} -> Nat \cup {Unset}]]
    BY <2>4, <2>5
  <2> QED BY <1>2, <2>6 DEF ParseFlags
<1>3. ASSUME NEW p \in Process, InitKeys(p) PROVE TypeOK'
  <2>1. Nodes(p) \in Nat
    BY DEF Nodes
  <2>2. PublicKeys(p) \in SUBSET Nat
    BY <2>1 DEF PublicKeys
  <2> QED BY <1>3, <2>2 DEF InitKeys
<1>4. ASSUME NEW p \in Process, LacksKeys(p) PROVE TypeOK'
  BY <1>4 DEF LacksKeys
<1>5. ASSUME NEW p \in Process, NEW k \in {"own", "multicast"}, Bind(p, k)
      PROVE  TypeOK'
  BY <1>5 DEF Bind
<1>6. ASSUME NEW p \in Process, NEW k \in {"own", "multicast"}, BindFails(p, k)
      PROVE  TypeOK'
  BY <1>6 DEF BindFails
<1>7. CASE UNCHANGED vars
  BY <1>7 DEF vars
<1> QED BY <1>1, <1>2, <1>3, <1>4, <1>5, <1>6, <1>7 DEF Next

\* The types of a deployment.
THEOREM DeploymentTypeCorrect == Spec => []TypeOK
<1>1. Init => TypeOK
  <2> SUFFICES ASSUME Init PROVE TypeOK
    OBVIOUS
  <2>1. PICK v \in Variables : env = [p \in Process |-> v]
    BY DEF Init
  <2>2. env \in [Process -> [{"F", "N", "M"} -> Nat \cup {Unset}]]
    BY <2>1, DeploymentAssumption
  <2>3. conf \in [Process -> [F : Nat, N : Nat, M : Nat]]
    BY DEF Init
  <2>4. /\ stage \in [Process -> {"started", "initialised", "parsed", "ready",
                                  "panicked"}]
        /\ pub \in [Process -> SUBSET Nat]
        /\ bound \in [Process -> SUBSET {"own", "multicast"}]
    BY DEF Init
  <2> QED BY <2>2, <2>3, <2>4 DEF Init, TypeOK
<1> QED BY <1>1, TypeStep, PTL DEF Spec

-----------------------------------------------------------------------------
(***************************************************************************)
(* One configuration, and the keys it calls for                            *)
(***************************************************************************)

\* Every process reads, or has read, environment v before its flags change it.
ReadsOnly(v) ==
  \A p \in Process :
    /\ stage[p] = "started" => env[p] = v
    /\ stage[p] # "started" => conf[p] = Configuration(v)

\* A process that runs had its key pair, and read the public keys there are.
KeysInPlace ==
  \A p \in Process :
    stage[p] = "ready" =>
      /\ p < keys
      /\ p < Nodes(p)
      /\ pub[p] = PublicKeys(p)

LEMMA ConfigurationKept ==
  ASSUME NEW v, TypeOK, ReadsOnly(v), KeysInPlace, [Next]_vars
  PROVE  ReadsOnly(v)' /\ KeysInPlace'
<1> USE DEF TypeOK, ReadsOnly, KeysInPlace, PublicKeys, Nodes
<1>1. ASSUME NEW p \in Process, InitializeConf(p)
      PROVE  ReadsOnly(v)' /\ KeysInPlace'
  BY <1>1 DEF InitializeConf
<1>2. ASSUME NEW p \in Process, ParseFlags(p)
      PROVE  ReadsOnly(v)' /\ KeysInPlace'
  BY <1>2 DEF ParseFlags
<1>3. ASSUME NEW p \in Process, InitKeys(p)
      PROVE  ReadsOnly(v)' /\ KeysInPlace'
  BY <1>3 DEF InitKeys, HasKeys
<1>4. ASSUME NEW p \in Process, LacksKeys(p)
      PROVE  ReadsOnly(v)' /\ KeysInPlace'
  BY <1>4 DEF LacksKeys
<1>5. ASSUME NEW p \in Process, NEW k, Bind(p, k)
      PROVE  ReadsOnly(v)' /\ KeysInPlace'
  BY <1>5 DEF Bind
<1>6. ASSUME NEW p \in Process, NEW k, BindFails(p, k)
      PROVE  ReadsOnly(v)' /\ KeysInPlace'
  BY <1>6 DEF BindFails
<1>7. CASE UNCHANGED vars
  BY <1>7 DEF vars
<1> QED BY <1>1, <1>2, <1>3, <1>4, <1>5, <1>6, <1>7 DEF Next

ConfigurationInv == KeysInPlace /\ \E v \in Variables : ReadsOnly(v)

LEMMA ConfigurationCorrect == Spec => []ConfigurationInv
<1>1. Init => ConfigurationInv
  <2> SUFFICES ASSUME Init PROVE ConfigurationInv
    OBVIOUS
  <2>1. PICK v \in Variables : env = [p \in Process |-> v]
    BY DEF Init
  <2>2. ReadsOnly(v) /\ KeysInPlace
    BY <2>1 DEF Init, ReadsOnly, KeysInPlace
  <2> QED BY <2>2 DEF ConfigurationInv
<1>2. TypeOK /\ ConfigurationInv /\ [Next]_vars => ConfigurationInv'
  BY ConfigurationKept DEF ConfigurationInv
<1> QED BY <1>1, <1>2, DeploymentTypeCorrect, PTL DEF Spec

\* Whatever flags the processes are given, those that run have the F, N and M of
\* the environment they were started in: the flag -f takes effect nowhere.
FlagsChangeNothing ==
  \E v \in Variables : \A p \in Process :
    stage[p] = "ready" => conf[p] = Configuration(v)

\* What the run "flags" refutes for one process is so for all of them; at least
\* it leaves them one configuration.
THEOREM FlagsChangeNothingCorrect == Spec => []FlagsChangeNothing
<1>1. ConfigurationInv => FlagsChangeNothing
  BY DEF ConfigurationInv, ReadsOnly, FlagsChangeNothing
<1> QED BY <1>1, ConfigurationCorrect, PTL

\* Every process that runs can verify what the others sign.
THEOREM VerifiesAllCorrect == Spec => []VerifiesAll
<1>1. TypeOK /\ ConfigurationInv => VerifiesAll
  <2> SUFFICES ASSUME TypeOK, ConfigurationInv,
                      NEW p \in Process, NEW q \in Process,
                      stage[p] = "ready", stage[q] = "ready"
               PROVE  q \in pub[p]
    BY DEF VerifiesAll
  <2>1. conf[p] = conf[q]
    BY DEF ConfigurationInv, ReadsOnly
  <2>2. pub[p] = PublicKeys(p) /\ q < keys /\ q < Nodes(p)
    BY <2>1 DEF ConfigurationInv, KeysInPlace, Nodes
  <2>3. q \in Nat /\ Nodes(p) \in Nat
    BY DeploymentAssumption DEF Nodes, TypeOK
  <2>4. q \in 0..(Nodes(p) - 1)
    BY <2>2, <2>3
  <2> QED BY <2>2, <2>4 DEF PublicKeys
<1> QED BY <1>1, DeploymentTypeCorrect, ConfigurationCorrect, PTL

-----------------------------------------------------------------------------
(***************************************************************************)
(* Addresses                                                               *)
(***************************************************************************)

\* Only servers hold a multicast socket.
SocketsInv == \A p \in Process : bound[p] \subseteq Sockets(p)

LEMMA SocketsCorrect == Spec => []SocketsInv
<1>1. Init => SocketsInv
  BY DEF Init, SocketsInv
<1>2. TypeOK /\ SocketsInv /\ [Next]_vars => SocketsInv'
  BY DEF TypeOK, SocketsInv, Sockets, Next, vars, InitializeConf, ParseFlags,
         InitKeys, LacksKeys, Bind, BindFails
<1> QED BY <1>1, <1>2, DeploymentTypeCorrect, PTL DEF Spec

\* Two sockets of the processes of one base port clash only if one of them has
\* the multicast port for its own: own ports differ as the ids do.
LEMMA ClashAtMulticastPort ==
  ASSUME TypeOK, OneBasePort, NEW p \in Process, NEW k \in {"own", "multicast"},
         k \notin bound[p], Conflicts(p, k)
  PROVE  \E q \in Process : SameHost(p, q) /\ GetListenPort(q) = MulticastPort
<1>1. PICK q \in Process : \E l \in bound[q] :
         /\ SameHost(p, q)
         /\ Port(q, l) = Port(p, k)
         /\ ~(k = "multicast" /\ l = "multicast")
  BY DEF Conflicts
<1>2. PICK l \in bound[q] :
         /\ Port(q, l) = Port(p, k)
         /\ ~(k = "multicast" /\ l = "multicast")
  BY <1>1
<1>3. l \in {"own", "multicast"}
  BY DEF TypeOK
<1>4. SameHost(p, p) /\ SameHost(p, q)
  BY <1>1 DEF SameHost
<1>5. CASE k = "own" /\ l = "own"
  <2>1. basePort[q] + q = basePort[p] + p /\ basePort[p] = basePort[q]
    BY <1>2, <1>5 DEF Port, GetListenPort, OneBasePort
  <2>2. basePort[p] \in Nat /\ p \in Nat /\ q \in Nat
    BY DeploymentAssumption DEF TypeOK
  <2>3. p = q
    BY <2>1, <2>2
  <2> QED BY <1>5, <2>3
<1>6. CASE k = "multicast" /\ l = "own"
  BY <1>2, <1>4, <1>6 DEF Port
<1>7. CASE k = "own" /\ l = "multicast"
  BY <1>2, <1>4, <1>7 DEF Port
<1> QED BY <1>2, <1>3, <1>5, <1>6, <1>7

\* Given one base port, whichever, the ids keep the own ports of the processes
\* apart: without a multicast port among them every process that has its keys
\* starts.
THEOREM OnlyMulticastPortClashesCorrect == Spec => []OnlyMulticastPortClashes
<1>1. Init => OnlyMulticastPortClashes
  BY DEF Init, OnlyMulticastPortClashes
<1>2. TypeOK /\ OnlyMulticastPortClashes /\ [Next]_vars
        => OnlyMulticastPortClashes'
  <2> SUFFICES ASSUME TypeOK, OnlyMulticastPortClashes, [Next]_vars,
                      OneBasePort'
               PROVE  OnlyMulticastPortClashes'
    BY DEF OnlyMulticastPortClashes
  <2>1. UNCHANGED <<oneHost, keys, basePort>>
    BY DEF Next, vars, InitializeConf, ParseFlags, InitKeys, LacksKeys, Bind,
           BindFails
  <2>2. OneBasePort
    BY <2>1 DEF OneBasePort
  <2> SUFFICES ASSUME NEW p \in Process, stage'[p] = "panicked", HasKeys(p)'
               PROVE  \E q \in Process :
                        SameHost(p, q) /\ GetListenPort(q) = MulticastPort
    BY <2>1 DEF OnlyMulticastPortClashes, SameHost, GetListenPort
  <2>3. CASE stage[p] = "panicked"
    <3>1. conf'[p] = conf[p]
      BY <2>3 DEF TypeOK, Next, vars, InitializeConf, ParseFlags, InitKeys,
                  LacksKeys, Bind, BindFails
    <3>2. HasKeys(p)
      BY <2>1, <3>1 DEF HasKeys, Nodes
    <3> QED BY <2>2, <2>3, <3>2 DEF OnlyMulticastPortClashes
  <2>4. CASE stage[p] # "panicked"
    <3>1. \/ LacksKeys(p)
          \/ \E k \in {"own", "multicast"} : BindFails(p, k)
      BY <2>4 DEF TypeOK, Next, vars, InitializeConf, ParseFlags, InitKeys,
                  LacksKeys, Bind, BindFails
    <3>2. CASE LacksKeys(p)
      BY <2>1, <3>2 DEF LacksKeys, HasKeys, Nodes
    <3>3. ASSUME NEW k \in {"own", "multicast"}, BindFails(p, k)
          PROVE  \E q \in Process :
                   SameHost(p, q) /\ GetListenPort(q) = MulticastPort
      BY <2>2, <3>3, ClashAtMulticastPort DEF BindFails
    <3> QED BY <3>1, <3>2, <3>3
  <2> QED BY <2>3, <2>4
<1> QED BY <1>1, <1>2, DeploymentTypeCorrect, PTL DEF Spec

\* What a process sends to a client with another id than 0 does not arrive if
\* the two have the same base port.  And if the ports are chosen, process by
\* process, so that a client and server 0 reach each other, then its requests
\* reach the multicast socket of server 0, among the order requests.
AnswersNeedOtherPorts ==
  \A q \in Process \ (Server \cup {0}) :
    /\ \A p \in Process : basePort[p] = basePort[q] => ~Receives(q, p, q)
    /\ Receives(0, q, 0) /\ Receives(q, 0, q) =>
         /\ basePort[q] = MulticastPort
         /\ basePort[0] = MulticastPort + q

\* What the run "answers" refutes for the default ports is so for every port
\* that all processes share.
THEOREM AnswersNeedOtherPortsCorrect == Spec => []AnswersNeedOtherPorts
<1>1. TypeOK /\ SocketsInv => AnswersNeedOtherPorts
  <2> SUFFICES ASSUME TypeOK, SocketsInv, NEW q \in Process \ (Server \cup {0})
               PROVE  /\ \A p \in Process :
                           basePort[p] = basePort[q] => ~Receives(q, p, q)
                      /\ Receives(0, q, 0) /\ Receives(q, 0, q) =>
                           /\ basePort[q] = MulticastPort
                           /\ basePort[0] = MulticastPort + q
    BY DEF AnswersNeedOtherPorts
  <2>1. q \in Nat /\ q # 0 /\ basePort[q] \in Nat
    BY DeploymentAssumption DEF TypeOK
  <2>2. bound[q] \subseteq {"own"}
    BY DEF SocketsInv, Sockets
  <2>3. ASSUME NEW p, Receives(q, p, q) PROVE basePort[q] + q = basePort[p]
    BY <2>2, <2>3 DEF Receives, Port, GetListenPort
  <2>4. ASSUME Receives(0, q, 0)
        PROVE  basePort[q] \in {basePort[0] + 0, MulticastPort}
    BY <2>4 DEF Receives, Port, GetListenPort
  <2>5. ASSUME NEW p \in Process, basePort[p] = basePort[q], Receives(q, p, q)
        PROVE  FALSE
    BY <2>1, <2>3, <2>5
  <2>6. ASSUME Receives(0, q, 0), Receives(q, 0, q)
        PROVE  /\ basePort[q] = MulticastPort
               /\ basePort[0] = MulticastPort + q
    <3>1. basePort[0] = basePort[q] + q
      BY <2>3, <2>6
    <3>2. basePort[q] # basePort[0] + 0
      BY <2>1, <3>1
    <3> QED BY <2>4, <2>6, <3>1, <3>2
  <2> QED BY <2>5, <2>6
<1> QED BY <1>1, SocketsCorrect, DeploymentTypeCorrect, PTL
=============================================================================
