--------------------------- MODULE MCServerProcess ---------------------------
(***************************************************************************)
(* An instance of ServerProcess for TLC.  A request and an order request   *)
(* of the same length share the multicast socket, as they do when the      *)
(* clients' base port is the multicast port; a commit message comes in at  *)
(* the socket of the server's own address.                                 *)
(***************************************************************************)
EXTENDS ServerProcess

CONSTANTS r1, c1, o1, own, multicast

Datagrams == {r1, c1, o1}
Sockets == {own, multicast}
Socks == [d \in Datagrams |-> IF d = c1 THEN own ELSE multicast]
Lengths == [d \in Datagrams |-> 1]
Kinds ==
  [d \in Datagrams |->
     IF d = r1 THEN "request" ELSE IF d = c1 THEN "commit" ELSE "orderReq"]
=============================================================================
