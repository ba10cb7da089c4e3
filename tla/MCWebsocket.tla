---------------------------- MODULE MCWebsocket ----------------------------
(* Two clients and one account: c1 can log in, subscribe and unsubscribe;  *)
(* c2 connects and disconnects and asks for nothing.                       *)
EXTENDS Websocket

CONSTANTS c1, c2, a1

MCRequests == [c \in Clients |-> IF c = c1 THEN 3 ELSE 0]
=============================================================================
