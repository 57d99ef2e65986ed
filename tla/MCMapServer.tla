---------------------------- MODULE MCMapServer -----------------------------
(***************************************************************************)
(* HashMap and EchoServer, for TLC.  They share no state: a behaviour is   *)
(* one of a single part, and the other stays as it is.                     *)
(***************************************************************************)
EXTENDS MCHashMap, EchoServer

VARIABLE part  \* the part that this behaviour is of

mapServerVars == <<vars, echoVars, part>>

MapServerInit == part \in {"map", "server"} /\ Init /\ EchoInit

MapServerNext ==
  /\ \/ part = "map" /\ Next /\ UNCHANGED echoVars
     \/ part = "server" /\ EchoNext /\ UNCHANGED vars
  /\ UNCHANGED part

\* A server without a connection, as in the other part, has nothing to send,
\* and its fairness asks for nothing.
MapServerSpec ==
  MapServerInit /\ [][MapServerNext]_mapServerVars /\ EchoFairness
=============================================================================
