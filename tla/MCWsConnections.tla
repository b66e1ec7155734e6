------------------------ MODULE MCWsConnections ------------------------
(***************************************************************************)
(* The instance of WsConnections that TLC checks.  Two loads: a station    *)
(* with one connection and many requests, and a station that connects      *)
(* again while its first connection may still be in service.               *)
(***************************************************************************)
EXTENDS WsConnections, TLC

CONSTANTS c1, c2, st1

MCConns == {c1, c2}
SameStation == [c \in Conns |-> st1]
OneBusy == {c1 :> MaxMsgs}
BusyOrTwice == OneBusy \cup {[c \in Conns |-> 0]}

=============================================================================
