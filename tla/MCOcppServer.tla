------------------------- MODULE MCOcppServer -------------------------
(***************************************************************************)
(* The instance of OcppServer alone that TLC checks: one connection for    *)
(* each of two stations.                                                   *)
(***************************************************************************)
EXTENDS OcppServer, TLC

CONSTANTS c1, c2, t1, st1, st2

OwnStation == (c1 :> st1) @@ (c2 :> st2)
SameTx == [c \in Conns |-> Tx]

=============================================================================
