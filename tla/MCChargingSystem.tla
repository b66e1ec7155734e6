----------------------- MODULE MCChargingSystem -----------------------
(***************************************************************************)
(* Instances of ChargingSystem that TLC checks.                            *)
(***************************************************************************)
EXTENDS ChargingSystem, TLC

CONSTANTS c1, c2, t1, t2, st1, st2, r1, r2

MCConns == {c1, c2}
MCTx == {t1, t2}
MCStations == {st1, st2}
MCSlots == {r1, r2}
SlotSymmetry == Permutations(MCSlots)

(* Two connections of one station, after a reconnect; they use the same
   transaction ids. *)
SameStation == [c \in Conns |-> st1]
SameTx == [c \in Conns |-> Tx]

(* One station per connection, each with a transaction id of its own. *)
OwnStation == (c1 :> st1) @@ (c2 :> st2)
OwnTx == (c1 :> {t1}) @@ (c2 :> {t2})

=============================================================================
