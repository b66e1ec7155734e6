----------------------- MODULE MCSessionsService -----------------------
(***************************************************************************)
(* The instance of SessionsService that TLC checks: two transactions, one  *)
(* station that the stations table has and one that it has not.            *)
(***************************************************************************)
EXTENDS SessionsService, TLC

CONSTANTS t1, t2, st1, st2, r1, r2

MCTx == {t1, t2}
MCStations == {st1, st2}
MCKnown == {st1}
MCSlots == {r1, r2}

=============================================================================
