------------------------- MODULE TelemetryService -------------------------
(***************************************************************************)
(* telemetry-service: the meter-values callback inserts one row.  A row is *)
(* kept as the session id and the reading; equal rows are not counted,     *)
(* because meter values are not deduplicated by anyone and no property     *)
(* depends on how many there are.                                          *)
(***************************************************************************)
EXTENDS Deployment, HttpCall

VARIABLES
    readings,   \* telemetry_data: a set of [sid, value]
    treqs       \* the requests being handled, by slot

telemetryVars == <<readings, treqs>>

Reading == [sid : Nat, value : Int]

TReq == [pc : {"free", "recv", "ok", "err"}, open : BOOLEAN, sid : Nat,
         value : Int]

FreeTReq == [pc |-> "free", open |-> FALSE, sid |-> 0, value |-> 0]

TelemetryInit ==
    /\ readings = {}
    /\ treqs = [s \in Slots |-> FreeTReq]

(* MeterHandler.ServeHTTP: session id 0 is answered with 400. *)
MeterReceive(s, sid, value) ==
    /\ treqs[s].pc = "free"
    /\ treqs' = [treqs EXCEPT ![s] =
         [pc |-> IF sid = 0 THEN "err" ELSE "recv", open |-> TRUE,
          sid |-> sid, value |-> value]]
    /\ UNCHANGED readings

(* StoreMeterValue: one insert, whose result may be lost. *)
StoreMeterValue(s, acked) ==
    LET r == treqs[s]
    IN  /\ r.pc = "recv"
        /\ acked \/ "db" \in Faults
        /\ readings' = readings \cup {[sid |-> r.sid, value |-> r.value]}
        /\ treqs' = [treqs EXCEPT ![s] =
                       Finish(r, IF acked THEN "ok" ELSE "err", FreeTReq)]

(* The insert fails without effect, or its context is cancelled. *)
StoreMeterValueFails(s) ==
    /\ treqs[s].pc = "recv"
    /\ "db" \in Faults \/ ~treqs[s].open
    /\ treqs' = [treqs EXCEPT ![s] = Finish(@, "err", FreeTReq)]
    /\ UNCHANGED readings

(* The process dies and is started again. *)
MeterCrash ==
    /\ "crash" \in Faults
    /\ treqs' = [s \in Slots |-> Broken(treqs[s], FreeTReq)]
    /\ UNCHANGED readings

MeterStep(s) ==
    \/ \E b \in BOOLEAN : StoreMeterValue(s, b)
    \/ StoreMeterValueFails(s)

(* The caller reads the answer. *)
MeterReply(s) ==
    /\ treqs[s].open /\ Answered(treqs[s])
    /\ treqs' = [treqs EXCEPT ![s] = FreeTReq]
    /\ UNCHANGED readings

(* The caller's five seconds are over. *)
MeterTimeout(s) ==
    /\ "timeout" \in Faults
    /\ treqs[s].open
    /\ treqs' = [treqs EXCEPT ![s] = Abandon(@, FreeTReq)]
    /\ UNCHANGED readings

(* The caller's process dies. *)
MeterCallersGone ==
    /\ "restart" \in Faults
    /\ treqs' = [s \in Slots |-> Abandon(treqs[s], FreeTReq)]
    /\ UNCHANGED readings

(* Every variable has its type. *)
TelemetryTypeOK ==
    /\ readings \subseteq Reading
    /\ treqs \in [Slots -> TReq]

=============================================================================
