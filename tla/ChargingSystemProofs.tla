---------------------- MODULE ChargingSystemProofs ----------------------
(***************************************************************************)
(* Billing transactions and telemetry data are only ever about sessions    *)
(* that exist, although nothing but ocpp-server relates the databases.     *)
(*                                                                         *)
(* The argument follows an id from the sessions table to the other two.    *)
(* sessions-service answers with the id of the transaction's row           *)
(* (AnswersNameRow).  The answer is read by the handler that asked, for    *)
(* its own transaction, because no two handlers wait on one slot and a     *)
(* slot is not reused while somebody waits (CallsInFlight, OwnSlots,       *)
(* FreeIsClosed).  So a handler's session id, and then that of the         *)
(* transaction store, is the id of its transaction's row (HandlersName-    *)
(* Session, ContextsNameSession), and stays so because rows keep their     *)
(* ids.  From there it is copied into requests, and from requests into     *)
(* rows (RequestsNameSession, BilledSessionsExist, MeteredSessionsExist).  *)
(***************************************************************************)
EXTENDS ChargingSystem, OcppServerProofs, SessionsServiceProofs,
        BillingServiceProofs

(* Session id sid is none, or the id of transaction tx's row. *)
Names(tx, sid) == sid # 0 => tx \in Tx /\ sid = sessions[tx].id

HandlersNameSession == \A c \in Conns : Names(h[c].tx, h[c].sid)

(* The handler r waits for an answer of sessions-service. *)
Waiting(r) == r.pc \in {"startWait", "stopWait"}

(* A handler waits for a request that is open and, if it waits for a session
   id, was made for its own transaction. *)
CallsInFlight ==
    \A c \in Conns :
      Waiting(h[c]) =>
        /\ h[c].slot \in Slots /\ sreqs[h[c].slot].open
        /\ h[c].pc = "startWait" => /\ sreqs[h[c].slot].kind = "start"
                                    /\ sreqs[h[c].slot].tx = h[c].tx

OwnSlots ==
    \A c, d \in Conns :
      c # d /\ Waiting(h[c]) /\ Waiting(h[d]) => h[c].slot # h[d].slot

FreeIsClosed == \A s \in Slots : sreqs[s].pc = "free" => ~sreqs[s].open

RequestsNameSession ==
    \A s \in Slots : /\ breqs[s].sid # 0 => IsSession(breqs[s].sid)
                     /\ treqs[s].sid # 0 => IsSession(treqs[s].sid)

(* A meter-values request that will be stored has a session id. *)
MeterRequestsValid == \A s \in Slots : treqs[s].pc = "recv" => treqs[s].sid # 0

Inv ==
    /\ OcppTypeOK /\ SessionsInv /\ BillingInv /\ TelemetryTypeOK
    /\ CallsInFlight /\ OwnSlots /\ FreeIsClosed
    /\ HandlersNameSession /\ ContextsNameSession
    /\ RequestsNameSession /\ MeterRequestsValid
    /\ BilledSessionsExist /\ MeteredSessionsExist

(* What happens at billing-service and telemetry-service other than the
   arrival of a request. *)
BillingOwn ==
    \/ \E s \in Slots : BillStep(s) \/ BillReply(s) \/ BillTimeout(s)
    \/ TariffStep
    \/ BillCrash
    \/ BillCallersGone

TelemetryOwn ==
    \/ \E s \in Slots : MeterStep(s) \/ MeterReply(s) \/ MeterTimeout(s)
    \/ MeterCrash
    \/ MeterCallersGone

-----------------------------------------------------------------------------

(* The initial state satisfies the invariant. *)
LEMMA InitInv == Init => Inv
<1> SUFFICES ASSUME Init PROVE Inv
  OBVIOUS
<1>1. OcppTypeOK /\ SessionsInv /\ BillingInv
  BY OcppInitType, SessionsInitInv, BillingInitInv DEF Init
<1>2. TelemetryTypeOK
  BY DEF Init, TelemetryInit, TelemetryTypeOK, TReq, FreeTReq
<1>3. CallsInFlight /\ OwnSlots /\ FreeIsClosed
  BY DEF Init, OcppInit, SessionsInit, CallsInFlight, OwnSlots, FreeIsClosed,
         Waiting, Idle, FreeSReq
<1>4. HandlersNameSession /\ ContextsNameSession
  BY DEF Init, OcppInit, HandlersNameSession, ContextsNameSession, Names,
         Idle, NoContext
<1>5. RequestsNameSession /\ MeterRequestsValid
  BY DEF Init, BillingInit, TelemetryInit, RequestsNameSession,
         MeterRequestsValid, FreeBReq, FreeTReq
<1>6. BilledSessionsExist /\ MeteredSessionsExist
  BY DEF Init, BillingInit, TelemetryInit, BilledSessionsExist, MeteredSessionsExist
<1> QED BY <1>1, <1>2, <1>3, <1>4, <1>5, <1>6 DEF Inv

(* Every step of the system is a step of each component, or leaves the
   component alone; the requests of the last two come from ocpp-server. *)
LEMMA StepsOfComponents ==
  ASSUME Inv, Next
  PROVE  /\ OcppAction \/ UNCHANGED ocppVars
         /\ SessionsAction \/ UNCHANGED sessionsVars
         /\ \/ BillingOwn \/ UNCHANGED billingVars
            \/ \E c \in Conns, s \in Slots : BillCall(c, s)
         /\ \/ TelemetryOwn \/ UNCHANGED telemetryVars
            \/ \E c \in Conns, s \in Slots : MeterCall(c, s)
<1> DEFINE Goal == /\ OcppAction \/ UNCHANGED ocppVars
                   /\ SessionsAction \/ UNCHANGED sessionsVars
                   /\ \/ BillingOwn \/ UNCHANGED billingVars
                      \/ \E c \in Conns, s \in Slots : BillCall(c, s)
                   /\ \/ TelemetryOwn \/ UNCHANGED telemetryVars
                      \/ \E c \in Conns, s \in Slots : MeterCall(c, s)
<1>1. \A c \in Conns : /\ h[c] \in Handler /\ StationOf[c] \in Stations
                       /\ h[c].pc \in {"startWait", "stopWait"} => h[c].slot \in Slots
  BY OcppAssumption DEF Inv, OcppTypeOK, CallsInFlight, Waiting
<1>2. \A c \in Conns : /\ h[c].tx \in Tx \cup {None} /\ h[c].energy \in Nat
                       /\ h[c].sid \in Nat /\ h[c].meter \in Int
                       /\ h[c].slot \in Slots \cup {None}
  BY <1>1 DEF Handler
<1>3. \A s \in Slots : sreqs[s].id \in Nat
  BY DEF Inv, SessionsInv, SessionsTypeOK, SReq
<1>4. ASSUME NEW c \in Conns, MessageArrives(c) \/ HandlerWorks(c)
      PROVE  Goal
  BY <1>4 DEF MessageArrives, HandlerWorks, OcppAction
<1>5. ASSUME NEW c \in Conns, NEW s \in Slots, StartCall(c, s) PROVE Goal
  <2>1. OcppAction
    BY <1>5, Zenon DEF StartCall, OcppAction
  <2>2. SessionsAction
    BY <1>5, <1>1, <1>2 DEF StartCall, SessionsAction
  <2> QED BY <2>1, <2>2, <1>5 DEF StartCall
<1>6. ASSUME NEW c \in Conns, NEW s \in Slots, StopCall(c, s) PROVE Goal
  <2>1. OcppAction
    BY <1>6, Zenon DEF StopCall, OcppAction
  <2>2. SessionsAction
    BY <1>6, <1>1, <1>2 DEF StopCall, SessionsAction
  <2> QED BY <2>1, <2>2, <1>6 DEF StopCall
<1>7. ASSUME NEW c \in Conns, NEW s \in Slots, BillCall(c, s) PROVE Goal
  <2>1. OcppAction
    BY <1>7, Zenon DEF BillCall, OcppAction
  <2> QED BY <2>1, <1>7 DEF BillCall
<1>8. ASSUME NEW c \in Conns, NEW s \in Slots, MeterCall(c, s) PROVE Goal
  <2>1. OcppAction
    BY <1>8, Zenon DEF MeterCall, OcppAction
  <2> QED BY <2>1, <1>8 DEF MeterCall
<1>9. ASSUME NEW c \in Conns, StartAnswered(c) \/ StartGivenUp(c) PROVE Goal
  <2>1. h[c].slot \in Slots /\ (SessReply(h[c].slot) \/ SessTimeout(h[c].slot))
    BY <1>9, <1>1 DEF StartAnswered, StartGivenUp
  <2>2. \E sid \in Nat : StartReturn(c, sid)
    <3>1. CASE StartAnswered(c)
      BY <3>1, <2>1, <1>3 DEF StartAnswered
    <3>2. CASE StartGivenUp(c)
      BY <3>2 DEF StartGivenUp
    <3> QED BY <1>9, <3>1, <3>2
  <2>3. OcppAction /\ SessionsAction
    BY <2>1, <2>2, Zenon DEF OcppAction, SessionsAction
  <2> QED BY <2>3, <1>9 DEF StartAnswered, StartGivenUp
<1>10. ASSUME NEW c \in Conns, StopEnds(c) PROVE Goal
  <2>1. h[c].slot \in Slots
    BY <1>10, <1>1 DEF StopEnds
  <2>2. OcppAction /\ SessionsAction
    BY <2>1, <1>10, Zenon DEF StopEnds, OcppAction, SessionsAction
  <2> QED BY <2>2, <1>10 DEF StopEnds
<1>11. ASSUME NEW c \in Conns, BillEnds(c) PROVE Goal
  <2>1. OcppAction
    BY <1>11, Zenon DEF BillEnds, OcppAction
  <2>2. BillingOwn \/ UNCHANGED billingVars
    <3>1. CASE h[c].slot \in Slots
      BY <3>1, <1>11, Zenon DEF BillEnds, BillingOwn
    <3>2. CASE h[c].slot \notin Slots
      BY <3>2, <1>11 DEF BillEnds, BillReply, BillTimeout, billingVars, Inv, BillingInv, BillingTypeOK
    <3> QED BY <3>1, <3>2
  <2> QED BY <2>1, <2>2, <1>11 DEF BillEnds
<1>12. ASSUME NEW c \in Conns, MeterEnds(c) PROVE Goal
  <2>1. OcppAction
    BY <1>12, Zenon DEF MeterEnds, OcppAction
  <2>2. TelemetryOwn \/ UNCHANGED telemetryVars
    <3>1. CASE h[c].slot \in Slots
      BY <3>1, <1>12, Zenon DEF MeterEnds, TelemetryOwn
    <3>2. CASE h[c].slot \notin Slots
      BY <3>2, <1>12 DEF MeterEnds, MeterReply, MeterTimeout, telemetryVars, Inv, TelemetryTypeOK
    <3> QED BY <3>1, <3>2
  <2> QED BY <2>1, <2>2, <1>12 DEF MeterEnds
<1>13. ASSUME NEW c \in Conns, CallFails(c) PROVE Goal
  <2>1. OcppAction
    BY <1>13 DEF CallFails, OcppAction
  <2> QED BY <2>1, <1>13 DEF CallFails
<1>14. ASSUME NEW c \in Conns, HandlerStep(c) PROVE Goal
  BY <1>14, <1>4, <1>5, <1>6, <1>7, <1>8, <1>9, <1>10, <1>11, <1>12, <1>13
     DEF HandlerStep
<1>15. ASSUME NEW s \in Slots, SessionsWork(s) \/ BillingWork(s) \/ TelemetryWork(s)
       PROVE  Goal
  BY <1>15 DEF SessionsWork, BillingWork, TelemetryWork, SessionsAction,
               BillingOwn, TelemetryOwn
<1>16. CASE CacheExpires \/ TariffChanges \/ ServiceCrashes
  BY <1>16 DEF CacheExpires, TariffChanges, ServiceCrashes, SessionsAction,
               BillingOwn, TelemetryOwn
<1>17. CASE OcppRestarts
  BY <1>17 DEF OcppRestarts, OcppAction, SessionsAction, BillingOwn, TelemetryOwn
<1> QED BY <1>4, <1>14, <1>15, <1>16, <1>17 DEF Next, ServiceStep

-----------------------------------------------------------------------------
(* What the services do to their requests. *)

(* A request a step of sessions-service works on stays open, and the same
   request, as long as its caller waits. *)
LEMMA OpenRequestsKept ==
  ASSUME SessionsInv, FreeIsClosed, NEW s \in Slots,
         \/ \E u \in Slots : SessStep(u)
         \/ \E tx \in Tx : Expire(tx)
         \/ SessCrash
  PROVE  /\ sreqs[s].open => /\ sreqs'[s].open /\ sreqs'[s].kind = sreqs[s].kind
                             /\ sreqs'[s].tx = sreqs[s].tx
         /\ sreqs'[s].pc = "free" => ~sreqs'[s].open
<1>1. sreqs \in [Slots -> SReq] /\ ~FreeSReq.open
  BY DEF SessionsInv, SessionsTypeOK, FreeSReq
<1> DEFINE Fine(r, r2) ==
      /\ r.open => r2.open /\ r2.kind = r.kind /\ r2.tx = r.tx
      /\ r2.pc = "free" => ~r2.open
<1>2. \A r \in SReq : /\ Fine(r, Finish(r, "ok", FreeSReq))
                      /\ Fine(r, Finish(r, "err", FreeSReq))
                      /\ Fine(r, Broken(r, FreeSReq))
                      /\ ~r.open => Fine(r, FreeSReq)
                      /\ Fine(r, [r EXCEPT !.pc = "saved"])
                      /\ \A id : Fine(r, [r EXCEPT !.pc = "saved", !.id = id])
  BY DEF Finish, Broken, SReq, FreeSReq
<1>3. \A u \in Slots : Fine(sreqs[u], sreqs[u]) /\ sreqs[u] \in SReq
  BY <1>1 DEF FreeIsClosed
<1>4. ASSUME NEW u \in Slots, SessStep(u)
      PROVE  Fine(sreqs[s], sreqs'[s])
  <2>1. ASSUME NEW r2, sreqs' = [sreqs EXCEPT ![u] = r2], Fine(sreqs[u], r2)
        PROVE  Fine(sreqs[s], sreqs'[s])
    <3>1. CASE s = u
      BY <3>1, <2>1, <1>1
    <3>2. CASE s # u
      BY <3>2, <2>1, <1>1, <1>3
    <3> QED BY <3>1, <3>2
  <2>2. ASSUME NEW b \in BOOLEAN, StartSession(u, b)
        PROVE  Fine(sreqs[s], sreqs'[s])
    <3>1. CASE b
      BY <3>1, <2>1, <2>2, <1>2, <1>3 DEF StartSession, Upsert
    <3>2. CASE ~b
      BY <3>2, <2>1, <2>2, <1>2, <1>3 DEF StartSession, Upsert
    <3> QED BY <3>1, <3>2
  <2>3. ASSUME NEW b \in BOOLEAN, CompleteSession(u, b)
        PROVE  Fine(sreqs[s], sreqs'[s])
    <3>1. CASE b
      BY <3>1, <2>1, <2>3, <1>2, <1>3 DEF CompleteSession
    <3>2. CASE ~b
      BY <3>2, <2>1, <2>3, <1>2, <1>3 DEF CompleteSession
    <3> QED BY <3>1, <3>2
  <2>4. ASSUME NEW b \in BOOLEAN, Save(u, b) \/ Delete(u, b)
        PROVE  Fine(sreqs[s], sreqs'[s])
    BY <2>1, <2>4, <1>2, <1>3 DEF Save, Delete
  <2>5. CASE StartSessionRefused(u) \/ CompleteSessionNoRows(u) \/ SessDbError(u)
    BY <2>1, <2>5, <1>2, <1>3 DEF StartSessionRefused, CompleteSessionNoRows, SessDbError
  <2>6. CASE SessCacheCancelled(u)
    BY <2>1, <2>6, <1>2, <1>3 DEF SessCacheCancelled
  <2> QED BY <1>4, <2>2, <2>3, <2>4, <2>5, <2>6 DEF SessStep
<1>5. CASE \E tx \in Tx : Expire(tx)
  BY <1>5, <1>3 DEF Expire
<1>6. CASE SessCrash
  BY <1>6, <1>2, <1>3 DEF SessCrash
<1> QED BY <1>4, <1>5, <1>6

(* telemetry-service keeps its types and stores only what names a session. *)
LEMMA TelemetryStepInv ==
  ASSUME TelemetryTypeOK, MeterRequestsValid,
         \/ TelemetryOwn \/ UNCHANGED telemetryVars
         \/ \E s \in Slots, sid \in Nat, v \in Int : MeterReceive(s, sid, v)
  PROVE  /\ TelemetryTypeOK' /\ MeterRequestsValid'
         /\ \A r \in readings' : r \in readings \/
              \E s \in Slots : r.sid = treqs[s].sid /\ r.sid # 0
<1> DEFINE Goal == /\ TelemetryTypeOK' /\ MeterRequestsValid'
                   /\ \A r \in readings' : r \in readings \/
                        \E s \in Slots : r.sid = treqs[s].sid /\ r.sid # 0
<1>1. /\ treqs \in [Slots -> TReq] /\ readings \subseteq Reading
      /\ FreeTReq \in TReq /\ FreeTReq.pc = "free"
  BY DEF TelemetryTypeOK, TReq, FreeTReq
<1>2. ASSUME NEW r \in TReq
      PROVE  /\ \A x \in {"ok", "err"} : /\ Finish(r, x, FreeTReq) \in TReq
                                        /\ Finish(r, x, FreeTReq).pc # "recv"
             /\ Broken(r, FreeTReq) \in TReq /\ Broken(r, FreeTReq).pc # "recv"
             /\ Abandon(r, FreeTReq) \in TReq
             /\ Abandon(r, FreeTReq).pc = "recv" =>
                  r.pc = "recv" /\ Abandon(r, FreeTReq).sid = r.sid
  <2>1. ASSUME NEW x \in {"ok", "err"}
        PROVE  [r EXCEPT !.pc = x] \in TReq /\ [r EXCEPT !.pc = x].pc # "recv"
    BY DEF TReq
  <2>2. /\ [r EXCEPT !.open = FALSE] \in TReq
        /\ [r EXCEPT !.open = FALSE].pc = r.pc /\ [r EXCEPT !.open = FALSE].sid = r.sid
    BY DEF TReq
  <2>3. /\ \A x : Finish(r, x, FreeTReq) \in {[r EXCEPT !.pc = x], FreeTReq}
        /\ Broken(r, FreeTReq) \in {[r EXCEPT !.pc = "err"], FreeTReq}
        /\ Abandon(r, FreeTReq) \in {[r EXCEPT !.open = FALSE], FreeTReq}
    BY DEF Finish, Broken, Abandon
  <2>4. FreeTReq.pc # "recv"
    BY <1>1
  <2> QED BY <1>1, <2>1, <2>2, <2>3, <2>4, Zenon
<1>3. ASSUME NEW s \in Slots, NEW r2 \in TReq, treqs' = [treqs EXCEPT ![s] = r2],
             readings' = readings, r2.pc = "recv" => r2.sid # 0
      PROVE  Goal
  BY <1>3, <1>1 DEF TelemetryTypeOK, MeterRequestsValid
<1>4. ASSUME NEW s \in Slots, NEW sid \in Nat, NEW v \in Int, MeterReceive(s, sid, v)
      PROVE  Goal
  <2> DEFINE r2 == [pc |-> IF sid = 0 THEN "err" ELSE "recv", open |-> TRUE,
                    sid |-> sid, value |-> v]
  <2>1. r2 \in TReq /\ (r2.pc = "recv" => r2.sid # 0)
    BY DEF TReq
  <2>2. treqs' = [treqs EXCEPT ![s] = r2] /\ readings' = readings
    BY <1>4 DEF MeterReceive
  <2> HIDE DEF r2
  <2> QED BY <2>1, <2>2, <1>3
<1>5. ASSUME NEW s \in Slots, NEW b \in BOOLEAN, StoreMeterValue(s, b)
      PROVE  Goal
  <2> DEFINE x == IF b THEN "ok" ELSE "err"
             row == [sid |-> treqs[s].sid, value |-> treqs[s].value]
  <2>1. x \in {"ok", "err"}
    OBVIOUS
  <2>2. /\ treqs' = [treqs EXCEPT ![s] = Finish(treqs[s], x, FreeTReq)]
        /\ readings' = readings \cup {row}
        /\ treqs[s].sid # 0 /\ treqs[s] \in TReq
    BY <1>5, <1>1 DEF StoreMeterValue, MeterRequestsValid
  <2>3. row \in Reading /\ row.sid = treqs[s].sid
    BY <2>2 DEF Reading, TReq
  <2> HIDE DEF x, row
  <2>4. Finish(treqs[s], x, FreeTReq) \in TReq /\ Finish(treqs[s], x, FreeTReq).pc # "recv"
    BY <2>1, <2>2, <1>2
  <2> QED BY <2>2, <2>3, <2>4, <1>1 DEF TelemetryTypeOK, MeterRequestsValid
<1>6. ASSUME NEW s \in Slots, StoreMeterValueFails(s) PROVE Goal
  BY <1>6, <1>1, <1>2, <1>3 DEF StoreMeterValueFails
<1>7. ASSUME NEW s \in Slots, MeterReply(s) PROVE Goal
  BY <1>7, <1>1, <1>3 DEF MeterReply
<1>8. ASSUME NEW s \in Slots, MeterTimeout(s) PROVE Goal
  <2>1. treqs[s] \in TReq
    BY <1>1
  <2> QED BY <2>1, <1>8, <1>2, <1>3 DEF MeterTimeout, MeterRequestsValid
<1>9. CASE MeterCrash \/ MeterCallersGone
  BY <1>9, <1>1, <1>2 DEF MeterCrash, MeterCallersGone, TelemetryTypeOK, MeterRequestsValid
<1>10. CASE UNCHANGED telemetryVars
  BY <1>10, <1>1 DEF telemetryVars, TelemetryTypeOK, MeterRequestsValid
<1> QED BY <1>4, <1>5, <1>6, <1>7, <1>8, <1>9, <1>10 DEF TelemetryOwn, MeterStep

-----------------------------------------------------------------------------
(* Who waits for which request.  In the lemmas, q is what becomes of a
   request and r what becomes of the handler of connection c. *)

(* The invariant's part about slots. *)
SlotsInv ==
    /\ h \in [Conns -> Handler] /\ sreqs \in [Slots -> SReq]
    /\ CallsInFlight /\ OwnSlots /\ FreeIsClosed

(* A handler that does not wait afterwards, and leaves the requests alone. *)
LEMMA NoWait ==
  ASSUME SlotsInv, NEW c \in Conns, NEW r, ~Waiting(r),
         h' = [h EXCEPT ![c] = r], sreqs' = sreqs
  PROVE  CallsInFlight' /\ OwnSlots' /\ FreeIsClosed'
<1>1. \A d \in Conns : (h'[d] = h[d] /\ d # c) \/ ~Waiting(h'[d])
  BY DEF SlotsInv
<1>2. CallsInFlight'
  BY <1>1 DEF SlotsInv, CallsInFlight, Waiting
<1>3. OwnSlots'
  BY <1>1 DEF SlotsInv, OwnSlots, Waiting
<1> QED BY <1>2, <1>3 DEF SlotsInv, FreeIsClosed

(* A handler that stops waiting frees or abandons its own request only. *)
LEMMA WaitEnds ==
  ASSUME SlotsInv, NEW c \in Conns, Waiting(h[c]), NEW r, ~Waiting(r),
         h' = [h EXCEPT ![c] = r], NEW q,
         sreqs' = [sreqs EXCEPT ![h[c].slot] = q],
         q.pc = "free" => ~q.open
  PROVE  CallsInFlight' /\ OwnSlots' /\ FreeIsClosed'
<1>1. \A d \in Conns : (h'[d] = h[d] /\ d # c) \/ ~Waiting(h'[d])
  BY DEF SlotsInv
<1>2. \A d \in Conns : Waiting(h'[d]) =>
         /\ h'[d] = h[d] /\ h[d].slot \in Slots /\ h[d].slot # h[c].slot
         /\ sreqs'[h[d].slot] = sreqs[h[d].slot]
  BY <1>1 DEF SlotsInv, CallsInFlight, OwnSlots
<1>3. CallsInFlight'
  BY <1>2 DEF SlotsInv, CallsInFlight, Waiting
<1>4. OwnSlots'
  BY <1>1 DEF SlotsInv, OwnSlots, Waiting
<1>5. FreeIsClosed'
  BY DEF SlotsInv, FreeIsClosed
<1> QED BY <1>3, <1>4, <1>5

(* A call takes a slot that is free, hence one nobody waits on. *)
LEMMA WaitBegins ==
  ASSUME SlotsInv, NEW c \in Conns, NEW s \in Slots, sreqs[s].pc = "free",
         NEW r, h' = [h EXCEPT ![c] = r], r.slot = s,
         NEW q, sreqs' = [sreqs EXCEPT ![s] = q], q.open, q.pc # "free",
         r.pc = "startWait" => q.kind = "start" /\ q.tx = r.tx
  PROVE  CallsInFlight' /\ OwnSlots' /\ FreeIsClosed'
<1>1. \A d \in Conns : d # c => h'[d] = h[d]
  BY DEF SlotsInv
<1>2. h'[c] = r /\ sreqs'[s] = q
  BY DEF SlotsInv
<1>3. \A d \in Conns : Waiting(h[d]) =>
         /\ h[d].slot \in Slots /\ h[d].slot # s
         /\ sreqs'[h[d].slot] = sreqs[h[d].slot]
  BY DEF SlotsInv, CallsInFlight, FreeIsClosed
<1>4. CallsInFlight'
  <2> SUFFICES ASSUME NEW d \in Conns, Waiting(h'[d])
               PROVE  /\ h'[d].slot \in Slots /\ sreqs'[h'[d].slot].open
                      /\ h'[d].pc = "startWait" =>
                           /\ sreqs'[h'[d].slot].kind = "start"
                           /\ sreqs'[h'[d].slot].tx = h'[d].tx
    BY DEF CallsInFlight, Waiting
  <2>1. CASE d = c
    BY <2>1, <1>2
  <2>2. CASE d # c
    BY <2>2, <1>1, <1>3 DEF SlotsInv, CallsInFlight
  <2> QED BY <2>1, <2>2
<1>5. OwnSlots'
  <2> SUFFICES ASSUME NEW d \in Conns, NEW e \in Conns, d # e,
                      Waiting(h'[d]), Waiting(h'[e])
               PROVE  h'[d].slot # h'[e].slot
    BY DEF OwnSlots, Waiting
  <2>1. CASE d = c
    BY <2>1, <1>1, <1>2, <1>3
  <2>2. CASE e = c
    BY <2>2, <1>1, <1>2, <1>3
  <2>3. CASE d # c /\ e # c
    BY <2>3, <1>1 DEF SlotsInv, OwnSlots
  <2> QED BY <2>1, <2>2, <2>3
<1>6. FreeIsClosed'
  BY <1>2 DEF SlotsInv, FreeIsClosed
<1> QED BY <1>4, <1>5, <1>6

(* Steps of sessions-service alone. *)
LEMMA ServiceKeepsSlots ==
  ASSUME SlotsInv, SessionsInv, h' = h,
         \/ \E u \in Slots : SessStep(u)
         \/ \E tx \in Tx : Expire(tx)
         \/ SessCrash
  PROVE  CallsInFlight' /\ OwnSlots' /\ FreeIsClosed'
<1>1. ASSUME NEW s \in Slots
      PROVE  /\ sreqs[s].open => /\ sreqs'[s].open /\ sreqs'[s].kind = sreqs[s].kind
                                 /\ sreqs'[s].tx = sreqs[s].tx
             /\ sreqs'[s].pc = "free" => ~sreqs'[s].open
  BY OpenRequestsKept DEF SlotsInv
<1>2. CallsInFlight'
  BY <1>1 DEF SlotsInv, CallsInFlight, Waiting
<1>3. OwnSlots'
  BY DEF SlotsInv, OwnSlots, Waiting
<1>4. FreeIsClosed'
  BY <1>1 DEF FreeIsClosed
<1> QED BY <1>2, <1>3, <1>4

-----------------------------------------------------------------------------
(* Session ids in handlers and in the transaction store. *)

(* Rows keep their ids, so an id that names a row now names it afterwards. *)
LEMMA NamesKept ==
  ASSUME IdsKept
  PROVE  /\ \A tx, sid : Names(tx, sid) => Names(tx, sid)'
         /\ \A sid : IsSession(sid) => IsSession(sid)'
BY DEF IdsKept, Names, IsSession, Exists

(* A handler record whose session id names its transaction's row. *)
Sound(r) == Names(r.tx, r.sid)

(* A message that arrives, a step on ocpp-server's own state, and the answer
   to a call whose content does not matter: the handler does not wait for
   sessions-service afterwards, and its session id is its row's. *)
LEMMA HandlerStaysSound ==
  ASSUME Inv, NEW c \in Conns,
         \/ Begin(c) \/ OwnStep(c)
         \/ StopReturn(c) \/ BillReturn(c) \/ MeterReturn(c)
         \/ \E s \in Slots : \/ Wait(c, "billCall", "billWait", s)
                            \/ Wait(c, "meterCall", "meterWait", s)
  PROVE  \E r : h' = [h EXCEPT ![c] = r] /\ ~Waiting(r) /\ Sound(r)
<1>1. /\ h \in [Conns -> Handler] /\ h[c] \in Handler /\ Sound(h[c])
      /\ txStore \in [Tx -> Context]
      /\ Sound(Idle) /\ ~Waiting(Idle)
  BY DEF Inv, OcppTypeOK, HandlersNameSession, Sound, Names, Idle, Waiting
<1>2. \A tx \in Tx : Names(tx, txStore[tx].sid)
  BY DEF Inv, ContextsNameSession, Names
<1>3. ASSUME NEW r, h' = [h EXCEPT ![c] = r], ~Waiting(r), Sound(r)
      PROVE  \E r2 : h' = [h EXCEPT ![c] = r2] /\ ~Waiting(r2) /\ Sound(r2)
  BY <1>3
<1>4. CASE BeginStart(c)
  <2>1. PICK tx \in TxOf[c], k \in Connectors, m \in Meters :
          h' = [h EXCEPT ![c] = [Idle EXCEPT !.pc = "startCall", !.tx = tx,
                                             !.con = k, !.meter = m]]
    BY <1>4 DEF BeginStart
  <2> DEFINE r == [Idle EXCEPT !.pc = "startCall", !.tx = tx, !.con = k, !.meter = m]
  <2>2. ~Waiting(r) /\ Sound(r)
    BY DEF Idle, Waiting, Sound, Names
  <2> HIDE DEF r
  <2> QED BY <2>1, <2>2, <1>3 DEF r
<1>5. CASE BeginStop(c)
  <2>1. PICK tx \in TxOf[c] \cup {None}, m \in Meters :
         LET known == tx \in Tx /\ txStore[tx].live
             ctx   == IF known THEN txStore[tx] ELSE NoContext
         IN  h' = [h EXCEPT ![c] =
               [Idle EXCEPT !.pc = IF known THEN "stopDelete" ELSE "stopCall",
                            !.tx = tx, !.meter = m, !.sid = ctx.sid,
                            !.energy = IF known /\ m > ctx.meter
                                       THEN m - ctx.meter ELSE 0]]
    BY <1>5 DEF BeginStop
  <2> DEFINE known == tx \in Tx /\ txStore[tx].live
             ctx   == IF known THEN txStore[tx] ELSE NoContext
             e == IF known /\ m > ctx.meter THEN m - ctx.meter ELSE 0
             pc == IF known THEN "stopDelete" ELSE "stopCall"
             r == [Idle EXCEPT !.pc = pc, !.tx = tx, !.meter = m,
                               !.sid = ctx.sid, !.energy = e]
  <2>2. h' = [h EXCEPT ![c] = r]
    BY <2>1
  <2>3. Names(tx, ctx.sid) /\ pc \notin {"startWait", "stopWait"}
    BY <1>2 DEF Names, NoContext
  <2> HIDE DEF known, ctx, e, pc
  <2>4. r.pc = pc /\ r.tx = tx /\ r.sid = ctx.sid
    BY DEF Idle
  <2> HIDE DEF r
  <2> QED BY <2>2, <2>3, <2>4, <1>3 DEF Waiting, Sound
<1>6. CASE BeginMeter(c)
  <2>1. PICK tx \in TxOf[c], m \in Meters :
         h' = [h EXCEPT ![c] = [Idle EXCEPT !.pc = "meterCall", !.tx = tx,
                                  !.meter = m, !.sid = txStore[tx].sid]]
    BY <1>6 DEF BeginMeter
  <2> DEFINE r == [Idle EXCEPT !.pc = "meterCall", !.tx = tx,
                               !.meter = m, !.sid = txStore[tx].sid]
  <2>2. tx \in Tx
    BY OcppAssumption
  <2>3. r.pc = "meterCall" /\ r.tx = tx /\ r.sid = txStore[tx].sid
    BY DEF Idle
  <2>4. h' = [h EXCEPT ![c] = r]
    BY <2>1
  <2> HIDE DEF r
  <2> QED BY <2>2, <2>3, <2>4, <1>2, <1>3 DEF Waiting, Sound
<1>7. CASE BeginBoot(c)
  <2> DEFINE r == [Idle EXCEPT !.pc = "bootState"]
  <2>1. ~Waiting(r) /\ Sound(r)
    BY DEF Idle, Waiting, Sound, Names
  <2>2. ~Waiting(h[c]) /\ (h' = [h EXCEPT ![c] = r] \/ h' = [h EXCEPT ![c] = h[c]])
    BY <1>1, <1>7 DEF BeginBoot, Waiting
  <2> HIDE DEF r
  <2> QED BY <2>1, <2>2, <1>1, <1>3
<1>8. CASE BeginStatus(c)
  <2>1. PICK k \in Connectors, sent \in Statuses \cup {None} :
          h' = [h EXCEPT ![c] = [Idle EXCEPT !.pc = "statusState", !.con = k,
                  !.status = IF sent = None THEN "Available" ELSE sent]]
    BY <1>8 DEF BeginStatus
  <2> DEFINE r == [Idle EXCEPT !.pc = "statusState", !.con = k,
                     !.status = IF sent = None THEN "Available" ELSE sent]
  <2>2. r.pc = "statusState" /\ r.sid = 0
    BY DEF Idle
  <2>3. h' = [h EXCEPT ![c] = r]
    BY <2>1
  <2> HIDE DEF r
  <2> QED BY <2>2, <2>3, <1>3 DEF Waiting, Sound, Names
<1>9. CASE StartSet(c) \/ StopState(c) \/ BootState(c) \/ StatusConnector(c) \/ MeterReturn(c)
  <2>1. h' = [h EXCEPT ![c] = Idle]
    BY <1>9 DEF StartSet, StopState, BootState, StatusConnector, MeterReturn
  <2> QED BY <2>1, <1>1, <1>3
<1>10. ASSUME NEW pc, NEW s, pc \notin {"startWait", "stopWait"},
              \/ h' = [h EXCEPT ![c] = [h[c] EXCEPT !.pc = pc]]
              \/ h' = [h EXCEPT ![c] = [h[c] EXCEPT !.pc = pc, !.slot = s]]
              \/ h' = [h EXCEPT ![c] = [h[c] EXCEPT !.slot = s, !.pc = pc]]
       PROVE  \E r : h' = [h EXCEPT ![c] = r] /\ ~Waiting(r) /\ Sound(r)
  <2>1. ASSUME NEW r, r.pc = pc, r.tx = h[c].tx, r.sid = h[c].sid
        PROVE  ~Waiting(r) /\ Sound(r)
    BY <2>1, <1>1, <1>10 DEF Waiting, Sound
  <2>2. \A r \in {[h[c] EXCEPT !.pc = pc], [h[c] EXCEPT !.pc = pc, !.slot = s],
                  [h[c] EXCEPT !.slot = s, !.pc = pc]} :
          r.pc = pc /\ r.tx = h[c].tx /\ r.sid = h[c].sid
    BY <1>1 DEF Handler
  <2>3. \A r \in {[h[c] EXCEPT !.pc = pc], [h[c] EXCEPT !.pc = pc, !.slot = s],
                  [h[c] EXCEPT !.slot = s, !.pc = pc]} : ~Waiting(r) /\ Sound(r)
    BY <2>1, <2>2
  <2> QED BY <2>3, <1>10, Zenon
<1>11. CASE StatusState(c)
  <2>1. CASE h[c].con > 0
    <3>1. h' = [h EXCEPT ![c] = [h[c] EXCEPT !.pc = "statusConnector"]]
      BY <2>1, <1>11 DEF StatusState
    <3>2. "statusConnector" \notin {"startWait", "stopWait"}
      OBVIOUS
    <3> QED BY <3>1, <3>2, <1>10, Zenon
  <2>2. CASE ~(h[c].con > 0)
    <3>1. h' = [h EXCEPT ![c] = Idle]
      BY <2>2, <1>11 DEF StatusState
    <3> QED BY <3>1, <1>1, <1>3
  <2> QED BY <2>1, <2>2
<1>12. CASE StopDelete(c)
  <2>1. h' = [h EXCEPT ![c] = [h[c] EXCEPT !.pc = "stopCall"]]
    BY <1>12, <1>1 DEF StopDelete
  <2>2. "stopCall" \notin {"startWait", "stopWait"}
    OBVIOUS
  <2> QED BY <2>1, <2>2, <1>10, Zenon
<1>13. CASE StopReturn(c) \/ BillReturn(c)
  <2> DEFINE pc == IF StopReturn(c) /\ h[c].sid > 0 THEN "billCall" ELSE "stopState"
  <2>1. pc \notin {"startWait", "stopWait"}
    OBVIOUS
  <2>2. h' = [h EXCEPT ![c] = [h[c] EXCEPT !.slot = None, !.pc = pc]]
    <3>1. CASE StopReturn(c)
      BY <3>1, <1>1 DEF StopReturn
    <3>2. CASE ~StopReturn(c) /\ BillReturn(c)
      BY <3>2, <1>1 DEF BillReturn
    <3> QED BY <1>13, <3>1, <3>2
  <2> HIDE DEF pc
  <2> QED BY <2>1, <2>2, <1>10, Zenon
<1>14. ASSUME NEW s \in Slots,
              Wait(c, "billCall", "billWait", s) \/ Wait(c, "meterCall", "meterWait", s)
       PROVE  \E r : h' = [h EXCEPT ![c] = r] /\ ~Waiting(r) /\ Sound(r)
  <2>1. ASSUME NEW from, NEW to, to \notin {"startWait", "stopWait"}, Wait(c, from, to, s)
        PROVE  \E r : h' = [h EXCEPT ![c] = r] /\ ~Waiting(r) /\ Sound(r)
    <3>1. h' = [h EXCEPT ![c] = [h[c] EXCEPT !.pc = to, !.slot = s]]
      BY <2>1, <1>1 DEF Wait
    <3> QED BY <2>1, <3>1, <1>10, Zenon
  <2>2. {"billWait", "meterWait"} \cap {"startWait", "stopWait"} = {}
    OBVIOUS
  <2> QED BY <2>1, <2>2, <1>14
<1> QED BY <1>4, <1>5, <1>6, <1>7, <1>8, <1>9, <1>11, <1>12, <1>13, <1>14
        DEF Begin, OwnStep

(* The store takes its session ids from handlers that are sound. *)
LEMMA ContextsStaySound ==
  ASSUME Inv, IdsKept, OcppAction \/ UNCHANGED ocppVars
  PROVE  ContextsNameSession'
<1>1. /\ txStore \in [Tx -> Context]
      /\ \A tx \in Tx : Names(tx, txStore[tx].sid)
  BY DEF Inv, OcppTypeOK, ContextsNameSession, Names
<1>2. SUFFICES \A tx \in Tx : Names(tx, txStore'[tx].sid)
  BY <1>2, NamesKept DEF ContextsNameSession, Names, Exists
<1>3. CASE txStore' = txStore
  BY <1>3, <1>1
<1>4. ASSUME NEW c \in Conns, StartSet(c)
      PROVE  \A tx \in Tx : Names(tx, txStore'[tx].sid)
  <2>1. h[c].tx \in Tx /\ Names(h[c].tx, h[c].sid)
    BY <1>4 DEF StartSet, Inv, OcppTypeOK, HandlersNameSession
  <2>2. txStore' = [txStore EXCEPT ![h[c].tx] =
                      [live |-> TRUE, sid |-> h[c].sid, meter |-> h[c].meter]]
    BY <1>4 DEF StartSet
  <2> QED BY <2>1, <2>2, <1>1
<1>5. ASSUME NEW c \in Conns, StopDelete(c)
      PROVE  \A tx \in Tx : Names(tx, txStore'[tx].sid)
  BY <1>5, <1>1 DEF StopDelete, NoContext, Names
<1>6. CASE Restart
  BY <1>6 DEF Restart, NoContext, Names
<1>7. ASSUME NEW c \in Conns, Begin(c) PROVE txStore' = txStore
  BY <1>7 DEF Begin, BeginStart, BeginStop, BeginMeter, BeginBoot, BeginStatus
<1>8. ASSUME NEW c \in Conns, OwnStep(c)
      PROVE  StartSet(c) \/ StopDelete(c) \/ txStore' = txStore
  BY <1>8 DEF OwnStep, StopState, BootState, StatusState, StatusConnector
<1> QED BY <1>3, <1>4, <1>5, <1>6, <1>7, <1>8
        DEF OcppAction, Wait, StartReturn, StopReturn, BillReturn, MeterReturn, ocppVars

(* One handler's step: the others keep their records. *)
LEMMA OneHandlerSound ==
  ASSUME Inv, IdsKept, NEW c \in Conns, NEW r, h' = [h EXCEPT ![c] = r], Sound(r)
  PROVE  HandlersNameSession'
<1>1. \A d \in Conns : Names(h'[d].tx, h'[d].sid)
  BY DEF Inv, OcppTypeOK, HandlersNameSession, Sound
<1> QED BY <1>1, NamesKept DEF HandlersNameSession, Names

(* A call to sessions-service is made. *)
LEMMA CallMade ==
  ASSUME Inv, IdsKept, NEW c \in Conns, NEW s \in Slots,
         StartCall(c, s) \/ StopCall(c, s)
  PROVE  CallsInFlight' /\ OwnSlots' /\ FreeIsClosed' /\ HandlersNameSession'
<1>1. /\ SlotsInv /\ h[c] \in Handler /\ Sound(h[c]) /\ h \in [Conns -> Handler]
  BY DEF Inv, SlotsInv, OcppTypeOK, SessionsInv, SessionsTypeOK, HandlersNameSession, Sound
<1> DEFINE r(pc) == [h[c] EXCEPT !.pc = pc, !.slot = s]
           q(kind, st, e) ==
             [pc |-> IF h[c].tx = None THEN "err" ELSE "recv", open |-> TRUE,
              kind |-> kind, tx |-> h[c].tx, station |-> st, energy |-> e, id |-> 0]
<1>2. \A pc : r(pc).pc = pc /\ r(pc).slot = s /\ r(pc).tx = h[c].tx /\ r(pc).sid = h[c].sid
  BY <1>1 DEF Handler
<1>3. \A kind, st, e : /\ q(kind, st, e).open /\ q(kind, st, e).pc # "free"
                       /\ q(kind, st, e).kind = kind /\ q(kind, st, e).tx = h[c].tx
  OBVIOUS
<1>4. \/ /\ h' = [h EXCEPT ![c] = r("startWait")]
         /\ sreqs' = [sreqs EXCEPT ![s] = q("start", StationOf[c], 0)]
      \/ /\ h' = [h EXCEPT ![c] = r("stopWait")]
         /\ sreqs' = [sreqs EXCEPT ![s] = q("stop", None, h[c].energy)]
  <2>1. CASE StartCall(c, s)
    BY <2>1, <1>1 DEF StartCall, Wait, SessReceive
  <2>2. CASE StopCall(c, s)
    BY <2>2, <1>1 DEF StopCall, Wait, SessReceive
  <2> QED BY <2>1, <2>2
<1>5. sreqs[s].pc = "free"
  BY DEF StartCall, StopCall, SessReceive
<1> HIDE DEF r, q
<1>6. \A pc : Sound(r(pc))
  BY <1>1, <1>2 DEF Sound
<1>7. HandlersNameSession'
  BY <1>4, <1>6, OneHandlerSound
<1>8. PICK r2, q2 :
        /\ h' = [h EXCEPT ![c] = r2] /\ r2.slot = s
        /\ sreqs' = [sreqs EXCEPT ![s] = q2] /\ q2.open /\ q2.pc # "free"
        /\ r2.pc = "startWait" => q2.kind = "start" /\ q2.tx = r2.tx
  <2>1. CASE /\ h' = [h EXCEPT ![c] = r("startWait")]
             /\ sreqs' = [sreqs EXCEPT ![s] = q("start", StationOf[c], 0)]
    <3> WITNESS r("startWait"), q("start", StationOf[c], 0)
    <3> QED BY <2>1, <1>2, <1>3
  <2>2. CASE /\ h' = [h EXCEPT ![c] = r("stopWait")]
             /\ sreqs' = [sreqs EXCEPT ![s] = q("stop", None, h[c].energy)]
    <3> WITNESS r("stopWait"), q("stop", None, h[c].energy)
    <3> QED BY <2>2, <1>2, <1>3
  <2> QED BY <1>4, <2>1, <2>2
<1> QED BY <1>8, <1>1, <1>5, <1>7, WaitBegins

(* A call to sessions-service ends: what the handler learns from an answer
   is the id of its own transaction's row. *)
LEMMA CallEnds ==
  ASSUME Inv, IdsKept, NEW c \in Conns,
         StartAnswered(c) \/ StartGivenUp(c) \/ StopEnds(c)
  PROVE  CallsInFlight' /\ OwnSlots' /\ FreeIsClosed' /\ HandlersNameSession'
<1> DEFINE s == h[c].slot
<1>1. /\ SlotsInv /\ h[c] \in Handler /\ Sound(h[c]) /\ h \in [Conns -> Handler]
  BY DEF Inv, SlotsInv, OcppTypeOK, SessionsInv, SessionsTypeOK, HandlersNameSession, Sound
<1>2. Waiting(h[c]) /\ s \in Slots /\ sreqs[s] \in SReq
  BY <1>1 DEF StartAnswered, StartGivenUp, StopEnds, Waiting, SlotsInv, CallsInFlight
<1>3. \E q : sreqs' = [sreqs EXCEPT ![s] = q] /\ (q.pc = "free" => ~q.open)
  <2>1. CASE SessReply(s)
    <3>1. sreqs' = [sreqs EXCEPT ![s] = FreeSReq] /\ ~FreeSReq.open
      BY <2>1 DEF SessReply, FreeSReq
    <3> QED BY <3>1
  <2>2. CASE SessTimeout(s)
    <3>1. sreqs' = [sreqs EXCEPT ![s] = Abandon(sreqs[s], FreeSReq)]
      BY <2>2, <1>1 DEF SessTimeout, SlotsInv
    <3>2. ~Abandon(sreqs[s], FreeSReq).open
      BY <1>2 DEF Abandon, FreeSReq, SReq
    <3> QED BY <3>1, <3>2
  <2> QED BY <2>1, <2>2 DEF StartAnswered, StartGivenUp, StopEnds
<1>4. \E r : h' = [h EXCEPT ![c] = r] /\ ~Waiting(r) /\ Sound(r)
  <2>1. ASSUME NEW sid, StartReturn(c, sid), Names(h[c].tx, sid)
        PROVE  \E r : h' = [h EXCEPT ![c] = r] /\ ~Waiting(r) /\ Sound(r)
    <3> DEFINE r == [h[c] EXCEPT !.pc = "startSet", !.sid = sid, !.slot = None]
    <3>1. r.pc = "startSet" /\ r.tx = h[c].tx /\ r.sid = sid
      BY <1>1 DEF Handler
    <3>2. h' = [h EXCEPT ![c] = r]
      BY <2>1, <1>1 DEF StartReturn
    <3> HIDE DEF r
    <3> QED BY <2>1, <3>1, <3>2 DEF Waiting, Sound
  <2>2. CASE StartAnswered(c)
    <3>1. /\ sreqs[s].kind = "start" /\ sreqs[s].tx = h[c].tx
          /\ StartReturn(c, IF sreqs[s].pc = "ok" THEN sreqs[s].id ELSE 0)
      BY <2>2, <1>1, <1>2 DEF StartAnswered, SlotsInv, CallsInFlight
    <3>2. CASE sreqs[s].pc = "ok"
      <4>1. Names(h[c].tx, sreqs[s].id) /\ StartReturn(c, sreqs[s].id)
        BY <3>1, <3>2, <1>2 DEF Inv, SessionsInv, AnswersNameRow, ValidatedTx, Names
      <4> QED BY <4>1, <2>1
    <3>3. CASE sreqs[s].pc # "ok"
      BY <3>1, <3>3, <2>1 DEF Names
    <3> QED BY <3>2, <3>3
  <2>3. CASE StartGivenUp(c)
    BY <2>3, <2>1 DEF StartGivenUp, Names
  <2>4. CASE StopEnds(c)
    BY <2>4, HandlerStaysSound DEF StopEnds
  <2> QED BY <2>2, <2>3, <2>4
<1>5. HandlersNameSession'
  BY <1>4, OneHandlerSound
<1> QED BY <1>1, <1>2, <1>3, <1>4, <1>5, WaitEnds

(* Every step keeps track of who waits for what and of who names which
   session. *)
LEMMA StepStaysSound ==
  ASSUME Inv, Next, IdsKept
  PROVE  CallsInFlight' /\ OwnSlots' /\ FreeIsClosed' /\ HandlersNameSession'
<1> DEFINE Goal == CallsInFlight' /\ OwnSlots' /\ FreeIsClosed' /\ HandlersNameSession'
<1>1. SlotsInv /\ SessionsInv
  BY DEF Inv, SlotsInv, OcppTypeOK, SessionsInv, SessionsTypeOK
<1>2. ASSUME NEW c \in Conns, sreqs' = sreqs,
             \E r : h' = [h EXCEPT ![c] = r] /\ ~Waiting(r) /\ Sound(r)
      PROVE  Goal
  BY <1>1, <1>2, NoWait, OneHandlerSound
<1>3. ASSUME NEW c \in Conns,
             MessageArrives(c) \/ HandlerWorks(c) \/ BillEnds(c) \/ MeterEnds(c)
      PROVE  Goal
  <2>1. sreqs' = sreqs
    BY <1>3 DEF MessageArrives, HandlerWorks, BillEnds, MeterEnds, sessionsVars
  <2>2. Begin(c) \/ OwnStep(c) \/ BillReturn(c) \/ MeterReturn(c)
    BY <1>3 DEF MessageArrives, HandlerWorks, BillEnds, MeterEnds
  <2> QED BY <2>1, <2>2, <1>2, HandlerStaysSound
<1>4. ASSUME NEW c \in Conns, NEW s \in Slots, BillCall(c, s) \/ MeterCall(c, s)
      PROVE  Goal
  <2>1. sreqs' = sreqs
    BY <1>4 DEF BillCall, MeterCall, sessionsVars
  <2>2. Wait(c, "billCall", "billWait", s) \/ Wait(c, "meterCall", "meterWait", s)
    BY <1>4 DEF BillCall, MeterCall
  <2> QED BY <2>1, <2>2, <1>2, HandlerStaysSound
<1>5. ASSUME NEW c \in Conns, CallFails(c) PROVE Goal
  <2>1. sreqs' = sreqs
    BY <1>5 DEF CallFails, sessionsVars
  <2>2. CASE StartReturn(c, 0)
    <3> DEFINE r == [h[c] EXCEPT !.pc = "startSet", !.sid = 0, !.slot = None]
    <3>1. h \in [Conns -> Handler] /\ h[c] \in Handler
      BY <1>1 DEF SlotsInv
    <3>2. r.pc = "startSet" /\ r.sid = 0
      BY <3>1 DEF Handler
    <3>3. h' = [h EXCEPT ![c] = r]
      BY <2>2, <3>1 DEF StartReturn
    <3> HIDE DEF r
    <3>4. ~Waiting(r) /\ Sound(r)
      BY <3>2 DEF Waiting, Sound, Names
    <3> QED BY <2>1, <3>3, <3>4, <1>2
  <2>3. CASE StopReturn(c) \/ BillReturn(c) \/ MeterReturn(c)
    BY <2>1, <2>3, <1>2, HandlerStaysSound
  <2> QED BY <1>5, <2>2, <2>3 DEF CallFails
<1>6. ASSUME NEW c \in Conns, HandlerStep(c) PROVE Goal
  BY <1>3, <1>4, <1>5, <1>6, CallMade, CallEnds DEF HandlerStep
<1>7. CASE h' = h /\ sreqs' = sreqs
  BY <1>7, <1>1, NamesKept
     DEF Inv, CallsInFlight, OwnSlots, FreeIsClosed, HandlersNameSession, Waiting, Names
<1>8. CASE h' = h /\ (\/ \E u \in Slots : SessStep(u)
                      \/ \E tx \in Tx : Expire(tx)
                      \/ SessCrash)
  <2>1. HandlersNameSession'
    BY <1>8, NamesKept DEF Inv, HandlersNameSession, Names
  <2> QED BY <2>1, <1>1, <1>8, ServiceKeepsSlots
<1>9. CASE ServiceStep
  BY <1>7, <1>8, <1>9
     DEF ServiceStep, SessionsWork, BillingWork, TelemetryWork, CacheExpires,
         TariffChanges, ServiceCrashes, ocppVars, sessionsVars
<1>10. CASE OcppRestarts
  <2>1. \A c \in Conns : h'[c] = Idle
    BY <1>10 DEF OcppRestarts, Restart
  <2>2. CallsInFlight' /\ OwnSlots' /\ HandlersNameSession'
    BY <2>1 DEF CallsInFlight, OwnSlots, HandlersNameSession, Waiting, Names, Idle
  <2>3. FreeIsClosed'
    <3>1. \A s \in Slots : ~Abandon(sreqs[s], FreeSReq).open
      BY <1>1 DEF SlotsInv, Abandon, FreeSReq, SReq
    <3> QED BY <3>1, <1>10 DEF OcppRestarts, SessCallersGone, FreeIsClosed
  <2> QED BY <2>2, <2>3
<1> QED BY <1>3, <1>6, <1>9, <1>10 DEF Next

-----------------------------------------------------------------------------
(* From requests to rows. *)

(* billing-service changes the session id of a request only to forget it,
   and a new row has the session id of a request. *)
LEMMA BillingSids ==
  ASSUME BillingInv, BillingOwn \/ UNCHANGED billingVars
  PROVE  /\ \A s \in Slots : breqs'[s].sid \in {breqs[s].sid, 0}
         /\ \A i \in DOMAIN bills' :
              \/ i \in DOMAIN bills /\ bills'[i] = bills[i]
              \/ \E s \in Slots : bills'[i].sid = breqs[s].sid /\ breqs[s].sid # 0
<1> DEFINE NewRows == \A i \in DOMAIN bills' :
              \/ i \in DOMAIN bills /\ bills'[i] = bills[i]
              \/ \E s \in Slots : bills'[i].sid = breqs[s].sid /\ breqs[s].sid # 0
           Sids == \A s \in Slots : breqs'[s].sid \in {breqs[s].sid, 0}
<1>1. /\ breqs \in [Slots -> BReq] /\ FreeBReq.sid = 0 /\ bills \in Seq(Bill)
      /\ \A s \in Slots : breqs[s] \in BReq
  BY DEF BillingInv, BillingTypeOK, FreeBReq
<1>2. ASSUME NEW r \in BReq
      PROVE  /\ \A x : Finish(r, x, FreeBReq).sid \in {r.sid, 0}
             /\ Broken(r, FreeBReq).sid \in {r.sid, 0}
             /\ Abandon(r, FreeBReq).sid \in {r.sid, 0}
             /\ \A p, m : [r EXCEPT !.pc = "priced", !.price = p,
                                     !.missed = m].sid = r.sid
  BY <1>1 DEF Finish, Broken, Abandon, BReq
<1>3. ASSUME NEW s \in Slots, NEW r2, breqs' = [breqs EXCEPT ![s] = r2],
             r2.sid \in {breqs[s].sid, 0}
      PROVE  Sids
  BY <1>1, <1>3
<1>4. ASSUME NEW s \in Slots, NEW b \in BOOLEAN, CreateTransaction(s, b)
      PROVE  Sids /\ NewRows
  <2> DEFINE row == [sid |-> breqs[s].sid, energy |-> breqs[s].energy,
                     price |-> breqs[s].price, amount |-> breqs[s].energy * breqs[s].price]
             x == IF b THEN "ok" ELSE "err"
  <2>1. /\ bills' = Append(bills, row) /\ breqs[s].pc = "priced"
        /\ breqs' = [breqs EXCEPT ![s] = Finish(breqs[s], x, FreeBReq)]
    BY <1>4, <1>1 DEF CreateTransaction
  <2>2. row.sid = breqs[s].sid /\ breqs[s].sid # 0
    BY <2>1 DEF BillingInv, RequestsPriced, RequestFine
  <2> HIDE DEF row, x
  <2>3. NewRows
    BY <2>1, <2>2, <1>1
  <2>4. Sids
    BY <2>1, <1>1, <1>2, <1>3
  <2> QED BY <2>3, <2>4
<1>5. ASSUME NEW s \in Slots, NEW p \in AllPrices, NEW m \in BOOLEAN,
             ActiveTariff(s, p, m)
      PROVE  Sids /\ NewRows
  <2>1. breqs' = [breqs EXCEPT ![s] = [breqs[s] EXCEPT !.pc = "priced", !.price = Charged(p),
                                                        !.missed = m]]
        /\ bills' = bills
    BY <1>5, <1>1 DEF ActiveTariff
  <2> QED BY <2>1, <1>1, <1>2, <1>3
<1>6. ASSUME NEW s \in Slots, CalculateFails(s)
                               \/ BillReply(s) \/ BillTimeout(s)
      PROVE  Sids /\ NewRows
  <2>1. /\ \E r2 \in {Finish(breqs[s], "err", FreeBReq), FreeBReq,
                     Abandon(breqs[s], FreeBReq)} : breqs' = [breqs EXCEPT ![s] = r2]
        /\ bills' = bills
    BY <1>6, <1>1 DEF CalculateFails, BillReply, BillTimeout
  <2> QED BY <2>1, <1>1, <1>2, <1>3
<1>7. CASE BillCrash \/ BillCallersGone
  BY <1>7, <1>1, <1>2 DEF BillCrash, BillCallersGone
<1>8. CASE TariffStep \/ UNCHANGED billingVars
  BY <1>8, <1>1, TariffStepLeaves DEF billingVars
<1> QED BY <1>4, <1>5, <1>6, <1>7, <1>8 DEF BillingOwn, BillStep

(* The same of telemetry-service's requests. *)
LEMMA TelemetrySids ==
  ASSUME TelemetryTypeOK, TelemetryOwn \/ UNCHANGED telemetryVars
  PROVE  \A s \in Slots : treqs'[s].sid \in {treqs[s].sid, 0}
<1> DEFINE Sids == \A s \in Slots : treqs'[s].sid \in {treqs[s].sid, 0}
<1>1. /\ treqs \in [Slots -> TReq] /\ FreeTReq.sid = 0
      /\ \A s \in Slots : treqs[s] \in TReq
  BY DEF TelemetryTypeOK, FreeTReq
<1>2. ASSUME NEW r \in TReq
      PROVE  /\ \A x : Finish(r, x, FreeTReq).sid \in {r.sid, 0}
             /\ Broken(r, FreeTReq).sid \in {r.sid, 0}
             /\ Abandon(r, FreeTReq).sid \in {r.sid, 0}
  BY <1>1 DEF Finish, Broken, Abandon, TReq
<1>3. ASSUME NEW s \in Slots, NEW r2, treqs' = [treqs EXCEPT ![s] = r2],
             r2.sid \in {treqs[s].sid, 0}
      PROVE  Sids
  BY <1>1, <1>3
<1>4. ASSUME NEW s \in Slots, MeterStep(s) \/ MeterReply(s) \/ MeterTimeout(s)
      PROVE  Sids
  <2>1. \E r2 \in {Finish(treqs[s], "ok", FreeTReq), Finish(treqs[s], "err", FreeTReq),
                   FreeTReq, Abandon(treqs[s], FreeTReq)} : treqs' = [treqs EXCEPT ![s] = r2]
    <3>1. ASSUME NEW b \in BOOLEAN, StoreMeterValue(s, b)
          PROVE  treqs' = [treqs EXCEPT ![s] =
                             Finish(treqs[s], IF b THEN "ok" ELSE "err", FreeTReq)]
      BY <3>1, <1>1 DEF StoreMeterValue
    <3> QED BY <1>4, <1>1, <3>1 DEF MeterStep, StoreMeterValueFails, MeterReply, MeterTimeout
  <2> QED BY <2>1, <1>1, <1>2, <1>3
<1>5. CASE MeterCrash \/ MeterCallersGone
  BY <1>5, <1>1, <1>2 DEF MeterCrash, MeterCallersGone
<1>6. CASE UNCHANGED telemetryVars
  BY <1>6, <1>1 DEF telemetryVars
<1> QED BY <1>4, <1>5, <1>6 DEF TelemetryOwn

(* Requests name sessions, since handlers do, and so do the rows. *)
LEMMA RowsNameSession ==
  ASSUME Inv, Next, IdsKept
  PROVE  /\ RequestsNameSession' /\ BilledSessionsExist' /\ MeteredSessionsExist'
         /\ BillingInv' /\ TelemetryTypeOK' /\ MeterRequestsValid'
<1>1. \A c \in Conns : /\ h[c].sid \in Nat /\ h[c].energy \in Nat /\ h[c].meter \in Int
                       /\ h[c].sid # 0 => IsSession(h[c].sid)
  <2>1. \A c \in Conns : h[c] \in Handler
    BY DEF Inv, OcppTypeOK
  <2>2. \A c \in Conns : h[c].sid # 0 => IsSession(h[c].sid)
    BY DEF Inv, HandlersNameSession, Names, IsSession, Exists
  <2> QED BY <2>1, <2>2 DEF Handler
<1>2. /\ \A s \in Slots : breqs'[s].sid # 0 => IsSession(breqs'[s].sid)
      /\ \A i \in DOMAIN bills' : IsSession(bills'[i].sid)
      /\ BillingInv'
  <2>1. CASE BillingOwn \/ UNCHANGED billingVars
    <3>1. /\ \A s \in Slots : breqs'[s].sid \in {breqs[s].sid, 0}
          /\ \A i \in DOMAIN bills' :
               \/ i \in DOMAIN bills /\ bills'[i] = bills[i]
               \/ \E s \in Slots : bills'[i].sid = breqs[s].sid /\ breqs[s].sid # 0
      BY <2>1, BillingSids DEF Inv
    <3>2. BillingInv'
      <4>1. CASE BillingOwn
        BY <4>1, BillingStepInv DEF Inv, BillingOwn, BillingAction
      <4>2. CASE UNCHANGED billingVars
        BY <4>2 DEF Inv, BillingInv, BillingTypeOK, RequestsPriced, BillsPriced,
                    RequestFine, WellPriced, InForceSince, billingVars
      <4> QED BY <2>1, <4>1, <4>2
    <3> QED BY <3>1, <3>2 DEF Inv, RequestsNameSession, BilledSessionsExist
  <2>2. ASSUME NEW c \in Conns, NEW s \in Slots, BillCall(c, s)
        PROVE  /\ \A u \in Slots : breqs'[u].sid # 0 => IsSession(breqs'[u].sid)
               /\ \A i \in DOMAIN bills' : IsSession(bills'[i].sid)
               /\ BillingInv'
    <3>1. BillingInv'
      BY <2>2, <1>1, BillingStepInv DEF Inv, BillCall, BillingAction
    <3>2. bills' = bills /\ \A u \in Slots : breqs'[u].sid \in {breqs[u].sid, h[c].sid}
      BY <2>2 DEF BillCall, BillReceive, Inv, BillingInv, BillingTypeOK
    <3> QED BY <3>1, <3>2, <1>1 DEF Inv, RequestsNameSession, BilledSessionsExist
  <2> QED BY <2>1, <2>2, StepsOfComponents
<1>3. /\ \A s \in Slots : treqs'[s].sid # 0 => IsSession(treqs'[s].sid)
      /\ \A r \in readings' : IsSession(r.sid)
      /\ TelemetryTypeOK' /\ MeterRequestsValid'
  <2>1. /\ TelemetryTypeOK' /\ MeterRequestsValid'
        /\ \A r \in readings' : r \in readings \/
             \E s \in Slots : r.sid = treqs[s].sid /\ r.sid # 0
    <3>1. ASSUME NEW c \in Conns, NEW s \in Slots, MeterCall(c, s)
          PROVE  \E sid \in Nat, v \in Int : MeterReceive(s, sid, v)
      BY <3>1, <1>1 DEF MeterCall
    <3>2. \/ TelemetryOwn \/ UNCHANGED telemetryVars
          \/ \E s \in Slots, sid \in Nat, v \in Int : MeterReceive(s, sid, v)
      BY <3>1, StepsOfComponents
    <3> QED BY <3>2, TelemetryStepInv DEF Inv
  <2>2. \A r \in readings' : IsSession(r.sid)
    BY <2>1 DEF Inv, RequestsNameSession, MeteredSessionsExist
  <2>3. CASE TelemetryOwn \/ UNCHANGED telemetryVars
    <3>1. \A s \in Slots : treqs'[s].sid \in {treqs[s].sid, 0}
      BY <2>3, TelemetrySids DEF Inv
    <3> QED BY <3>1, <2>1, <2>2 DEF Inv, RequestsNameSession
  <2>4. ASSUME NEW c \in Conns, NEW s \in Slots, MeterCall(c, s)
        PROVE  \A u \in Slots : treqs'[u].sid # 0 => IsSession(treqs'[u].sid)
    <3>1. \A u \in Slots : treqs'[u].sid \in {treqs[u].sid, h[c].sid}
      BY <2>4 DEF MeterCall, MeterReceive, Inv, TelemetryTypeOK
    <3> QED BY <3>1, <1>1 DEF Inv, RequestsNameSession
  <2> QED BY <2>1, <2>2, <2>3, <2>4, StepsOfComponents
<1>4. RequestsNameSession' /\ BilledSessionsExist' /\ MeteredSessionsExist'
  <2>1. \A sid : IsSession(sid) => \E tx \in Tx : sessions'[tx].id # 0 /\ sessions'[tx].id = sid
    BY NamesKept DEF IsSession, Exists
  <2> QED BY <1>2, <1>3, <2>1
          DEF RequestsNameSession, BilledSessionsExist, MeteredSessionsExist, IsSession, Exists
<1> QED BY <1>2, <1>3, <1>4

(* The invariant is inductive. *)
LEMMA NextInv ==
  ASSUME Inv, [Next]_vars
  PROVE  Inv'
<1>1. CASE Next
  <2>1. SessionsInv' /\ IdsKept
    <3>1. CASE SessionsAction
      BY <3>1, SessionsStepInv DEF Inv
    <3>2. CASE UNCHANGED sessionsVars
      BY <3>2 DEF Inv, SessionsInv, SessionsTypeOK, ValidatedTx, AnswersNameRow,
                  CacheBacked, UniqueIds, IdsKept, Exists, sessionsVars
    <3> QED BY <1>1, <3>1, <3>2, StepsOfComponents
  <2>2. OcppTypeOK'
    <3>1. CASE OcppAction
      BY <3>1, OcppStepType DEF Inv
    <3>2. CASE UNCHANGED ocppVars
      BY <3>2 DEF Inv, OcppTypeOK, ocppVars
    <3> QED BY <1>1, <3>1, <3>2, StepsOfComponents
  <2>3. CallsInFlight' /\ OwnSlots' /\ FreeIsClosed' /\ HandlersNameSession'
    BY <1>1, <2>1, StepStaysSound
  <2>4. ContextsNameSession'
    BY <1>1, <2>1, StepsOfComponents, ContextsStaySound
  <2>5. /\ RequestsNameSession' /\ BilledSessionsExist' /\ MeteredSessionsExist'
        /\ BillingInv' /\ TelemetryTypeOK' /\ MeterRequestsValid'
    BY <1>1, <2>1, RowsNameSession
  <2> QED BY <2>1, <2>2, <2>3, <2>4, <2>5 DEF Inv
<1>2. CASE UNCHANGED vars
  <2>1. OcppTypeOK' /\ TelemetryTypeOK'
    BY <1>2 DEF Inv, vars, OcppTypeOK, TelemetryTypeOK
  <2>2. SessionsInv'
    BY <1>2 DEF Inv, vars, SessionsInv, SessionsTypeOK, ValidatedTx, AnswersNameRow,
                CacheBacked, UniqueIds, Exists
  <2>3. BillingInv'
    BY <1>2 DEF Inv, vars, BillingInv, BillingTypeOK, RequestsPriced, BillsPriced,
                RequestFine, WellPriced, InForceSince
  <2>4. /\ CallsInFlight' /\ OwnSlots' /\ FreeIsClosed'
        /\ HandlersNameSession' /\ ContextsNameSession'
    BY <1>2 DEF Inv, vars, CallsInFlight, OwnSlots, FreeIsClosed, Waiting,
                HandlersNameSession, ContextsNameSession, Names, Exists
  <2>5. /\ RequestsNameSession' /\ MeterRequestsValid'
        /\ BilledSessionsExist' /\ MeteredSessionsExist'
    BY <1>2 DEF Inv, vars, RequestsNameSession, MeterRequestsValid,
                BilledSessionsExist, MeteredSessionsExist, IsSession, Exists
  <2> QED BY <2>1, <2>2, <2>3, <2>4, <2>5 DEF Inv
<1> QED BY <1>1, <1>2

(* Every reachable state of the composed system satisfies the invariant. *)
THEOREM SystemInvariant == Spec => []Inv
BY InitInv, NextInv, PTL DEF Spec

(* Every variable of every component keeps its type in the composed system:
   no handler writes the transaction store under an empty id and no row is
   about session 0. *)
THEOREM SystemTyped == Spec => []TypeOK
<1>1. Inv => TypeOK
  BY DEF Inv, TypeOK, SessionsInv, BillingInv
<1> QED BY <1>1, SystemInvariant, PTL

(* For any number of connections, stations, transactions and requests in
   flight and under every fault of the model: what is billed and metered is
   a session, and the transaction store names a transaction's own session. *)
THEOREM SessionsBehindRecords ==
  Spec => [](BilledSessionsExist /\ MeteredSessionsExist /\ ContextsNameSession)
<1>1. Inv => BilledSessionsExist /\ MeteredSessionsExist /\ ContextsNameSession
  BY DEF Inv
<1> QED BY <1>1, SystemInvariant, PTL

=============================================================================
