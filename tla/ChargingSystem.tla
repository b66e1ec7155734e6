------------------------- MODULE ChargingSystem -------------------------
(***************************************************************************)
(* The backend from a station's messages to the records they leave:        *)
(* ocpp-server calling sessions-service, billing-service and telemetry-    *)
(* service.  A call occupies a slot of the called service from the moment  *)
(* it is sent; the handler that sent it waits for the answer or gives up.  *)
(* A request whose caller gave up stays with the service and may still     *)
(* take effect, in any order with the caller's later calls.                *)
(***************************************************************************)
EXTENDS OcppServer, SessionsService, BillingService, TelemetryService

vars == <<h, txStore, state, stations, gen, starts,
          sessions, nextId, cache, sreqs, bills, tariffs, breqs,
          readings, treqs>>

Init == OcppInit /\ SessionsInit /\ BillingInit /\ TelemetryInit

-----------------------------------------------------------------------------
(* A service works on its own requests. *)

SessionsWork(s) ==
    SessStep(s) /\ UNCHANGED <<ocppVars, billingVars, telemetryVars>>
BillingWork(s) ==
    BillStep(s) /\ UNCHANGED <<ocppVars, sessionsVars, telemetryVars>>
TelemetryWork(s) ==
    MeterStep(s) /\ UNCHANGED <<ocppVars, sessionsVars, billingVars>>

CacheExpires ==
    /\ \E tx \in Tx : Expire(tx)
    /\ UNCHANGED <<ocppVars, billingVars, telemetryVars>>
TariffChanges ==
    TariffStep /\ UNCHANGED <<ocppVars, sessionsVars, telemetryVars>>

(* A service's process dies; in-flight calls break. *)
ServiceCrashes ==
    \/ SessCrash /\ UNCHANGED <<ocppVars, billingVars, telemetryVars>>
    \/ BillCrash /\ UNCHANGED <<ocppVars, sessionsVars, telemetryVars>>
    \/ MeterCrash /\ UNCHANGED <<ocppVars, sessionsVars, billingVars>>

-----------------------------------------------------------------------------
(* Handlers of ocpp-server. *)

MessageArrives(c) ==
    Begin(c) /\ UNCHANGED <<sessionsVars, billingVars, telemetryVars>>
HandlerWorks(c) ==
    OwnStep(c) /\ UNCHANGED <<sessionsVars, billingVars, telemetryVars>>

(* SessionsClient.CreateFromOCPP: the request, its answer, and no answer. *)
StartCall(c, s) ==
    /\ Wait(c, "startCall", "startWait", s)
    /\ SessReceive(s, "start", h[c].tx, StationOf[c], 0)
    /\ UNCHANGED <<billingVars, telemetryVars>>

(* Mutant: the id of an unsuccessful answer is used. *)
StartAnsweredAnyway(c) ==
    /\ h[c].pc = "startWait"
    /\ SessReply(h[c].slot)
    /\ StartReturn(c, IF sreqs[h[c].slot].pc = "ok"
                      THEN sreqs[h[c].slot].id ELSE nextId)
    /\ UNCHANGED <<billingVars, telemetryVars>>

StartAnswered(c) ==
    /\ h[c].pc = "startWait"
    /\ SessReply(h[c].slot)
    /\ StartReturn(c, IF sreqs[h[c].slot].pc = "ok"
                      THEN sreqs[h[c].slot].id ELSE 0)
    /\ UNCHANGED <<billingVars, telemetryVars>>

(* Mutant: the client has no timeout. *)
StartGivenUpNever(c) == FALSE /\ UNCHANGED vars

StartGivenUp(c) ==
    /\ h[c].pc = "startWait"
    /\ SessTimeout(h[c].slot)
    /\ StartReturn(c, 0)
    /\ UNCHANGED <<billingVars, telemetryVars>>

(* SessionsClient.CompleteFromOCPP *)
StopCall(c, s) ==
    /\ Wait(c, "stopCall", "stopWait", s)
    /\ SessReceive(s, "stop", h[c].tx, None, h[c].energy)
    /\ UNCHANGED <<billingVars, telemetryVars>>

StopEnds(c) ==
    /\ h[c].pc = "stopWait"
    /\ SessReply(h[c].slot) \/ SessTimeout(h[c].slot)
    /\ StopReturn(c)
    /\ UNCHANGED <<billingVars, telemetryVars>>

(* BillingClient.NotifySessionStop *)
BillCall(c, s) ==
    /\ Wait(c, "billCall", "billWait", s)
    /\ BillReceive(s, h[c].sid, h[c].energy)
    /\ UNCHANGED <<sessionsVars, telemetryVars>>

BillEnds(c) ==
    /\ h[c].pc = "billWait"
    /\ BillReply(h[c].slot) \/ BillTimeout(h[c].slot)
    /\ BillReturn(c)
    /\ UNCHANGED <<sessionsVars, telemetryVars>>

(* TelemetryClient.NotifyMeterValue *)
MeterCall(c, s) ==
    /\ Wait(c, "meterCall", "meterWait", s)
    /\ MeterReceive(s, h[c].sid, h[c].meter)
    /\ UNCHANGED <<sessionsVars, billingVars>>

MeterEnds(c) ==
    /\ h[c].pc = "meterWait"
    /\ MeterReply(h[c].slot) \/ MeterTimeout(h[c].slot)
    /\ MeterReturn(c)
    /\ UNCHANGED <<sessionsVars, billingVars>>

(* A call that fails before it reaches the service. *)
CallFails(c) ==
    /\ "down" \in Faults
    /\ h[c].pc \in {"startCall", "stopCall", "billCall", "meterCall"}
    /\ StartReturn(c, 0) \/ StopReturn(c) \/ BillReturn(c) \/ MeterReturn(c)
    /\ UNCHANGED <<sessionsVars, billingVars, telemetryVars>>

(* Any step of the handler of connection c after the message has arrived. *)
HandlerStep(c) ==
    \/ HandlerWorks(c)
    \/ \E s \in Slots : \/ StartCall(c, s) \/ StopCall(c, s)
                        \/ BillCall(c, s) \/ MeterCall(c, s)
    \/ StartAnswered(c) \/ StartGivenUp(c)
    \/ StopEnds(c) \/ BillEnds(c) \/ MeterEnds(c)
    \/ CallFails(c)

(* ocpp-server dies: nobody waits for the calls in flight any more. *)
OcppRestarts ==
    /\ Restart
    /\ SessCallersGone /\ BillCallersGone /\ MeterCallersGone

ServiceStep ==
    \/ \E s \in Slots : SessionsWork(s) \/ BillingWork(s) \/ TelemetryWork(s)
    \/ CacheExpires
    \/ TariffChanges
    \/ ServiceCrashes

Next ==
    \/ \E c \in Conns : MessageArrives(c) \/ HandlerStep(c)
    \/ ServiceStep
    \/ OcppRestarts

Spec == Init /\ [][Next]_vars

(* Goroutines are scheduled, a call is sent, and a call that is not answered
   ends when its five seconds are over: a handler that can take a step takes
   one.  Nothing is assumed of the services. *)
HandlerFairSpec == Spec /\ \A c \in Conns : WF_vars(HandlerStep(c))

(* The services, too, work off their requests. *)
FairSpec ==
    /\ HandlerFairSpec
    /\ \A s \in Slots : /\ WF_vars(SessionsWork(s))
                        /\ WF_vars(BillingWork(s))
                        /\ WF_vars(TelemetryWork(s))

-----------------------------------------------------------------------------
(* Properties. *)

(* Every variable of every component has its type. *)
TypeOK == OcppTypeOK /\ SessionsTypeOK /\ BillingTypeOK /\ TelemetryTypeOK

IsSession(sid) == \E tx \in Tx : Exists(tx) /\ sessions[tx].id = sid

(* Every billing transaction is for a session that exists.  The two databases
   share no foreign key: it holds because ocpp-server never bills an id that
   sessions-service has not answered with, through timeouts, lost results,
   crashes, restarts and requests that take effect late. *)
BilledSessionsExist == \A i \in DOMAIN bills : IsSession(bills[i].sid)

(* The same of every row of telemetry data. *)
MeteredSessionsExist == \A r \in readings : IsSession(r.sid)

(* ocpp-server's transaction store relates a transaction to its own session
   or to none, also when a session-start was given up and answered late. *)
ContextsNameSession ==
    \A tx \in Tx : txStore[tx].sid # 0 =>
      Exists(tx) /\ txStore[tx].sid = sessions[tx].id

(* A session is billed once: when transactions are started once and belong
   to one connection, neither a repeated StopTransaction nor a restart, a
   timeout or a lost answer makes a second billing transaction. *)
NoDoubleBilling ==
    \A i, j \in DOMAIN bills : i # j => bills[i].sid # bills[j].sid

(* The records behave like the ledger. *)
Ledger == INSTANCE ChargingLedger WITH
    ledger <- [tx \in Tx |-> [id |-> sessions[tx].id,
                             status |-> sessions[tx].status]],
    billed <- [i \in DOMAIN bills |-> bills[i].sid]

LedgerSpec == Ledger!LedgerSpec

(* No message occupies its connection for ever, whatever the services do,
   because every call is given up in the end. *)
HandlersReturn == \A c \in Conns : h[c].pc # "idle" ~> h[c].pc = "idle"

(* Without faults, stopping a transaction that the store knows completes its
   session and bills the energy that the meter readings say. *)
StopSettles ==
    \A c \in Conns : \A tx \in TxOf[c], e \in Energies, sid \in 1..MaxStarts :
      (/\ h[c].pc = "stopDelete" /\ h[c].tx = tx
       /\ h[c].sid = sid /\ h[c].energy = e) ~>
      (/\ sessions[tx].status = "completed" /\ sessions[tx].energy = e
       /\ \E i \in DOMAIN bills : bills[i].sid = sid /\ bills[i].energy = e)

=============================================================================
