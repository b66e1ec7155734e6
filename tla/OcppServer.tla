--------------------------- MODULE OcppServer ---------------------------
(***************************************************************************)
(* ocpp-server: the OCPP handlers, the in-memory transaction store and     *)
(* station state they share, and the charging_stations table.              *)
(*                                                                         *)
(* A connection's readPump handles one message at a time, so there is one  *)
(* handler per connection; handlers of different connections (also of two  *)
(* connections of one station, after a reconnect) interleave.  One step of *)
(* a handler makes at most one access to something shared: a locked method *)
(* of TransactionStore or StationState, an SQL statement, or a call to a   *)
(* service.  A dropped connection does not interrupt its handler, because  *)
(* the context is cancelled only when readPump returns.                    *)
(*                                                                         *)
(* Messages that change nothing are left out: heartbeats, undecodable      *)
(* payloads and unknown actions, and so is the message log.                *)
(***************************************************************************)
EXTENDS Deployment

CONSTANTS
    Conns,          \* connections
    StationOf,      \* the station_id a connection was opened with
    TxOf,           \* the transaction ids a connection's messages carry
    Generated,      \* ids of the form that ocpp-server makes up itself
    Connectors,     \* connector ids in messages, 0 for none
    Statuses,       \* connector statuses in StatusNotification
    Kinds           \* the kinds of message that arrive

ASSUME OcppAssumption ==
    /\ StationOf \in [Conns -> Stations]
    /\ TxOf \in [Conns -> SUBSET Tx]
    /\ Generated \subseteq Tx
    /\ Connectors \subseteq Nat
    /\ {"Available", "Charging"} \subseteq Statuses /\ None \notin Statuses

VARIABLES
    h,          \* the handler of each connection
    txStore,    \* TransactionStore
    state,      \* StationState
    stations,   \* charging_stations: the status column, None for no row
    gen,        \* the generated ids handed out so far
    starts      \* StartTransaction messages so far

ocppVars == <<h, txStore, state, stations, gen, starts>>

Context == [live : BOOLEAN, sid : Nat, meter : Int]

NoContext == [live |-> FALSE, sid |-> 0, meter |-> 0]

Pcs == {"idle", "startCall", "startWait", "startSet",
        "stopDelete", "stopCall", "stopWait", "billCall", "billWait",
        "stopState", "meterCall", "meterWait",
        "bootState", "statusState", "statusConnector"}

Handler == [pc : Pcs, tx : Tx \cup {None}, con : Nat, meter : Int,
            sid : Nat, energy : Nat, slot : Slots \cup {None},
            status : Statuses \cup {None}]

Idle == [pc |-> "idle", tx |-> None, con |-> 0, meter |-> 0, sid |-> 0,
         energy |-> 0, slot |-> None, status |-> None]

(* A station that StationState does not know has no status. *)
NoState == [status |-> None, con |-> [k \in Connectors |-> None]]

OcppInit ==
    /\ h = [c \in Conns |-> Idle]
    /\ txStore = [tx \in Tx |-> NoContext]
    /\ state = [st \in Stations |-> NoState]
    /\ stations = [st \in Stations |-> None]
    /\ gen = {}
    /\ starts = 0

-----------------------------------------------------------------------------
(* StationState's two writers; both create the entry on first use. *)

UpdateStation(st, status) ==
    state' = [state EXCEPT ![st].status = status]

UpdateConnector(st, k, status) ==
    state' = [state EXCEPT ![st].con[k] = status]

(* StationRepository's two statements.  The UPDATE touches no row for a station
   that never booted. *)

UpsertStation(st, status) ==
    stations' = [stations EXCEPT ![st] = status]

UpdateStatus(st, status) ==
    stations' = [stations EXCEPT ![st] = IF @ = None THEN None ELSE status]

-----------------------------------------------------------------------------
(* StartTransaction. *)

(* Mutant: no id is made up for a message without one. *)
BeginStartNoId(c) ==
    /\ h[c].pc = "idle" /\ "start" \in Kinds
    /\ starts < MaxStarts
    /\ h' = [h EXCEPT ![c] = [Idle EXCEPT !.pc = "startCall"]]
    /\ starts' = starts + 1
    /\ UNCHANGED <<txStore, state, stations, gen>>

(* The message arrives; without a transaction id the server makes up a new
   one from the station id and the clock.  Stations do not make up ids of
   that form, so a generated id is started once. *)
BeginStart(c) ==
    /\ h[c].pc = "idle" /\ "start" \in Kinds
    /\ starts < MaxStarts
    /\ \E tx \in TxOf[c], k \in Connectors, m \in Meters :
         /\ tx \notin gen
         /\ gen' = gen \cup ({tx} \cap Generated)
         /\ h' = [h EXCEPT ![c] = [Idle EXCEPT !.pc = "startCall", !.tx = tx,
                                               !.con = k, !.meter = m]]
    /\ starts' = starts + 1
    /\ UNCHANGED <<txStore, state, stations>>

(* A handler's call to a service is on its way in slot s. *)
Wait(c, from, to, s) ==
    /\ h[c].pc = from
    /\ h' = [h EXCEPT ![c].pc = to, ![c].slot = s]
    /\ UNCHANGED <<txStore, state, stations, gen, starts>>

(* CreateFromOCPP returns the session id, or 0 after any error, which is
   only logged.  The handler then marks the connector as charging. *)
StartReturn(c, sid) ==
    /\ h[c].pc \in {"startCall", "startWait"}
    /\ h' = [h EXCEPT ![c].pc = "startSet", ![c].sid = sid, ![c].slot = None]
    /\ IF h[c].con > 0
       THEN UpdateConnector(StationOf[c], h[c].con, "Charging")
       ELSE UNCHANGED state
    /\ UNCHANGED <<txStore, stations, gen, starts>>

(* txStore.Set, with session id 0 after a failed call too. *)
StartSet(c) ==
    /\ h[c].pc = "startSet"
    /\ txStore' = [txStore EXCEPT ![h[c].tx] =
                     [live |-> TRUE, sid |-> h[c].sid, meter |-> h[c].meter]]
    /\ h' = [h EXCEPT ![c] = Idle]
    /\ UNCHANGED <<state, stations, gen, starts>>

-----------------------------------------------------------------------------
(* StopTransaction. *)

(* txStore.Get, in a critical section of its own.  A transaction that the
   store does not know is reported with energy 0 all the same. *)
BeginStop(c) ==
    /\ h[c].pc = "idle" /\ "stop" \in Kinds
    /\ \E tx \in TxOf[c] \cup {None}, m \in Meters :
         LET known == tx \in Tx /\ txStore[tx].live
             ctx   == IF known THEN txStore[tx] ELSE NoContext
         IN  h' = [h EXCEPT ![c] =
               [Idle EXCEPT !.pc = IF known THEN "stopDelete" ELSE "stopCall",
                            !.tx = tx, !.meter = m, !.sid = ctx.sid,
                            !.energy = IF known /\ m > ctx.meter
                                       THEN m - ctx.meter ELSE 0]]
    /\ UNCHANGED <<txStore, state, stations, gen, starts>>

(* Mutant: the context is kept. *)
StopKeeps(c) ==
    /\ h[c].pc = "stopDelete"
    /\ h' = [h EXCEPT ![c].pc = "stopCall"]
    /\ UNCHANGED <<txStore, state, stations, gen, starts>>

(* txStore.Delete *)
StopDelete(c) ==
    /\ h[c].pc = "stopDelete"
    /\ txStore' = [txStore EXCEPT ![h[c].tx] = NoContext]
    /\ h' = [h EXCEPT ![c].pc = "stopCall"]
    /\ UNCHANGED <<state, stations, gen, starts>>

(* Mutant: sessions with the smallest id are not billed. *)
StopReturnSkipsFirst(c) ==
    /\ h[c].pc \in {"stopCall", "stopWait"}
    /\ h' = [h EXCEPT ![c].slot = None,
                      ![c].pc = IF h[c].sid > 1 THEN "billCall"
                                                ELSE "stopState"]
    /\ UNCHANGED <<txStore, state, stations, gen, starts>>

(* CompleteFromOCPP returns; an error is only logged.  What has a session id
   is billed, whatever became of the call. *)
StopReturn(c) ==
    /\ h[c].pc \in {"stopCall", "stopWait"}
    /\ h' = [h EXCEPT ![c].slot = None,
                      ![c].pc = IF h[c].sid > 0 THEN "billCall"
                                                ELSE "stopState"]
    /\ UNCHANGED <<txStore, state, stations, gen, starts>>

(* NotifySessionStop returns; an error is only logged. *)
BillReturn(c) ==
    /\ h[c].pc \in {"billCall", "billWait"}
    /\ h' = [h EXCEPT ![c].slot = None, ![c].pc = "stopState"]
    /\ UNCHANGED <<txStore, state, stations, gen, starts>>

(* The station becomes available in memory; its connector stays as it is. *)
StopState(c) ==
    /\ h[c].pc = "stopState"
    /\ UpdateStation(StationOf[c], "Available")
    /\ h' = [h EXCEPT ![c] = Idle]
    /\ UNCHANGED <<txStore, stations, gen, starts>>

-----------------------------------------------------------------------------
(* MeterValues: without a session there is nothing to do. *)

BeginMeter(c) ==
    /\ h[c].pc = "idle" /\ "meter" \in Kinds
    /\ \E tx \in TxOf[c], m \in Meters :
         /\ txStore[tx].live /\ txStore[tx].sid # 0
         /\ h' = [h EXCEPT ![c] = [Idle EXCEPT !.pc = "meterCall", !.tx = tx,
                                     !.meter = m, !.sid = txStore[tx].sid]]
    /\ UNCHANGED <<txStore, state, stations, gen, starts>>

(* NotifyMeterValue returns; its error is ignored. *)
MeterReturn(c) ==
    /\ h[c].pc \in {"meterCall", "meterWait"}
    /\ h' = [h EXCEPT ![c] = Idle]
    /\ UNCHANGED <<txStore, state, stations, gen, starts>>

-----------------------------------------------------------------------------
(* BootNotification and StatusNotification. *)

(* repo.Upsert; when it fails the station gets a CallError and nothing else
   happens, but the statement may have taken effect. *)
BeginBoot(c) ==
    /\ h[c].pc = "idle" /\ "boot" \in Kinds
    /\ UpsertStation(StationOf[c], "Available")
    /\ \/ h' = [h EXCEPT ![c] = [Idle EXCEPT !.pc = "bootState"]]
       \/ "db" \in Faults /\ UNCHANGED h
    /\ UNCHANGED <<txStore, state, gen, starts>>

BootState(c) ==
    /\ h[c].pc = "bootState"
    /\ UpdateStation(StationOf[c], "Available")
    /\ h' = [h EXCEPT ![c] = Idle]
    /\ UNCHANGED <<txStore, stations, gen, starts>>

(* repo.UpdateStatus, whose error is only logged.  An empty status counts as
   Available. *)
BeginStatus(c) ==
    /\ h[c].pc = "idle" /\ "status" \in Kinds
    /\ \E k \in Connectors, sent \in Statuses \cup {None} :
         LET status == IF sent = None THEN "Available" ELSE sent
         IN  /\ h' = [h EXCEPT ![c] = [Idle EXCEPT !.pc = "statusState",
                                          !.con = k, !.status = status]]
             /\ \/ UpdateStatus(StationOf[c], status)
                \/ "db" \in Faults /\ UNCHANGED stations
    /\ UNCHANGED <<txStore, state, gen, starts>>

(* Mutant: the station's status in memory is not updated. *)
StatusStateSkipped(c) ==
    /\ h[c].pc = "statusState"
    /\ h' = [h EXCEPT ![c] = IF h[c].con > 0
                             THEN [@ EXCEPT !.pc = "statusConnector"]
                             ELSE Idle]
    /\ UNCHANGED <<txStore, state, stations, gen, starts>>

StatusState(c) ==
    /\ h[c].pc = "statusState"
    /\ UpdateStation(StationOf[c], h[c].status)
    /\ h' = [h EXCEPT ![c] = IF h[c].con > 0
                             THEN [@ EXCEPT !.pc = "statusConnector"]
                             ELSE Idle]
    /\ UNCHANGED <<txStore, stations, gen, starts>>

StatusConnector(c) ==
    /\ h[c].pc = "statusConnector"
    /\ UpdateConnector(StationOf[c], h[c].con, h[c].status)
    /\ h' = [h EXCEPT ![c] = Idle]
    /\ UNCHANGED <<txStore, stations, gen, starts>>

-----------------------------------------------------------------------------

(* The process dies and is started again: what it kept in memory is gone. *)
Restart ==
    /\ "restart" \in Faults
    /\ h' = [c \in Conns |-> Idle]
    /\ txStore' = [tx \in Tx |-> NoContext]
    /\ state' = [st \in Stations |-> NoState]
    /\ UNCHANGED <<stations, gen, starts>>

(* The steps in which a message arrives, and those in which a handler
   touches nothing but ocpp-server's own state. *)
Begin(c) ==
    \/ BeginStart(c) \/ BeginStop(c) \/ BeginMeter(c)
    \/ BeginBoot(c) \/ BeginStatus(c)

OwnStep(c) ==
    \/ StartSet(c) \/ StopDelete(c) \/ StopState(c)
    \/ BootState(c) \/ StatusState(c) \/ StatusConnector(c)

-----------------------------------------------------------------------------
(* ocpp-server alone: services answer at once, with anything. *)

Returns(c) ==
    \/ \E sid \in 0..MaxStarts : StartReturn(c, sid)
    \/ StopReturn(c) \/ BillReturn(c) \/ MeterReturn(c)

OcppNext ==
    \/ \E c \in Conns : Begin(c) \/ OwnStep(c) \/ Returns(c)
    \/ Restart

OcppSpec == OcppInit /\ [][OcppNext]_ocppVars

-----------------------------------------------------------------------------
(* Properties. *)

(* Every variable has its type; a handler that will write the transaction
   store has a transaction to write. *)
OcppTypeOK ==
    /\ h \in [Conns -> Handler]
    /\ \A c \in Conns : h[c].pc \in {"startCall", "startWait", "startSet",
                                     "stopDelete"} => h[c].tx \in Tx
    /\ txStore \in [Tx -> Context]
    /\ state \in [Stations -> [status : Statuses \cup {None},
                               con : [Connectors -> Statuses \cup {None}]]]
    /\ stations \in [Stations -> Statuses \cup {None}]
    /\ gen \subseteq Generated
    /\ starts \in Nat

(* A BootNotification or StatusNotification that has been handled leaves
   ocpp-server's memory and the charging_stations table telling the same
   about the station: with one connection per station and a database that
   works, no other handler, no StopTransaction that changed memory alone
   before, and no restart comes between its two writes. *)
StationViewsAgree ==
    [][\A c \in Conns :
         LET st == StationOf[c]
         IN  /\ h[c].pc \in {"bootState", "statusState", "statusConnector"}
             /\ h'[c].pc = "idle"
             /\ state'[st].status # None /\ stations'[st] # None
             => state'[st].status = stations'[st]]_ocppVars

=============================================================================
