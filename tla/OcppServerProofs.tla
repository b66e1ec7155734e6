------------------------ MODULE OcppServerProofs ------------------------
(***************************************************************************)
(* ocpp-server's variables keep their types, whatever messages arrive and  *)
(* whatever the services answer; and where a station has one connection,   *)
(* what ocpp-server keeps of it in memory and in the table agree.          *)
(***************************************************************************)
EXTENDS OcppServer, TLAPS

(* Anything a handler does, whatever it is answered. *)
OcppAction ==
    \/ \E c \in Conns :
         \/ Begin(c) \/ OwnStep(c)
         \/ \E s \in Slots : \/ Wait(c, "startCall", "startWait", s)
                             \/ Wait(c, "stopCall", "stopWait", s)
                             \/ Wait(c, "billCall", "billWait", s)
                             \/ Wait(c, "meterCall", "meterWait", s)
         \/ \E sid \in Nat : StartReturn(c, sid)
         \/ StopReturn(c) \/ BillReturn(c) \/ MeterReturn(c)
    \/ Restart

(* The handler record r may be written for a connection. *)
OkHandler(r) ==
    /\ r \in Handler
    /\ r.pc \in {"startCall", "startWait", "startSet", "stopDelete"} => r.tx \in Tx

StateType == [status : Statuses \cup {None},
              con : [Connectors -> Statuses \cup {None}]]

-----------------------------------------------------------------------------

(* The initial state is well typed. *)
LEMMA OcppInitType == OcppInit => OcppTypeOK
<1> SUFFICES ASSUME OcppInit PROVE OcppTypeOK
  OBVIOUS
<1>1. Idle \in Handler /\ Idle.pc = "idle"
  BY DEF Idle, Handler, Pcs
<1>2. NoContext \in Context /\ NoState \in StateType
  BY DEF NoContext, Context, NoState, StateType
<1> QED BY <1>1, <1>2 DEF OcppInit, OcppTypeOK, StateType

(* A step that changes one handler and otherwise keeps the types. *)
LEMMA OneHandlerChanges ==
  ASSUME OcppTypeOK, NEW c \in Conns, NEW r, OkHandler(r),
         h' = [h EXCEPT ![c] = r],
         txStore' \in [Tx -> Context],
         state' \in [Stations -> StateType],
         stations' \in [Stations -> Statuses \cup {None}],
         gen' \subseteq Generated, starts' \in Nat
  PROVE  OcppTypeOK'
BY DEF OcppTypeOK, OkHandler, StateType

(* StationState's writers keep its type. *)
LEMMA StateWriters ==
  ASSUME state \in [Stations -> StateType], NEW st \in Stations,
         NEW status \in Statuses \cup {None}, NEW k
  PROVE  /\ UpdateStation(st, status) => state' \in [Stations -> StateType]
         /\ UpdateConnector(st, k, status) => state' \in [Stations -> StateType]
<1>1. [state[st] EXCEPT !.status = status] \in StateType
  BY DEF StateType
<1>2. [state[st] EXCEPT !.con = [@ EXCEPT ![k] = status]] \in StateType
  BY DEF StateType
<1>3. ASSUME UpdateStation(st, status) PROVE state' \in [Stations -> StateType]
  <2>1. state' = [state EXCEPT ![st] = [state[st] EXCEPT !.status = status]]
    BY <1>3 DEF UpdateStation
  <2> QED BY <2>1, <1>1
<1>4. ASSUME UpdateConnector(st, k, status) PROVE state' \in [Stations -> StateType]
  <2>1. state' = [state EXCEPT ![st] =
                    [state[st] EXCEPT !.con = [@ EXCEPT ![k] = status]]]
    BY <1>4 DEF UpdateConnector
  <2> QED BY <2>1, <1>2
<1> QED BY <1>3, <1>4

(* Every step of a handler, and a restart, keeps the types. *)
LEMMA OcppStepType ==
  ASSUME OcppTypeOK, OcppAction
  PROVE  OcppTypeOK'
<1>1. /\ h \in [Conns -> Handler] /\ txStore \in [Tx -> Context]
      /\ state \in [Stations -> StateType]
      /\ stations \in [Stations -> Statuses \cup {None}]
      /\ gen \subseteq Generated /\ starts \in Nat
      /\ \A c \in Conns : OkHandler(h[c])
  BY DEF OcppTypeOK, StateType, OkHandler
<1>2. /\ OkHandler(Idle) /\ Idle.pc = "idle" /\ Idle \in Handler
      /\ NoContext \in Context /\ NoState \in StateType
      /\ {"Available", "Charging"} \subseteq Statuses
      /\ \A c \in Conns : StationOf[c] \in Stations /\ TxOf[c] \subseteq Tx
      /\ \A m \in Meters : m \in Int
      /\ \A k \in Connectors : k \in Nat
  BY OcppAssumption, DeploymentAssumption
     DEF OkHandler, Idle, Handler, Pcs, NoContext, Context, NoState, StateType
<1>3. ASSUME NEW c \in Conns, BeginStart(c) PROVE OcppTypeOK'
  <2>1. PICK tx \in TxOf[c], k \in Connectors, m \in Meters :
          /\ gen' = gen \cup ({tx} \cap Generated)
          /\ h' = [h EXCEPT ![c] = [Idle EXCEPT !.pc = "startCall", !.tx = tx,
                                               !.con = k, !.meter = m]]
    BY <1>3 DEF BeginStart
  <2> DEFINE r == [Idle EXCEPT !.pc = "startCall", !.tx = tx, !.con = k, !.meter = m]
  <2>2. tx \in Tx /\ k \in Nat /\ m \in Int
    BY <1>2
  <2>3. OkHandler(r)
    BY <2>2 DEF OkHandler, Idle, Handler, Pcs
  <2> HIDE DEF r
  <2>4. h' = [h EXCEPT ![c] = r] /\ gen' \subseteq Generated /\ starts' \in Nat
        /\ UNCHANGED <<txStore, state, stations>>
    BY <2>1, <1>1, <1>3 DEF BeginStart, r
  <2> QED BY <2>3, <2>4, <1>1, OneHandlerChanges
<1>4. ASSUME NEW c \in Conns, BeginStop(c) PROVE OcppTypeOK'
  <2>1. PICK tx \in TxOf[c] \cup {None}, m \in Meters :
          LET known == tx \in Tx /\ txStore[tx].live
              ctx   == IF known THEN txStore[tx] ELSE NoContext
          IN  h' = [h EXCEPT ![c] =
               [Idle EXCEPT !.pc = IF known THEN "stopDelete" ELSE "stopCall",
                            !.tx = tx, !.meter = m, !.sid = ctx.sid,
                            !.energy = IF known /\ m > ctx.meter
                                       THEN m - ctx.meter ELSE 0]]
    BY <1>4 DEF BeginStop
  <2> DEFINE known == tx \in Tx /\ txStore[tx].live
             ctx == IF known THEN txStore[tx] ELSE NoContext
             pc == IF known THEN "stopDelete" ELSE "stopCall"
             e == IF known /\ m > ctx.meter THEN m - ctx.meter ELSE 0
             r == [Idle EXCEPT !.pc = pc, !.tx = tx, !.meter = m,
                               !.sid = ctx.sid, !.energy = e]
  <2>2. tx \in Tx \cup {None} /\ m \in Int
    BY <1>2
  <2>3. ctx \in Context
    BY <1>1, <1>2
  <2>4. ctx.sid \in Nat /\ ctx.meter \in Int
    BY <2>3 DEF Context
  <2>5. e \in Nat
    <3> HIDE DEF ctx, known
    <3> QED BY <2>2, <2>4
  <2>6. pc \in {"stopDelete", "stopCall"} /\ (pc = "stopDelete" => tx \in Tx)
    OBVIOUS
  <2>7. h' = [h EXCEPT ![c] = r]
    BY <2>1, Zenon
  <2>8. OkHandler(r)
    <3> HIDE DEF pc, e, ctx, known
    <3> QED BY <2>2, <2>4, <2>5, <2>6 DEF OkHandler, Idle, Handler, Pcs
  <2> HIDE DEF r
  <2> QED BY <2>7, <2>8, <1>1, <1>4, OneHandlerChanges DEF BeginStop
<1>5. ASSUME NEW c \in Conns, BeginMeter(c) PROVE OcppTypeOK'
  <2>1. PICK tx \in TxOf[c], m \in Meters :
          h' = [h EXCEPT ![c] = [Idle EXCEPT !.pc = "meterCall", !.tx = tx,
                                   !.meter = m, !.sid = txStore[tx].sid]]
    BY <1>5 DEF BeginMeter
  <2> DEFINE r == [Idle EXCEPT !.pc = "meterCall", !.tx = tx, !.meter = m,
                               !.sid = txStore[tx].sid]
  <2>2. tx \in Tx /\ m \in Int /\ txStore[tx] \in Context
    BY <1>1, <1>2
  <2>3. OkHandler(r)
    BY <2>2 DEF OkHandler, Idle, Handler, Pcs, Context
  <2> HIDE DEF r
  <2>4. h' = [h EXCEPT ![c] = r]
    BY <2>1 DEF r
  <2> QED BY <2>3, <2>4, <1>1, <1>5, OneHandlerChanges DEF BeginMeter
<1>6. ASSUME NEW c \in Conns, BeginBoot(c) PROVE OcppTypeOK'
  <2>1. OkHandler([Idle EXCEPT !.pc = "bootState"])
    BY DEF OkHandler, Idle, Handler, Pcs
  <2>2. stations' \in [Stations -> Statuses \cup {None}]
    BY <1>6, <1>1, <1>2 DEF BeginBoot, UpsertStation
  <2>3. CASE h' = [h EXCEPT ![c] = [Idle EXCEPT !.pc = "bootState"]]
    BY <2>1, <2>2, <2>3, <1>1, <1>6, OneHandlerChanges DEF BeginBoot
  <2>4. CASE UNCHANGED h
    BY <2>2, <2>4, <1>6 DEF BeginBoot, OcppTypeOK
  <2> QED BY <2>3, <2>4, <1>6 DEF BeginBoot
<1>7. ASSUME NEW c \in Conns, BeginStatus(c) PROVE OcppTypeOK'
  <2>1. PICK k \in Connectors, status \in Statuses :
          /\ h' = [h EXCEPT ![c] = [Idle EXCEPT !.pc = "statusState",
                                       !.con = k, !.status = status]]
          /\ \/ stations' = [stations EXCEPT ![StationOf[c]] =
                               IF @ = None THEN None ELSE status]
             \/ UNCHANGED stations
    BY <1>7, <1>2 DEF BeginStatus, UpdateStatus
  <2> DEFINE r == [Idle EXCEPT !.pc = "statusState", !.con = k, !.status = status]
  <2>2. OkHandler(r)
    BY <1>2 DEF OkHandler, Idle, Handler, Pcs
  <2> HIDE DEF r
  <2>3. h' = [h EXCEPT ![c] = r]
    BY <2>1 DEF r
  <2>4. stations' \in [Stations -> Statuses \cup {None}]
    BY <2>1, <1>1, <1>2
  <2> QED BY <2>2, <2>3, <2>4, <1>1, <1>7, OneHandlerChanges DEF BeginStatus
<1>8. ASSUME NEW c \in Conns, OwnStep(c) PROVE OcppTypeOK'
  <2>1. h[c] \in Handler /\ (h[c].pc \in {"startSet", "stopDelete"} => h[c].tx \in Tx)
    BY <1>1 DEF OkHandler
  <2>2. CASE StartSet(c)
    <3>1. [live |-> TRUE, sid |-> h[c].sid, meter |-> h[c].meter] \in Context
      BY <2>1 DEF Handler, Context
    <3> QED BY <2>2, <3>1, <1>1, <1>2, OneHandlerChanges DEF StartSet
  <2>3. CASE StopDelete(c)
    <3>1. OkHandler([h[c] EXCEPT !.pc = "stopCall"])
      BY <2>1 DEF OkHandler, Handler, Pcs
    <3>2. h' = [h EXCEPT ![c] = [h[c] EXCEPT !.pc = "stopCall"]]
      BY <2>3 DEF StopDelete
    <3> QED BY <2>3, <3>1, <3>2, <1>1, <1>2, OneHandlerChanges DEF StopDelete
  <2>4. CASE StopState(c) \/ BootState(c)
    BY <2>4, <1>1, <1>2, StateWriters, OneHandlerChanges DEF StopState, BootState
  <2>5. CASE StatusState(c)
    <3> DEFINE r == IF h[c].con > 0 THEN [h[c] EXCEPT !.pc = "statusConnector"] ELSE Idle
    <3>1. OkHandler(r)
      <4>1. OkHandler([h[c] EXCEPT !.pc = "statusConnector"])
        BY <2>1 DEF OkHandler, Handler, Pcs
      <4> QED BY <4>1, <1>2
    <3>2. h' = [h EXCEPT ![c] = r] /\ UNCHANGED <<txStore, stations, gen, starts>>
          /\ UpdateStation(StationOf[c], h[c].status)
      BY <2>5 DEF StatusState
    <3>3. h[c].status \in Statuses \cup {None} /\ StationOf[c] \in Stations
      BY <2>1, <1>2 DEF Handler
    <3> HIDE DEF r
    <3>4. state' \in [Stations -> StateType]
      BY <3>2, <3>3, <1>1, StateWriters
    <3> QED BY <3>1, <3>2, <3>4, <1>1, OneHandlerChanges
  <2>6. CASE StatusConnector(c)
    <3>1. h[c].status \in Statuses \cup {None} /\ StationOf[c] \in Stations
      BY <2>1, <1>2 DEF Handler
    <3>2. state' \in [Stations -> StateType]
      BY <3>1, <2>6, <1>1, StateWriters DEF StatusConnector
    <3> QED BY <2>6, <3>2, <1>1, <1>2, OneHandlerChanges DEF StatusConnector
  <2> QED BY <1>8, <2>2, <2>3, <2>4, <2>5, <2>6 DEF OwnStep
<1>9. ASSUME NEW c \in Conns, NEW s \in Slots, NEW from \in Pcs,
             NEW to \in {"startWait", "stopWait", "billWait", "meterWait"},
             to = "startWait" => from = "startCall", Wait(c, from, to, s)
      PROVE  OcppTypeOK'
  <2>1. OkHandler([h[c] EXCEPT !.pc = to, !.slot = s])
    BY <1>1, <1>9 DEF OkHandler, Handler, Pcs, Wait
  <2>2. h' = [h EXCEPT ![c] = [h[c] EXCEPT !.pc = to, !.slot = s]]
    BY <1>9, <1>1 DEF Wait
  <2> QED BY <2>1, <2>2, <1>1, <1>9, OneHandlerChanges DEF Wait
<1>10. ASSUME NEW c \in Conns, NEW sid \in Nat, StartReturn(c, sid) PROVE OcppTypeOK'
  <2> DEFINE r == [h[c] EXCEPT !.pc = "startSet", !.sid = sid, !.slot = None]
  <2>1. OkHandler(r)
    BY <1>1, <1>10 DEF OkHandler, Handler, Pcs, StartReturn
  <2>2. h' = [h EXCEPT ![c] = r] /\ UNCHANGED <<txStore, stations, gen, starts>>
    BY <1>1, <1>10 DEF StartReturn
  <2> HIDE DEF r
  <2>3. state' \in [Stations -> StateType]
    BY <1>10, <1>1, <1>2, StateWriters DEF StartReturn
  <2> QED BY <2>1, <2>2, <2>3, <1>1, OneHandlerChanges
<1>11. ASSUME NEW c \in Conns, StopReturn(c) \/ BillReturn(c) PROVE OcppTypeOK'
  <2>1. ASSUME NEW pc \in {"billCall", "stopState"},
               h' = [h EXCEPT ![c] = [h[c] EXCEPT !.slot = None, !.pc = pc]],
               UNCHANGED <<txStore, state, stations, gen, starts>>
        PROVE  OcppTypeOK'
    <3>1. OkHandler([h[c] EXCEPT !.slot = None, !.pc = pc])
      BY <1>1 DEF OkHandler, Handler, Pcs
    <3> QED BY <2>1, <3>1, <1>1, OneHandlerChanges
  <2>2. CASE StopReturn(c)
    <3> DEFINE pc == IF h[c].sid > 0 THEN "billCall" ELSE "stopState"
    <3>1. pc \in {"billCall", "stopState"}
      OBVIOUS
    <3>2. /\ h' = [h EXCEPT ![c] = [h[c] EXCEPT !.slot = None, !.pc = pc]]
          /\ UNCHANGED <<txStore, state, stations, gen, starts>>
      BY <2>2, <1>1 DEF StopReturn
    <3> HIDE DEF pc
    <3> QED BY <3>1, <3>2, <2>1
  <2>3. CASE BillReturn(c)
    BY <2>3, <2>1, <1>1 DEF BillReturn
  <2> QED BY <1>11, <2>2, <2>3
<1>12. ASSUME NEW c \in Conns, MeterReturn(c) PROVE OcppTypeOK'
  BY <1>12, <1>1, <1>2, OneHandlerChanges DEF MeterReturn
<1>13. CASE Restart
  BY <1>13, <1>1, <1>2 DEF Restart, OcppTypeOK, OkHandler, StateType
<1>14. ASSUME NEW c \in Conns, Begin(c) PROVE OcppTypeOK'
  BY <1>14, <1>3, <1>4, <1>5, <1>6, <1>7 DEF Begin
<1>15. ASSUME NEW c \in Conns, NEW s \in Slots,
              \/ Wait(c, "startCall", "startWait", s)
              \/ Wait(c, "stopCall", "stopWait", s)
              \/ Wait(c, "billCall", "billWait", s)
              \/ Wait(c, "meterCall", "meterWait", s)
       PROVE  OcppTypeOK'
  <2>1. {"startCall", "stopCall", "billCall", "meterCall"} \subseteq Pcs
    BY DEF Pcs
  <2> QED BY <1>9, <1>15, <2>1
<1> QED BY <1>8, <1>10, <1>11, <1>12, <1>13, <1>14, <1>15 DEF OcppAction

(* ocpp-server's variables always have their types, and a handler about to
   write the transaction store has a transaction id. *)
THEOREM OcppTyped == OcppSpec => []OcppTypeOK
<1>1. ASSUME OcppTypeOK, [OcppNext]_ocppVars PROVE OcppTypeOK'
  <2>1. CASE OcppNext
    <3>1. 0..MaxStarts \subseteq Nat
      BY DeploymentAssumption
    <3>2. ASSUME NEW c \in Conns, Returns(c) PROVE OcppAction
      BY <3>1, <3>2 DEF Returns, OcppAction
    <3>3. OcppAction
      BY <2>1, <3>2, Zenon DEF OcppNext, OcppAction
    <3> QED BY <1>1, <3>3, OcppStepType
  <2>2. CASE UNCHANGED ocppVars
    BY <1>1, <2>2 DEF ocppVars, OcppTypeOK
  <2> QED BY <1>1, <2>1, <2>2
<1> QED BY <1>1, OcppInitType, PTL DEF OcppSpec

-----------------------------------------------------------------------------
(* What memory and table say about a station. *)

(* A station has no second connection, as after a reconnect. *)
OneConnectionPerStation ==
    \A c, d \in Conns : StationOf[c] = StationOf[d] => c = d

(* What handler r has already written of the station that it serves, whose
   status is row in the table and mem in memory. *)
Written(r, row, mem) ==
    /\ r.pc = "bootState" => row = "Available"
    /\ r.pc \in {"statusState", "statusConnector"} => row \in {None, r.status}
    /\ r.pc = "statusConnector" => mem = r.status

(* The strengthening of StationViewsAgree: between its two writes a handler
   can rely on the first. *)
ViewsInv ==
    \A c \in Conns :
      Written(h[c], stations[StationOf[c]], state[StationOf[c]].status)

(* The two views of station st are the same, where both know it. *)
ViewsOf(st) ==
    state'[st].status # None /\ stations'[st] # None =>
      state'[st].status = stations'[st]

(* A step of the handler of one connection that leaves the other stations
   alone preserves the invariant if it does so for its own station. *)
LEMMA OthersUndisturbed ==
  ASSUME OneConnectionPerStation, OcppTypeOK, ViewsInv, NEW c \in Conns, NEW r,
         h' = [h EXCEPT ![c] = r],
         \A st \in Stations \ {StationOf[c]} :
           stations'[st] = stations[st] /\ state'[st].status = state[st].status,
         Written(r, stations'[StationOf[c]], state'[StationOf[c]].status)
  PROVE  ViewsInv'
<1> SUFFICES ASSUME NEW d \in Conns
             PROVE  Written(h'[d], stations'[StationOf[d]],
                            state'[StationOf[d]].status)
  BY DEF ViewsInv
<1>1. CASE d = c
  BY <1>1 DEF OcppTypeOK, Written
<1>2. CASE d # c
  <2>1. h'[d] = h[d]
    BY <1>2 DEF OcppTypeOK
  <2>2. StationOf[d] \in Stations \ {StationOf[c]}
    BY <1>2, OcppAssumption DEF OneConnectionPerStation
  <2> QED BY <2>1, <2>2 DEF ViewsInv, Written
<1> QED BY <1>1, <1>2

(* A handler's step preserves the invariant, and where the handler of a
   BootNotification or StatusNotification ends, the views agree. *)
LEMMA HandlerKeepsViews ==
  ASSUME OneConnectionPerStation, "db" \notin Faults, OcppTypeOK, ViewsInv,
         NEW c \in Conns, Begin(c) \/ OwnStep(c) \/ Returns(c)
  PROVE  /\ ViewsInv'
         /\ \A d \in Conns \ {c} : h'[d] = h[d]
         /\ h[c].pc \in {"bootState", "statusState", "statusConnector"} =>
              h'[c].pc # "idle" \/ ViewsOf(StationOf[c])
<1> DEFINE st == StationOf[c]
           Notified == {"bootState", "statusState", "statusConnector"}
           Goal == /\ ViewsInv'
                   /\ \A d \in Conns \ {c} : h'[d] = h[d]
                   /\ h[c].pc \in Notified => h'[c].pc # "idle" \/ ViewsOf(st)
<1>1. /\ st \in Stations /\ h[c] \in Handler
      /\ h \in [Conns -> Handler]
      /\ state \in [Stations -> StateType]
      /\ stations \in [Stations -> Statuses \cup {None}]
      /\ Written(h[c], stations[st], state[st].status)
  BY OcppAssumption DEF OcppTypeOK, ViewsInv, StateType
<1>2. ASSUME NEW k, NEW status
      PROVE  /\ UpdateStation(st, status) =>
                  /\ state'[st].status = status
                  /\ \A u \in Stations \ {st} : state'[u] = state[u]
             /\ UpdateConnector(st, k, status) =>
                  \A u \in Stations : state'[u].status = state[u].status
  <2>1. ASSUME UpdateStation(st, status)
        PROVE  /\ state'[st].status = status
               /\ \A u \in Stations \ {st} : state'[u] = state[u]
    BY <1>1, <2>1 DEF UpdateStation, StateType
  <2>2. ASSUME UpdateConnector(st, k, status), NEW u \in Stations
        PROVE  state'[u].status = state[u].status
    BY <1>1, <2>2 DEF UpdateConnector, StateType
  <2> QED BY <2>1, <2>2
<1>3. ASSUME NEW r, h' = [h EXCEPT ![c] = r], h[c].pc \notin Notified,
             r.pc \notin Notified,
             \A u \in Stations \ {st} : state'[u].status = state[u].status,
             stations' = stations
      PROVE  Goal
  <2>1. Written(r, stations'[st], state'[st].status)
    BY <1>3 DEF Written
  <2>2. \A u \in Stations \ {st} : stations'[u] = stations[u]
    BY <1>3
  <2> HIDE DEF st
  <2>3. ViewsInv'
    BY <2>1, <2>2, <1>3, OthersUndisturbed DEF st
  <2> QED BY <1>1, <1>3, <2>3
<1>4. CASE BeginStart(c) \/ BeginMeter(c)
  <2>1. CASE BeginStart(c)
    <3>1. PICK tx, k, m :
            h' = [h EXCEPT ![c] = [Idle EXCEPT !.pc = "startCall", !.tx = tx,
                                               !.con = k, !.meter = m]]
      BY <2>1 DEF BeginStart
    <3>2. [Idle EXCEPT !.pc = "startCall", !.tx = tx, !.con = k,
                       !.meter = m].pc = "startCall"
      BY DEF Idle
    <3> QED BY <1>3, <2>1, <3>1, <3>2 DEF BeginStart
  <2>2. CASE BeginMeter(c)
    <3>1. PICK tx, m :
            h' = [h EXCEPT ![c] = [Idle EXCEPT !.pc = "meterCall", !.tx = tx,
                                     !.meter = m, !.sid = txStore[tx].sid]]
      BY <2>2 DEF BeginMeter
    <3>2. [Idle EXCEPT !.pc = "meterCall", !.tx = tx, !.meter = m,
                       !.sid = txStore[tx].sid].pc = "meterCall"
      BY DEF Idle
    <3> QED BY <1>3, <2>2, <3>1, <3>2 DEF BeginMeter
  <2> QED BY <1>4, <2>1, <2>2
<1>5. CASE BeginStop(c)
  <2>1. \E pc \in {"stopDelete", "stopCall"} : \E tx, m, sid, e :
          h' = [h EXCEPT ![c] = [Idle EXCEPT !.pc = pc, !.tx = tx, !.meter = m,
                                             !.sid = sid, !.energy = e]]
    <3>1. PICK tx \in TxOf[c] \cup {None}, m \in Meters :
            LET known == tx \in Tx /\ txStore[tx].live
                ctx   == IF known THEN txStore[tx] ELSE NoContext
            IN  h' = [h EXCEPT ![c] =
                 [Idle EXCEPT !.pc = IF known THEN "stopDelete" ELSE "stopCall",
                              !.tx = tx, !.meter = m, !.sid = ctx.sid,
                              !.energy = IF known /\ m > ctx.meter
                                         THEN m - ctx.meter ELSE 0]]
      BY <1>5 DEF BeginStop
    <3> DEFINE known == tx \in Tx /\ txStore[tx].live
               ctx == IF known THEN txStore[tx] ELSE NoContext
               pc == IF known THEN "stopDelete" ELSE "stopCall"
               e == IF known /\ m > ctx.meter THEN m - ctx.meter ELSE 0
    <3>2. h' = [h EXCEPT ![c] = [Idle EXCEPT !.pc = pc, !.tx = tx, !.meter = m,
                                             !.sid = ctx.sid, !.energy = e]]
      BY <3>1, Zenon
    <3>3. pc \in {"stopDelete", "stopCall"}
      OBVIOUS
    <3> HIDE DEF pc, ctx, e
    <3> QED BY <3>2, <3>3
  <2>2. PICK pc \in {"stopDelete", "stopCall"} : \E tx, m, sid, e :
          h' = [h EXCEPT ![c] = [Idle EXCEPT !.pc = pc, !.tx = tx, !.meter = m,
                                             !.sid = sid, !.energy = e]]
    BY <2>1
  <2>3. PICK tx, m, sid, e :
          h' = [h EXCEPT ![c] = [Idle EXCEPT !.pc = pc, !.tx = tx, !.meter = m,
                                             !.sid = sid, !.energy = e]]
    BY <2>2
  <2>4. [Idle EXCEPT !.pc = pc, !.tx = tx, !.meter = m, !.sid = sid,
                     !.energy = e].pc = pc
    BY DEF Idle
  <2> QED BY <1>3, <1>5, <2>2, <2>3, <2>4 DEF BeginStop
<1>6. CASE BeginBoot(c)
  <2> DEFINE r == [Idle EXCEPT !.pc = "bootState"]
  <2>1. /\ h[c].pc = "idle" /\ h' = [h EXCEPT ![c] = r] /\ state' = state
        /\ stations' = [stations EXCEPT ![st] = "Available"]
    BY <1>6 DEF BeginBoot, UpsertStation
  <2>2. r.pc = "bootState"
    BY DEF Idle
  <2> HIDE DEF r, st
  <2>3. Written(r, stations'[st], state'[st].status)
    BY <1>1, <2>1, <2>2 DEF Written
  <2>4. \A u \in Stations \ {st} : stations'[u] = stations[u]
    BY <1>1, <2>1
  <2>5. ViewsInv'
    BY <2>1, <2>3, <2>4, OthersUndisturbed DEF st
  <2> QED BY <1>1, <2>1, <2>5
<1>7. CASE BeginStatus(c)
  <2>1. PICK k \in Connectors, status \in Statuses :
          /\ h' = [h EXCEPT ![c] = [Idle EXCEPT !.pc = "statusState",
                                       !.con = k, !.status = status]]
          /\ stations' = [stations EXCEPT ![st] =
                            IF @ = None THEN None ELSE status]
    BY <1>7, OcppAssumption DEF BeginStatus, UpdateStatus
  <2> DEFINE r == [Idle EXCEPT !.pc = "statusState", !.con = k, !.status = status]
  <2>2. /\ r.pc = "statusState" /\ r.status = status
        /\ h[c].pc = "idle" /\ state' = state
    BY <1>7 DEF Idle, BeginStatus
  <2>3. h' = [h EXCEPT ![c] = r]
    BY <2>1
  <2> HIDE DEF r, st
  <2>4. Written(r, stations'[st], state'[st].status)
    BY <1>1, <2>1, <2>2 DEF Written
  <2>5. \A u \in Stations \ {st} : stations'[u] = stations[u]
    BY <1>1, <2>1
  <2>6. ViewsInv'
    BY <2>2, <2>3, <2>4, <2>5, OthersUndisturbed DEF st
  <2> QED BY <1>1, <2>2, <2>3, <2>6
<1>8. CASE StartSet(c) \/ StopDelete(c)
  <2>1. CASE StopDelete(c)
    <3>1. [h[c] EXCEPT !.pc = "stopCall"].pc = "stopCall"
      BY <1>1 DEF Handler
    <3>2. h' = [h EXCEPT ![c] = [h[c] EXCEPT !.pc = "stopCall"]]
      BY <1>1, <2>1 DEF StopDelete
    <3> QED BY <1>3, <2>1, <3>1, <3>2 DEF StopDelete
  <2>2. CASE StartSet(c)
    BY <1>3, <2>2 DEF StartSet, Idle
  <2> QED BY <1>8, <2>1, <2>2
<1>9. CASE StopState(c)
  BY <1>2, <1>3, <1>9 DEF StopState, Idle
<1>10. CASE BootState(c) \/ StatusConnector(c)
  <2>1. /\ h' = [h EXCEPT ![c] = Idle] /\ Idle.pc = "idle"
        /\ stations' = stations
    BY <1>10 DEF BootState, StatusConnector, Idle
  <2>2. /\ \A u \in Stations \ {st} : state'[u].status = state[u].status
        /\ ViewsOf(st)
    <3>1. CASE BootState(c)
      BY <1>1, <1>2, <3>1 DEF BootState, ViewsOf, Written
    <3>2. CASE StatusConnector(c)
      BY <1>1, <1>2, <3>2 DEF StatusConnector, ViewsOf, Written
    <3> QED BY <1>10, <3>1, <3>2
  <2> HIDE DEF st
  <2>3. Written(Idle, stations'[st], state'[st].status)
    BY <2>1 DEF Written
  <2>4. ViewsInv'
    BY <2>1, <2>2, <2>3, OthersUndisturbed DEF st
  <2> QED BY <1>1, <2>1, <2>2, <2>4 DEF st
<1>11. CASE StatusState(c)
  <2> DEFINE r == IF h[c].con > 0 THEN [h[c] EXCEPT !.pc = "statusConnector"]
                                  ELSE Idle
  <2>1. /\ r.pc \in {"statusConnector", "idle"}
        /\ r.pc = "statusConnector" => r.status = h[c].status
    BY <1>1 DEF Idle, Handler
  <2>2. /\ h' = [h EXCEPT ![c] = r] /\ stations' = stations
        /\ h[c].pc = "statusState"
        /\ state'[st].status = h[c].status
        /\ \A u \in Stations \ {st} : state'[u] = state[u]
    BY <1>1, <1>2, <1>11 DEF StatusState
  <2> HIDE DEF r, st
  <2>3. Written(r, stations'[st], state'[st].status) /\ ViewsOf(st)
    BY <1>1, <2>1, <2>2 DEF Written, ViewsOf
  <2>4. ViewsInv'
    BY <2>2, <2>3, OthersUndisturbed DEF st
  <2> QED BY <1>1, <2>2, <2>3, <2>4 DEF st
<1>12. ASSUME NEW sid \in 0..MaxStarts, StartReturn(c, sid)
       PROVE  Goal
  <2> DEFINE r == [h[c] EXCEPT !.pc = "startSet", !.sid = sid, !.slot = None]
  <2>1. h' = [h EXCEPT ![c] = r]
    BY <1>1, <1>12 DEF StartReturn
  <2>2. r.pc = "startSet"
    BY <1>1 DEF Handler
  <2>3. \A u \in Stations \ {st} : state'[u].status = state[u].status
    BY <1>2, <1>12 DEF StartReturn
  <2> HIDE DEF r
  <2> QED BY <1>3, <1>12, <2>1, <2>2, <2>3 DEF StartReturn
<1>13. CASE StopReturn(c) \/ BillReturn(c)
  <2>1. PICK pc \in {"billCall", "stopState"} :
          h' = [h EXCEPT ![c] = [h[c] EXCEPT !.slot = None, !.pc = pc]]
    BY <1>1, <1>13 DEF StopReturn, BillReturn
  <2> DEFINE r == [h[c] EXCEPT !.slot = None, !.pc = pc]
  <2>2. r.pc = pc
    BY <1>1 DEF Handler
  <2>3. h' = [h EXCEPT ![c] = r]
    BY <2>1
  <2> HIDE DEF r
  <2> QED BY <1>3, <1>13, <2>2, <2>3 DEF StopReturn, BillReturn
<1>14. CASE MeterReturn(c)
  BY <1>3, <1>14 DEF MeterReturn, Idle
<1> QED
  BY <1>4, <1>5, <1>6, <1>7, <1>8, <1>9, <1>10, <1>11, <1>12, <1>13, <1>14
     DEF Begin, OwnStep, Returns

(* When the handler of a BootNotification or StatusNotification ends, memory
   and table agree about its station, for any number of stations and whatever
   the other handlers, StopTransactions and restarts do meanwhile: provided
   that the station has one connection and the database works. *)
THEOREM ViewsAgree ==
  ASSUME OneConnectionPerStation, "db" \notin Faults
  PROVE  OcppSpec => StationViewsAgree
<1> DEFINE Agree ==
      \A c \in Conns :
        LET st == StationOf[c]
        IN  /\ h[c].pc \in {"bootState", "statusState", "statusConnector"}
            /\ h'[c].pc = "idle"
            /\ state'[st].status # None /\ stations'[st] # None
            => state'[st].status = stations'[st]
<1>1. OcppInit => ViewsInv
  BY DEF OcppInit, ViewsInv, Written, Idle
<1>2. ASSUME OcppTypeOK, ViewsInv, [OcppNext]_ocppVars
      PROVE  ViewsInv' /\ [Agree]_ocppVars
  <2>1. ASSUME NEW c \in Conns, Begin(c) \/ OwnStep(c) \/ Returns(c)
        PROVE  ViewsInv' /\ Agree
    <3>1. /\ ViewsInv'
          /\ \A d \in Conns \ {c} : h'[d] = h[d]
          /\ h[c].pc \in {"bootState", "statusState", "statusConnector"} =>
               h'[c].pc # "idle" \/ ViewsOf(StationOf[c])
      BY <1>2, <2>1, HandlerKeepsViews
    <3> QED BY <3>1 DEF ViewsOf
  <2>2. CASE Restart
    <3>1. /\ \A c \in Conns : h'[c].pc = "idle"
          /\ \A c \in Conns : state'[StationOf[c]].status = None
      BY <2>2, OcppAssumption DEF Restart, Idle, NoState
    <3> QED BY <3>1 DEF ViewsInv, Written
  <2>3. CASE UNCHANGED ocppVars
    BY <1>2, <2>3 DEF ocppVars, ViewsInv, Written
  <2> QED BY <1>2, <2>1, <2>2, <2>3 DEF OcppNext
<1> QED BY <1>1, <1>2, OcppTyped, PTL DEF OcppSpec, StationViewsAgree

=============================================================================
