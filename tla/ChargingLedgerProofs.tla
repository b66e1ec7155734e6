---------------------- MODULE ChargingLedgerProofs ----------------------
(***************************************************************************)
(* What the records of sessions-service and billing-service amount to: the *)
(* deployment implements ChargingLedger, and where transactions are        *)
(* started once each session has at most one billing transaction.          *)
(***************************************************************************)
EXTENDS ChargingSystemProofs, SequenceTheorems

(* The ledger that the two tables are read as. *)
LedgerOf == [tx \in Tx |-> [id |-> sessions[tx].id, status |-> sessions[tx].status]]
BilledOf == [i \in DOMAIN bills |-> bills[i].sid]

-----------------------------------------------------------------------------

(* Only three statements change one of the two tables, and none changes
   both. *)
LEMMA TableSteps ==
  ASSUME [Next]_vars
  PROVE  \/ UNCHANGED <<sessions, bills>>
         \/ /\ \E s \in Slots, b \in BOOLEAN : StartSession(s, b) \/ CompleteSession(s, b)
            /\ UNCHANGED bills
         \/ /\ \E s \in Slots, b \in BOOLEAN : CreateTransaction(s, b)
            /\ UNCHANGED sessions
<1> DEFINE Goal ==
      \/ UNCHANGED <<sessions, bills>>
      \/ /\ \E s \in Slots, b \in BOOLEAN : StartSession(s, b) \/ CompleteSession(s, b)
         /\ UNCHANGED bills
      \/ /\ \E s \in Slots, b \in BOOLEAN : CreateTransaction(s, b)
         /\ UNCHANGED sessions
<1> USE DEF sessionsVars, billingVars
<1>1. ASSUME NEW s \in Slots, SessionsWork(s) PROVE Goal
  BY <1>1 DEF SessionsWork, SessStep, Save, Delete, StartSessionRefused,
              CompleteSessionNoRows, SessDbError, SessCacheCancelled
<1>2. ASSUME NEW s \in Slots, BillingWork(s) PROVE Goal
  BY <1>2 DEF BillingWork, BillStep, ActiveTariff, CalculateFails
<1>3. ASSUME NEW s \in Slots, TelemetryWork(s) PROVE Goal
  BY <1>3 DEF TelemetryWork
<1>4. CASE CacheExpires \/ TariffChanges \/ ServiceCrashes
  BY <1>4, TariffStepLeaves
     DEF CacheExpires, Expire, TariffChanges, ServiceCrashes, SessCrash, BillCrash
<1>5. ASSUME NEW c \in Conns, MessageArrives(c) \/ HandlerWorks(c) PROVE Goal
  BY <1>5 DEF MessageArrives, HandlerWorks
<1>6. ASSUME NEW c \in Conns, NEW s \in Slots,
             StartCall(c, s) \/ StopCall(c, s) \/ BillCall(c, s) \/ MeterCall(c, s)
      PROVE  Goal
  BY <1>6 DEF StartCall, StopCall, BillCall, MeterCall, SessReceive, BillReceive
<1>7. ASSUME NEW c \in Conns,
             \/ StartAnswered(c) \/ StartGivenUp(c)
             \/ StopEnds(c) \/ BillEnds(c) \/ MeterEnds(c) \/ CallFails(c)
      PROVE  Goal
  BY <1>7 DEF StartAnswered, StartGivenUp, StopEnds, BillEnds, MeterEnds,
              CallFails, SessReply, SessTimeout, BillReply, BillTimeout
<1>8. CASE OcppRestarts
  BY <1>8 DEF OcppRestarts, SessCallersGone, BillCallersGone
<1>9. CASE UNCHANGED vars
  BY <1>9 DEF vars
<1> QED
  BY <1>1, <1>2, <1>3, <1>4, <1>5, <1>6, <1>7, <1>8, <1>9
     DEF Next, HandlerStep, ServiceStep

(* Reading the session ids of the bills commutes with adding a bill. *)
LEMMA BilledOfAppend ==
  ASSUME bills \in Seq(Bill), NEW row \in Bill, bills' = Append(bills, row)
  PROVE  BilledOf' = Append(BilledOf, row.sid)
<1>1. /\ bills' \in Seq(Bill) /\ Len(bills') = Len(bills) + 1
      /\ DOMAIN bills' = 1 .. Len(bills) + 1 /\ DOMAIN bills = 1 .. Len(bills)
      /\ \A i \in 1 .. Len(bills) : bills'[i] = bills[i]
      /\ bills'[Len(bills) + 1] = row
      /\ Len(bills) \in Nat
  BY AppendProperties, LenProperties
<1>2. /\ BilledOf \in Seq(Nat) /\ Len(BilledOf) = Len(bills)
      /\ \A i \in 1 .. Len(bills) : BilledOf[i] = bills[i].sid
  <2>1. \A i \in 1 .. Len(bills) : bills[i].sid \in Nat
    <3>1. \A i \in 1 .. Len(bills) : bills[i] \in Bill
      BY ElementOfSeq
    <3> QED BY <3>1 DEF Bill
  <2>2. BilledOf \in [1 .. Len(bills) -> Nat]
    BY <1>1, <2>1 DEF BilledOf
  <2> QED BY <1>1, <2>2, IsASeq, LenProperties DEF BilledOf
<1>3. row.sid \in Nat
  BY DEF Bill
<1> DEFINE longer == Append(BilledOf, row.sid)
<1>4. /\ longer \in Seq(Nat) /\ DOMAIN longer = 1 .. Len(bills) + 1
      /\ \A i \in 1 .. Len(bills) : longer[i] = bills[i].sid
      /\ longer[Len(bills) + 1] = row.sid
  BY <1>1, <1>2, <1>3, AppendProperties, LenProperties
<1>5. BilledOf' = [i \in 1 .. Len(bills) + 1 |-> bills'[i].sid]
  BY <1>1 DEF BilledOf
<1>6. longer = [i \in 1 .. Len(bills) + 1 |-> longer[i]]
  BY <1>4
<1>7. \A i \in 1 .. Len(bills) + 1 : longer[i] = bills'[i].sid
  <2> TAKE i \in 1 .. Len(bills) + 1
  <2>1. i \in 1 .. Len(bills) \/ i = Len(bills) + 1
    BY <1>1
  <2> HIDE DEF longer
  <2> QED BY <1>1, <1>4, <2>1
<1> HIDE DEF longer
<1>8. BilledOf' = longer
  BY <1>5, <1>6, <1>7
<1> QED BY <1>8 DEF longer

(* The INSERT ... ON CONFLICT opens an entry: with the key of the row, or with
   a key that no row has, because the sequence is ahead of them all. *)
LEMMA OpenRefined ==
  ASSUME Inv, NEW s \in Slots, NEW b \in BOOLEAN, StartSession(s, b), UNCHANGED bills
  PROVE  \E tx \in Tx : Ledger!Open(tx, LedgerOf'[tx].id)
<1> DEFINE tx == sreqs[s].tx
           id == KeyOf(tx)
<1>1. /\ tx \in Tx /\ sessions \in [Tx -> Row]
      /\ sessions' = [sessions EXCEPT ![tx].id = id, ![tx].status = "active"]
  BY DEF StartSession, Upsert, Inv, SessionsInv, SessionsTypeOK, ValidatedTx
<1>2. LedgerOf' = [LedgerOf EXCEPT ![tx] = [id |-> id, status |-> "active"]]
  BY <1>1 DEF LedgerOf, Row
<1>3. LedgerOf'[tx].id = id /\ \A u \in Tx : LedgerOf[u].id = sessions[u].id
  <2>1. \A u \in Tx : LedgerOf[u].id = sessions[u].id
    BY DEF LedgerOf
  <2>2. LedgerOf \in [Tx -> [id : Nat, status : {"active", "completed"}]]
    BY <1>1 DEF LedgerOf, Row
  <2> HIDE DEF tx, id
  <2>3. LedgerOf'[tx] = [id |-> id, status |-> "active"]
    BY <1>1, <1>2, <2>2
  <2> QED BY <2>1, <2>3
<1>4. LedgerOf[tx].id # 0 => id = LedgerOf[tx].id
  BY <1>1, <1>3 DEF KeyOf, Exists
<1>5. LedgerOf[tx].id = 0 => id \in Nat \ ({LedgerOf[u].id : u \in Tx} \cup {0})
  <2>1. nextId \in Nat \ {0} /\ \A u \in Tx : sessions[u].id \in Nat /\ sessions[u].id < nextId
    BY <1>1 DEF Inv, SessionsInv, SessionsTypeOK, Row
  <2>2. LedgerOf[tx].id = 0 => id = nextId
    BY <1>1, <1>3 DEF KeyOf, Exists
  <2>3. \A u \in Tx : LedgerOf[u].id # nextId
    BY <1>3, <2>1
  <2> HIDE DEF tx, id
  <2> QED BY <2>1, <2>2, <2>3
<1>6. BilledOf' = BilledOf
  BY DEF BilledOf
<1> HIDE DEF tx, id
<1>7. Ledger!Open(tx, LedgerOf'[tx].id)
  BY <1>2, <1>3, <1>4, <1>5, <1>6 DEF Ledger!Open, Ledger!Ids, LedgerOf, BilledOf
<1> QED BY <1>1, <1>7

(* The UPDATE closes an entry; it found the row. *)
LEMMA CloseRefined ==
  ASSUME Inv, NEW s \in Slots, NEW b \in BOOLEAN, CompleteSession(s, b), UNCHANGED bills
  PROVE  \E tx \in Tx : Ledger!Close(tx)
<1>1. PICK tx \in Tx : tx = sreqs[s].tx
  BY DEF CompleteSession, Inv, SessionsInv, ValidatedTx
<1>2. /\ Exists(tx) /\ sessions \in [Tx -> Row]
      /\ sessions' = [sessions EXCEPT ![tx] =
                        [id |-> @.id, status |-> "completed",
                         ended |-> TRUE, energy |-> sreqs[s].energy]]
  BY <1>1 DEF CompleteSession, Inv, SessionsInv, SessionsTypeOK
<1>3. LedgerOf' = [LedgerOf EXCEPT ![tx] = [id |-> sessions[tx].id, status |-> "completed"]]
  BY <1>2 DEF LedgerOf
<1>4. LedgerOf' = [LedgerOf EXCEPT ![tx].status = "completed"]
  BY <1>2, <1>3 DEF LedgerOf
<1>5. LedgerOf[tx].id # 0 /\ BilledOf' = BilledOf
  BY <1>2 DEF LedgerOf, Exists, BilledOf
<1>6. Ledger!Close(tx)
  BY <1>4, <1>5 DEF Ledger!Close, LedgerOf, BilledOf
<1> QED BY <1>6

(* The INSERT of a billing transaction charges an entry: the request names
   the session of some transaction. *)
LEMMA ChargeRefined ==
  ASSUME Inv, NEW s \in Slots, NEW b \in BOOLEAN, CreateTransaction(s, b), UNCHANGED sessions
  PROVE  \E tx \in Tx : Ledger!Charge(tx)
<1> DEFINE row == [sid |-> breqs[s].sid, energy |-> breqs[s].energy,
                   price |-> breqs[s].price, amount |-> breqs[s].energy * breqs[s].price]
<1>1. breqs[s] \in BReq /\ breqs[s].sid # 0 /\ bills' = Append(bills, row)
  BY DEF CreateTransaction, Inv, BillingInv, BillingTypeOK, RequestsPriced, RequestFine
<1>2. row \in Bill /\ bills \in Seq(Bill) /\ row.sid = breqs[s].sid
  BY <1>1 DEF BReq, Bill, Inv, BillingInv, BillingTypeOK
<1> HIDE DEF row
<1>3. PICK tx \in Tx : sessions[tx].id # 0 /\ sessions[tx].id = breqs[s].sid
  BY <1>1 DEF Inv, RequestsNameSession, IsSession, Exists
<1>4. BilledOf' = Append(BilledOf, LedgerOf[tx].id) /\ LedgerOf[tx].id # 0
  BY <1>1, <1>2, <1>3, BilledOfAppend DEF LedgerOf
<1>5. LedgerOf' = LedgerOf
  BY DEF LedgerOf
<1>6. Ledger!Charge(tx)
  BY <1>4, <1>5 DEF Ledger!Charge, LedgerOf, BilledOf
<1> QED BY <1>6

(* The deployment implements the ledger, under every fault of the model and
   for any number of stations: ids are fresh and kept, sessions never
   disappear, and billing transactions are only added, each for a session
   that exists.  Every step is one step of the ledger or leaves it alone. *)
THEOREM ImplementsLedger == Spec => LedgerSpec
<1>1. Init => Ledger!LedgerInit
  BY DEF Init, SessionsInit, BillingInit, NoRow, Ledger!LedgerInit
<1>2. ASSUME Inv, [Next]_vars
      PROVE  Ledger!LedgerNext \/ UNCHANGED <<LedgerOf, BilledOf>>
  <2>1. CASE UNCHANGED <<sessions, bills>>
    BY <2>1 DEF LedgerOf, BilledOf
  <2>2. ASSUME NEW s \in Slots, NEW b \in BOOLEAN,
               StartSession(s, b) \/ CompleteSession(s, b), UNCHANGED bills
        PROVE  Ledger!LedgerNext
    BY <1>2, <2>2, OpenRefined, CloseRefined DEF Ledger!LedgerNext, LedgerOf
  <2>3. ASSUME NEW s \in Slots, NEW b \in BOOLEAN, CreateTransaction(s, b),
               UNCHANGED sessions
        PROVE  Ledger!LedgerNext
    BY <1>2, <2>3, ChargeRefined DEF Ledger!LedgerNext
  <2> QED BY <1>2, <2>1, <2>2, <2>3, TableSteps
<1>3. Inv /\ [Next]_vars => [Ledger!LedgerNext]_<<LedgerOf, BilledOf>>
  BY <1>2
<1> QED
  BY <1>1, <1>3, SystemInvariant, PTL
     DEF Spec, LedgerSpec, Ledger!LedgerSpec, LedgerOf, BilledOf

-----------------------------------------------------------------------------
(* A session is billed once: the claim that a session gets billed passes   *)
(* from the transaction store to the handler that stops the transaction,   *)
(* from there to one request and from the request to one row.              *)

(* Transactions are started once, and stopped over the connection that
   started them. *)
OwnTransactions ==
    /\ \A c \in Conns : TxOf[c] \subseteq Generated
    /\ \A c, d \in Conns : c # d => TxOf[c] \cap TxOf[d] = {}

(* billing-service is about to bill, or has billed, session id sid. *)
Pending(s) == breqs[s].pc \in {"recv", "priced"}
Claimed(sid) ==
    \/ \E s \in Slots : Pending(s) /\ breqs[s].sid = sid
    \/ \E i \in DOMAIN bills : bills[i].sid = sid
Unclaimed == {tx \in Tx : Exists(tx) => ~Claimed(sessions[tx].id)}

(* The handler r may yet have its transaction billed, or store it. *)
Holding(r) ==
    \/ r.pc \in {"startCall", "startWait", "startSet", "stopDelete"}
    \/ r.pc \in {"stopCall", "stopWait", "billCall"} /\ r.sid # 0

(* What handler r of connection c holds is its own, has not been billed, and
   is not in the store as well, unless r is about to take it out. *)
HeldBy(c, r) ==
    Holding(r) =>
      /\ r.tx \in TxOf[c] /\ r.tx \in gen /\ r.tx \in Unclaimed
      /\ txStore[r.tx].live => r.pc = "stopDelete"

HeldUnclaimed == \A c \in Conns : HeldBy(c, h[c])
StoredUnclaimed == \A tx \in Tx : txStore[tx].live => tx \in gen /\ tx \in Unclaimed
FreshUnclaimed == \A tx \in Tx : tx \notin gen => tx \in Unclaimed

ClaimedOnce ==
    /\ \A s, u \in Slots :
         s # u /\ Pending(s) /\ Pending(u) => breqs[s].sid # breqs[u].sid
    /\ \A s \in Slots, i \in DOMAIN bills : Pending(s) => bills[i].sid # breqs[s].sid
    /\ NoDoubleBilling

OnceInv == HeldUnclaimed /\ StoredUnclaimed /\ FreshUnclaimed /\ ClaimedOnce

(* Without a new request, what is claimed was claimed before, and once. *)
LEMMA ClaimsKept ==
  ASSUME BillingInv, ClaimedOnce, BillingOwn \/ UNCHANGED billingVars
  PROVE  ClaimedOnce' /\ \A sid : Claimed(sid)' => Claimed(sid)
<1> DEFINE Goal == ClaimedOnce' /\ \A sid : Claimed(sid)' => Claimed(sid)
<1>1. /\ breqs \in [Slots -> BReq] /\ FreeBReq.pc = "free" /\ bills \in Seq(Bill)
      /\ \A s \in Slots : breqs[s] \in BReq
  BY DEF BillingInv, BillingTypeOK, FreeBReq
<1>2. ASSUME bills' = bills,
             \A s \in Slots : Pending(s)' => Pending(s) /\ breqs'[s].sid = breqs[s].sid
      PROVE  Goal
  BY <1>2 DEF ClaimedOnce, Claimed, NoDoubleBilling
<1>3. ASSUME NEW s \in Slots, NEW r2, breqs' = [breqs EXCEPT ![s] = r2], bills' = bills,
             r2.pc \in {"recv", "priced"} => Pending(s) /\ r2.sid = breqs[s].sid
      PROVE  Goal
  BY <1>1, <1>2, <1>3 DEF Pending
<1>4. ASSUME NEW s \in Slots, NEW b \in BOOLEAN, CreateTransaction(s, b)
      PROVE  Goal
  <2> DEFINE row == [sid |-> breqs[s].sid, energy |-> breqs[s].energy,
                     price |-> breqs[s].price, amount |-> breqs[s].energy * breqs[s].price]
             x == IF b THEN "ok" ELSE "err"
  <2>1. /\ bills' = Append(bills, row) /\ Pending(s)
        /\ breqs' = [breqs EXCEPT ![s] = Finish(breqs[s], x, FreeBReq)]
        /\ x \in {"ok", "err"} /\ row.sid = breqs[s].sid
    BY <1>4, <1>1 DEF CreateTransaction, Pending
  <2> HIDE DEF row, x
  <2>2. /\ ~Pending(s)'
        /\ \A u \in Slots : Pending(u)' => /\ u # s /\ Pending(u)
                                           /\ breqs'[u].sid = breqs[u].sid
    BY <2>1, <1>1, BillRequestEnds DEF Pending, SameWork
  <2>3. /\ DOMAIN bills' = DOMAIN bills \cup {Len(bills) + 1}
        /\ Len(bills) + 1 \notin DOMAIN bills
        /\ \A i \in DOMAIN bills : bills'[i] = bills[i]
        /\ bills'[Len(bills) + 1].sid = breqs[s].sid
    BY <2>1, <1>1
  <2>4. \A i \in DOMAIN bills : bills[i].sid # breqs[s].sid
    BY <2>1 DEF ClaimedOnce
  <2>5. NoDoubleBilling'
    BY <2>3, <2>4 DEF ClaimedOnce, NoDoubleBilling
  <2>6. \A u \in Slots, i \in DOMAIN bills' : Pending(u)' => bills'[i].sid # breqs'[u].sid
    BY <2>1, <2>2, <2>3 DEF ClaimedOnce
  <2>7. \A u, v \in Slots :
          u # v /\ Pending(u)' /\ Pending(v)' => breqs'[u].sid # breqs'[v].sid
    BY <2>2 DEF ClaimedOnce
  <2>8. \A sid : Claimed(sid)' => Claimed(sid)
    BY <2>1, <2>2, <2>3 DEF Claimed
  <2> QED BY <2>5, <2>6, <2>7, <2>8 DEF ClaimedOnce
<1>5. ASSUME NEW s \in Slots, NEW p \in AllPrices, NEW m \in BOOLEAN,
             ActiveTariff(s, p, m)
      PROVE  Goal
  <2> DEFINE r2 == [breqs[s] EXCEPT !.pc = "priced", !.price = Charged(p),
                                    !.missed = m]
  <2>1. breqs' = [breqs EXCEPT ![s] = r2] /\ bills' = bills /\ Pending(s)
    BY <1>5, <1>1 DEF ActiveTariff, Pending
  <2>2. r2.sid = breqs[s].sid
    BY <1>1 DEF BReq
  <2> HIDE DEF r2
  <2> QED BY <2>1, <2>2, <1>3
<1>6. ASSUME NEW s \in Slots, CalculateFails(s) \/ BillReply(s) \/ BillTimeout(s)
      PROVE  Goal
  <2>1. PICK r2 \in {Finish(breqs[s], "err", FreeBReq), FreeBReq,
                     Abandon(breqs[s], FreeBReq)} : breqs' = [breqs EXCEPT ![s] = r2]
    BY <1>6, <1>1 DEF CalculateFails, BillReply, BillTimeout
  <2>2. bills' = bills
    BY <1>6 DEF CalculateFails, BillReply, BillTimeout
  <2>3. r2.pc \in {"recv", "priced"} => Pending(s) /\ r2.sid = breqs[s].sid
    BY <2>1, <1>1, BillRequestEnds DEF Pending, SameWork
  <2> QED BY <2>1, <2>2, <2>3, <1>3
<1>7. CASE BillCrash \/ BillCallersGone
  BY <1>7, <1>1, <1>2, BillRequestEnds DEF BillCrash, BillCallersGone, Pending, SameWork
<1>8. CASE TariffStep \/ UNCHANGED billingVars
  BY <1>8, <1>2, TariffStepLeaves DEF billingVars, Pending
<1> QED BY <1>4, <1>5, <1>6, <1>7, <1>8 DEF BillingOwn, BillStep

(* What is claimed is the session of some transaction, so a session that is
   created in this step is not claimed. *)
LEMMA UnclaimedKept ==
  ASSUME Inv, Inv', IdsKept, \A sid : Claimed(sid)' => Claimed(sid)
  PROVE  Unclaimed \subseteq Unclaimed'
<1> SUFFICES ASSUME NEW tx \in Tx, tx \in Unclaimed, Exists(tx)', Claimed(sessions'[tx].id)
             PROVE  FALSE
  BY DEF Unclaimed
<1>1. sessions'[tx].id # 0
  BY DEF Exists
<1>2. IsSession(sessions'[tx].id)
  BY <1>1 DEF Claimed, Inv, RequestsNameSession, BilledSessionsExist
<1>3. PICK u \in Tx : Exists(u) /\ sessions[u].id = sessions'[tx].id
  BY <1>2 DEF IsSession
<1>4. sessions'[u].id = sessions'[tx].id
  BY <1>3 DEF IdsKept
<1>5. u = tx
  BY <1>1, <1>4 DEF Inv, SessionsInv, UniqueIds, Exists
<1> QED BY <1>3, <1>5 DEF Unclaimed

(* A step of connection c's handler disturbs what c's own transactions are
   claimed by, and no others. *)
LEMMA OneHolderMoves ==
  ASSUME OwnTransactions, Inv, HeldUnclaimed, StoredUnclaimed,
         NEW c \in Conns, NEW r, h' = [h EXCEPT ![c] = r], gen \subseteq gen',
         \A tx \in Tx \ TxOf[c] : /\ txStore'[tx] = txStore[tx]
                                  /\ tx \in Unclaimed => tx \in Unclaimed',
         Holding(r) => /\ r.tx \in TxOf[c] /\ r.tx \in gen' /\ r.tx \in Unclaimed'
                       /\ txStore'[r.tx].live => r.pc = "stopDelete",
         \A tx \in TxOf[c] : txStore'[tx].live => tx \in gen' /\ tx \in Unclaimed',
         \A tx \in Tx : tx \notin gen' => tx \in Unclaimed'
  PROVE  HeldUnclaimed' /\ StoredUnclaimed' /\ FreshUnclaimed'
<1>1. h \in [Conns -> Handler] /\ \A d \in Conns : TxOf[d] \subseteq Tx
  BY OcppAssumption DEF Inv, OcppTypeOK
<1>2. HeldUnclaimed'
  <2> SUFFICES ASSUME NEW d \in Conns, Holding(h'[d])
               PROVE  /\ h'[d].tx \in TxOf[d] /\ h'[d].tx \in gen' /\ h'[d].tx \in Unclaimed'
                      /\ txStore'[h'[d].tx].live => h'[d].pc = "stopDelete"
    BY DEF HeldUnclaimed, HeldBy, Holding
  <2>1. CASE d = c
    BY <2>1, <1>1
  <2>2. CASE d # c
    <3>1. h'[d] = h[d]
      BY <2>2, <1>1
    <3>2. /\ h[d].tx \in TxOf[d] /\ h[d].tx \in gen /\ h[d].tx \in Unclaimed
          /\ txStore[h[d].tx].live => h[d].pc = "stopDelete"
      BY <3>1 DEF HeldUnclaimed, HeldBy
    <3>3. h[d].tx \in Tx \ TxOf[c]
      BY <2>2, <3>2, <1>1 DEF OwnTransactions
    <3> QED BY <3>1, <3>2, <3>3
  <2> QED BY <2>1, <2>2
<1>3. StoredUnclaimed'
  BY <1>1 DEF StoredUnclaimed
<1> QED BY <1>2, <1>3 DEF FreshUnclaimed

(* A step of ocpp-server that leads to no new claim. *)
LEMMA HoldersMove ==
  ASSUME OwnTransactions, Inv, HeldUnclaimed, StoredUnclaimed, FreshUnclaimed,
         OcppAction, Unclaimed \subseteq Unclaimed'
  PROVE  HeldUnclaimed' /\ StoredUnclaimed' /\ FreshUnclaimed'
<1> DEFINE Goal == HeldUnclaimed' /\ StoredUnclaimed' /\ FreshUnclaimed'
<1>1. /\ h \in [Conns -> Handler] /\ txStore \in [Tx -> Context]
      /\ \A c \in Conns : h[c] \in Handler /\ TxOf[c] \subseteq Tx
      /\ ~NoContext.live /\ Idle.pc = "idle" /\ Idle.sid = 0
  BY OcppAssumption DEF Inv, OcppTypeOK, NoContext, Idle
(* The handler becomes r and keeps its claim, or none. *)
<1>2. ASSUME NEW c \in Conns, NEW r, h' = [h EXCEPT ![c] = r], UNCHANGED <<txStore, gen>>,
             \/ ~Holding(r)
             \/ /\ r.tx \in TxOf[c] /\ r.tx \in gen /\ r.tx \in Unclaimed
                /\ txStore[r.tx].live => r.pc = "stopDelete"
      PROVE  Goal
  <2>1. Unclaimed \subseteq Unclaimed'
    OBVIOUS
  <2>2. r.tx \in TxOf[c] /\ r.tx \in Unclaimed => r.tx \in Unclaimed'
    BY <1>1
  <2> QED BY <1>1, <1>2, <2>1, <2>2, OneHolderMoves DEF StoredUnclaimed, FreshUnclaimed
<1>3. ASSUME NEW c \in Conns, BeginStart(c) PROVE Goal
  <2>1. PICK tx \in TxOf[c], k \in Connectors, m \in Meters :
          /\ tx \notin gen /\ gen' = gen \cup ({tx} \cap Generated)
          /\ h' = [h EXCEPT ![c] = [Idle EXCEPT !.pc = "startCall", !.tx = tx,
                                               !.con = k, !.meter = m]]
    BY <1>3 DEF BeginStart
  <2> DEFINE r == [Idle EXCEPT !.pc = "startCall", !.tx = tx, !.con = k, !.meter = m]
  <2>2. h' = [h EXCEPT ![c] = r] /\ r.tx = tx
    BY <2>1 DEF Idle
  <2>3. tx \in Tx /\ tx \in gen' /\ gen \subseteq gen' /\ txStore' = txStore
    BY <2>1, <1>1, <1>3 DEF BeginStart, OwnTransactions
  <2>4. tx \in Unclaimed /\ ~txStore[tx].live
    BY <2>1, <2>3 DEF FreshUnclaimed, StoredUnclaimed
  <2> HIDE DEF r
  <2>5. /\ r.tx \in TxOf[c] /\ r.tx \in gen' /\ r.tx \in Unclaimed' /\ ~txStore'[r.tx].live
    <3>1. tx \in Unclaimed'
      BY <2>3, <2>4
    <3> QED BY <3>1, <2>1, <2>2, <2>3, <2>4
  <2>6. \A u \in Tx : /\ u \notin gen' => u \in Unclaimed'
                      /\ txStore'[u].live => u \in gen' /\ u \in Unclaimed'
    BY <2>3 DEF FreshUnclaimed, StoredUnclaimed
  <2> QED BY <2>2, <2>3, <2>5, <2>6, <1>1, OneHolderMoves
<1>4. ASSUME NEW c \in Conns, BeginStop(c) PROVE Goal
  <2>1. PICK tx \in TxOf[c] \cup {None}, m \in Meters :
          LET known == tx \in Tx /\ txStore[tx].live
              ctx   == IF known THEN txStore[tx] ELSE NoContext
          IN  h' = [h EXCEPT ![c] =
               [Idle EXCEPT !.pc = IF known THEN "stopDelete" ELSE "stopCall",
                            !.tx = tx, !.meter = m, !.sid = ctx.sid,
                            !.energy = IF known /\ m > ctx.meter
                                       THEN m - ctx.meter ELSE 0]]
    BY <1>4 DEF BeginStop
  <2> DEFINE known == tx \in Tx /\ txStore[tx].live
             ctx == IF known THEN txStore[tx] ELSE NoContext
             e == IF known /\ m > ctx.meter THEN m - ctx.meter ELSE 0
             r == [Idle EXCEPT !.pc = IF known THEN "stopDelete" ELSE "stopCall",
                               !.tx = tx, !.meter = m, !.sid = ctx.sid, !.energy = e]
  <2>2. h' = [h EXCEPT ![c] = r]
    BY <2>1, Zenon
  <2>3. r.tx = tx /\ (known => r.pc = "stopDelete")
        /\ (~known => r.pc = "stopCall" /\ r.sid = 0)
    <3> HIDE DEF known, e
    <3> QED BY DEF Idle, NoContext
  <2>4. known => tx \in TxOf[c] /\ tx \in gen /\ tx \in Unclaimed
    BY DeploymentAssumption DEF StoredUnclaimed
  <2> HIDE DEF r, known
  <2>5. ~known => ~Holding(r)
    BY <2>3 DEF Holding
  <2> QED BY <1>4, <2>2, <2>3, <2>4, <2>5, <1>2 DEF BeginStop
<1>5. ASSUME NEW c \in Conns, NEW s \in Slots,
             \/ Wait(c, "startCall", "startWait", s)
             \/ Wait(c, "stopCall", "stopWait", s)
             \/ Wait(c, "billCall", "billWait", s)
             \/ Wait(c, "meterCall", "meterWait", s)
      PROVE  Goal
  <2>1. PICK pc \in {"startWait", "stopWait", "billWait", "meterWait"} :
          /\ h' = [h EXCEPT ![c] = [h[c] EXCEPT !.pc = pc, !.slot = s]]
          /\ pc = "startWait" => h[c].pc = "startCall"
          /\ pc = "stopWait" => h[c].pc = "stopCall"
    BY <1>5, <1>1 DEF Wait
  <2> DEFINE r == [h[c] EXCEPT !.pc = pc, !.slot = s]
  <2>2. r.tx = h[c].tx /\ r.sid = h[c].sid /\ r.pc = pc
    BY <1>1 DEF Handler
  <2> HIDE DEF r
  <2>3. Holding(r) => Holding(h[c]) /\ h[c].pc # "stopDelete"
    BY <2>1, <2>2 DEF Holding
  <2>4. h' = [h EXCEPT ![c] = r] /\ UNCHANGED <<txStore, gen>>
    BY <2>1, <1>5 DEF Wait, r
  <2> QED BY <2>2, <2>3, <2>4, <1>2 DEF HeldUnclaimed, HeldBy
<1>6. ASSUME NEW c \in Conns, NEW sid \in Nat, StartReturn(c, sid) PROVE Goal
  <2> DEFINE r == [h[c] EXCEPT !.pc = "startSet", !.sid = sid, !.slot = None]
  <2>1. h' = [h EXCEPT ![c] = r] /\ UNCHANGED <<txStore, gen>>
        /\ h[c].pc \in {"startCall", "startWait"}
    BY <1>6, <1>1 DEF StartReturn
  <2>2. r.tx = h[c].tx
    BY <1>1 DEF Handler
  <2> HIDE DEF r
  <2>3. Holding(h[c]) /\ h[c].pc # "stopDelete"
    BY <2>1 DEF Holding
  <2> QED BY <2>1, <2>2, <2>3, <1>2 DEF HeldUnclaimed, HeldBy
<1>7. ASSUME NEW c \in Conns, StartSet(c) PROVE Goal
  <2>1. /\ h[c].pc = "startSet" /\ h' = [h EXCEPT ![c] = Idle] /\ gen' = gen
        /\ txStore' = [txStore EXCEPT ![h[c].tx] =
                         [live |-> TRUE, sid |-> h[c].sid, meter |-> h[c].meter]]
    BY <1>7 DEF StartSet
  <2>2. h[c].tx \in TxOf[c] /\ h[c].tx \in gen /\ h[c].tx \in Unclaimed
    BY <2>1 DEF HeldUnclaimed, HeldBy, Holding
  <2>3. \A tx \in Tx : tx # h[c].tx => txStore'[tx] = txStore[tx]
    BY <2>1, <1>1
  <2>4. \A tx \in Tx : txStore'[tx].live => tx \in gen /\ tx \in Unclaimed
    BY <2>2, <2>3 DEF StoredUnclaimed
  <2>5. ~Holding(Idle)
    BY DEF Holding, Idle
  <2>6. \A tx \in Tx : txStore'[tx].live => tx \in gen /\ tx \in Unclaimed'
    BY <2>4
  <2>7. \A tx \in Tx : tx \notin gen' => tx \in Unclaimed'
    BY <2>1 DEF FreshUnclaimed
  <2>8. \A tx \in Tx \ TxOf[c] : /\ txStore'[tx] = txStore[tx]
                                 /\ tx \in Unclaimed => tx \in Unclaimed'
    BY <2>2, <2>3
  <2>9. \A tx \in TxOf[c] : txStore'[tx].live => tx \in gen' /\ tx \in Unclaimed'
    BY <2>1, <2>6, <1>1
  <2> QED BY <2>1, <2>5, <2>7, <2>8, <2>9, OneHolderMoves
<1>8. ASSUME NEW c \in Conns, StopDelete(c) PROVE Goal
  <2> DEFINE r == [h[c] EXCEPT !.pc = "stopCall"]
  <2>1. /\ h[c].pc = "stopDelete" /\ h' = [h EXCEPT ![c] = r] /\ gen' = gen
        /\ txStore' = [txStore EXCEPT ![h[c].tx] = NoContext]
    BY <1>8, <1>1 DEF StopDelete
  <2>2. h[c].tx \in TxOf[c] /\ h[c].tx \in gen /\ h[c].tx \in Unclaimed /\ h[c].tx \in Tx
    BY <2>1, <1>1 DEF HeldUnclaimed, HeldBy, Holding
  <2>3. r.tx = h[c].tx
    BY <1>1 DEF Handler
  <2>4. /\ ~txStore'[h[c].tx].live
        /\ \A tx \in Tx : tx # h[c].tx => txStore'[tx] = txStore[tx]
    BY <2>1, <2>2, <1>1
  <2>5. \A tx \in Tx : txStore'[tx].live => tx \in gen /\ tx \in Unclaimed'
    BY <2>4 DEF StoredUnclaimed
  <2>6. \A tx \in Tx : tx \notin gen' => tx \in Unclaimed'
    BY <2>1 DEF FreshUnclaimed
  <2> HIDE DEF r
  <2>7. r.tx \in TxOf[c] /\ r.tx \in gen' /\ r.tx \in Unclaimed' /\ ~txStore'[r.tx].live
    BY <2>1, <2>2, <2>3, <2>4
  <2>8. \A tx \in Tx \ TxOf[c] : /\ txStore'[tx] = txStore[tx]
                                 /\ tx \in Unclaimed => tx \in Unclaimed'
    BY <2>2, <2>4
  <2>9. \A tx \in TxOf[c] : txStore'[tx].live => tx \in gen' /\ tx \in Unclaimed'
    BY <2>1, <2>5, <1>1
  <2>10. h' = [h EXCEPT ![c] = r] /\ gen \subseteq gen'
    BY <2>1
  <2> QED BY <2>6, <2>7, <2>8, <2>9, <2>10, OneHolderMoves
<1>9. ASSUME NEW c \in Conns, StopReturn(c) PROVE Goal
  <2> DEFINE pc == IF h[c].sid > 0 THEN "billCall" ELSE "stopState"
             r == [h[c] EXCEPT !.slot = None, !.pc = pc]
  <2>1. h' = [h EXCEPT ![c] = r] /\ UNCHANGED <<txStore, gen>>
        /\ h[c].pc \in {"stopCall", "stopWait"}
    BY <1>9, <1>1 DEF StopReturn
  <2>2. r.tx = h[c].tx /\ r.sid = h[c].sid /\ r.pc \in {"billCall", "stopState"}
    BY <1>1 DEF Handler
  <2> HIDE DEF r
  <2>3. Holding(r) => Holding(h[c]) /\ h[c].pc # "stopDelete"
    BY <2>1, <2>2 DEF Holding
  <2> QED BY <2>1, <2>2, <2>3, <1>2 DEF HeldUnclaimed, HeldBy
(* The handler holds nothing afterwards. *)
<1>10. ASSUME NEW c \in Conns, NEW r, h' = [h EXCEPT ![c] = r],
              UNCHANGED <<txStore, gen>>, ~Holding(r)
       PROVE  Goal
  BY <1>2, <1>10
<1>11. ASSUME NEW c \in Conns,
              \/ BeginMeter(c) \/ BeginBoot(c) \/ BeginStatus(c)
              \/ StopState(c) \/ BootState(c) \/ StatusState(c) \/ StatusConnector(c)
              \/ BillReturn(c) \/ MeterReturn(c)
       PROVE  Goal
  <2>1. UNCHANGED <<txStore, gen>>
    BY <1>11 DEF BeginMeter, BeginBoot, BeginStatus, StopState, BootState, StatusState,
                 StatusConnector, BillReturn, MeterReturn
  <2>2. \/ h' = h
        \/ \E r : h' = [h EXCEPT ![c] = r]
                  /\ r.pc \in {"idle", "meterCall", "bootState", "statusState",
                               "statusConnector", "stopState"}
    <3>1. ASSUME NEW tx, NEW m, NEW sid
          PROVE  [Idle EXCEPT !.pc = "meterCall", !.tx = tx, !.meter = m,
                              !.sid = sid].pc = "meterCall"
      BY DEF Idle
    <3>2. /\ [Idle EXCEPT !.pc = "bootState"].pc = "bootState"
          /\ \A k, x : [Idle EXCEPT !.pc = "statusState", !.con = k,
                                    !.status = x].pc = "statusState"
          /\ [h[c] EXCEPT !.pc = "statusConnector"].pc = "statusConnector"
          /\ [h[c] EXCEPT !.slot = None, !.pc = "stopState"].pc = "stopState"
      BY <1>1 DEF Idle, Handler
    <3>3. CASE BeginMeter(c)
      <4>1. PICK tx \in TxOf[c], m \in Meters :
              h' = [h EXCEPT ![c] = [Idle EXCEPT !.pc = "meterCall", !.tx = tx,
                                       !.meter = m, !.sid = txStore[tx].sid]]
        BY <3>3 DEF BeginMeter
      <4> DEFINE r == [Idle EXCEPT !.pc = "meterCall", !.tx = tx,
                                   !.meter = m, !.sid = txStore[tx].sid]
      <4>2. h' = [h EXCEPT ![c] = r] /\ r.pc = "meterCall"
        BY <4>1, <3>1
      <4> HIDE DEF r
      <4> QED BY <4>2
    <3>4. CASE BeginBoot(c)
      BY <3>2, <3>4 DEF BeginBoot
    <3>8. CASE BeginStatus(c)
      <4>1. PICK k \in Connectors, x \in Statuses :
              h' = [h EXCEPT ![c] = [Idle EXCEPT !.pc = "statusState",
                                          !.con = k, !.status = x]]
        BY <3>8, OcppAssumption DEF BeginStatus
      <4> DEFINE r == [Idle EXCEPT !.pc = "statusState", !.con = k, !.status = x]
      <4>2. h' = [h EXCEPT ![c] = r] /\ r.pc = "statusState"
        BY <4>1, <3>2
      <4> HIDE DEF r
      <4> QED BY <4>2
    <3>5. CASE StopState(c) \/ BootState(c) \/ StatusConnector(c) \/ MeterReturn(c)
      BY <1>1, <3>5 DEF StopState, BootState, StatusConnector, MeterReturn
    <3>6. CASE StatusState(c)
      BY <3>2, <3>6, <1>1 DEF StatusState
    <3>7. CASE BillReturn(c)
      BY <3>2, <3>7, <1>1 DEF BillReturn
    <3> QED BY <1>11, <3>3, <3>4, <3>5, <3>6, <3>7, <3>8
  <2>3. CASE h' = h
    BY <2>1, <2>3 DEF HeldUnclaimed, HeldBy, StoredUnclaimed, FreshUnclaimed, Holding
  <2>4. ASSUME NEW r, h' = [h EXCEPT ![c] = r],
               r.pc \in {"idle", "meterCall", "bootState", "statusState",
                         "statusConnector", "stopState"}
        PROVE  Goal
    BY <2>1, <2>4, <1>10 DEF Holding
  <2> QED BY <2>2, <2>3, <2>4
<1>12. CASE Restart
  BY <1>1, <1>12 DEF Restart, HeldUnclaimed, HeldBy, StoredUnclaimed, FreshUnclaimed, Holding
<1> QED
  BY <1>3, <1>4, <1>5, <1>6, <1>7, <1>8, <1>9, <1>11, <1>12
     DEF OcppAction, Begin, OwnStep

(* A session's bill is ordered: the claim passes from the handler, which
   keeps none, to one request. *)
LEMMA BillOrdered ==
  ASSUME OwnTransactions, Inv, OnceInv, NEW c \in Conns, NEW s \in Slots,
         BillCall(c, s)
  PROVE  OnceInv'
<1> DEFINE r == [h[c] EXCEPT !.pc = "billWait", !.slot = s]
           tx == h[c].tx
           sid == h[c].sid
<1>1. /\ h \in [Conns -> Handler] /\ h[c] \in Handler /\ TxOf[c] \subseteq Tx
      /\ breqs \in [Slots -> BReq]
  BY OcppAssumption DEF Inv, OcppTypeOK, BillingInv, BillingTypeOK
<1>2. /\ h[c].pc = "billCall" /\ breqs[s].pc = "free"
      /\ h' = [h EXCEPT ![c] = r] /\ UNCHANGED <<txStore, gen, sessions, bills>>
      /\ \A u \in Slots : u # s => breqs'[u] = breqs[u]
      /\ breqs'[s].sid = sid /\ (breqs'[s].pc = IF sid = 0 THEN "err" ELSE "recv")
  BY <1>1 DEF BillCall, BillReceive, Wait, sessionsVars
<1>3. /\ \A u \in Slots : u # s => (Pending(u)' <=> Pending(u)) /\ breqs'[u] = breqs[u]
      /\ Pending(s)' => sid # 0
  BY <1>2 DEF Pending
<1>4. CASE sid = 0
  <2>1. ~Pending(s)' /\ ~Pending(s)
    BY <1>2, <1>4 DEF Pending
  <2>2. ClaimedOnce'
    BY <1>2, <1>3, <2>1 DEF OnceInv, ClaimedOnce, NoDoubleBilling
  <2>3. Unclaimed \subseteq Unclaimed'
    BY <1>2, <1>3, <2>1 DEF Unclaimed, Claimed, Exists
  <2>4. OcppAction
    BY DEF BillCall, OcppAction
  <2> QED BY <2>2, <2>3, <2>4, HoldersMove DEF OnceInv
<1>5. CASE sid # 0
  <2>1. Holding(h[c]) /\ tx \in Tx /\ sid = sessions[tx].id /\ Exists(tx)
    BY <1>2, <1>5 DEF Holding, Inv, HandlersNameSession, Names, Exists
  <2>2. tx \in TxOf[c] /\ tx \in gen /\ ~Claimed(sid) /\ ~txStore[tx].live
    BY <2>1, <1>2 DEF OnceInv, HeldUnclaimed, HeldBy, Unclaimed
  <2>3. ClaimedOnce'
    <3>1. /\ \A u \in Slots : Pending(u) => breqs[u].sid # sid
          /\ \A i \in DOMAIN bills : bills[i].sid # sid
      BY <2>2 DEF Claimed
    <3> HIDE DEF sid
    <3>2. \A u, v \in Slots :
            u # v /\ Pending(u)' /\ Pending(v)' => breqs'[u].sid # breqs'[v].sid
      BY <3>1, <1>2, <1>3 DEF OnceInv, ClaimedOnce
    <3>3. \A u \in Slots, i \in DOMAIN bills' : Pending(u)' => bills'[i].sid # breqs'[u].sid
      BY <3>1, <1>2, <1>3 DEF OnceInv, ClaimedOnce
    <3> QED BY <3>2, <3>3, <1>2 DEF OnceInv, ClaimedOnce, NoDoubleBilling
  <2>4. \A u \in Tx : u # tx /\ u \in Unclaimed => u \in Unclaimed'
    <3> SUFFICES ASSUME NEW u \in Tx, u # tx, u \in Unclaimed, Exists(u),
                        Claimed(sessions[u].id)'
                 PROVE  FALSE
      BY <1>2 DEF Unclaimed, Exists
    <3>1. sessions[u].id # sid
      BY <2>1 DEF Inv, SessionsInv, UniqueIds
    <3>2. Claimed(sessions[u].id)
      BY <3>1, <1>2, <1>3 DEF Claimed
    <3> QED BY <3>2 DEF Unclaimed
  <2>5. ~Holding(r)
    BY <1>1 DEF Holding, Handler
  <2>6. \A u \in Tx \ TxOf[c] : /\ txStore'[u] = txStore[u]
                                /\ u \in Unclaimed => u \in Unclaimed'
    BY <2>2, <2>4, <1>2
  <2>7. \A u \in TxOf[c] : txStore'[u].live => u \in gen' /\ u \in Unclaimed'
    BY <2>2, <2>4, <1>1, <1>2 DEF OnceInv, StoredUnclaimed
  <2>8. \A u \in Tx : u \notin gen' => u \in Unclaimed'
    BY <2>2, <2>4, <1>2 DEF OnceInv, FreshUnclaimed
  <2> HIDE DEF r, tx
  <2>9. HeldUnclaimed' /\ StoredUnclaimed' /\ FreshUnclaimed'
    BY <1>2, <2>5, <2>6, <2>7, <2>8, OneHolderMoves DEF OnceInv
  <2> QED BY <2>3, <2>9 DEF OnceInv
<1> QED BY <1>4, <1>5

(* The invariant is inductive, relative to the invariant of the system. *)
LEMMA OnceNext ==
  ASSUME OwnTransactions, Inv, OnceInv, [Next]_vars
  PROVE  OnceInv'
<1>1. CASE Next
  <2>1. Inv'
    BY NextInv
  <2>2. IdsKept
    <3>1. CASE SessionsAction
      BY <3>1, SessionsStepInv DEF Inv
    <3>2. CASE UNCHANGED sessionsVars
      BY <3>2 DEF IdsKept, sessionsVars
    <3> QED BY <1>1, <3>1, <3>2, StepsOfComponents
  <2>3. CASE BillingOwn \/ UNCHANGED billingVars
    <3>1. ClaimedOnce' /\ Unclaimed \subseteq Unclaimed'
      BY <2>1, <2>2, <2>3, ClaimsKept, UnclaimedKept DEF Inv, OnceInv
    <3>2. CASE OcppAction
      BY <3>1, <3>2, HoldersMove DEF OnceInv
    <3>3. CASE UNCHANGED ocppVars
      <4>1. HeldUnclaimed'
        BY <3>1, <3>3 DEF OnceInv, HeldUnclaimed, HeldBy, Holding, ocppVars
      <4>2. StoredUnclaimed' /\ FreshUnclaimed'
        BY <3>1, <3>3 DEF OnceInv, StoredUnclaimed, FreshUnclaimed, ocppVars
      <4> QED BY <3>1, <4>1, <4>2 DEF OnceInv
    <3> QED BY <1>1, <3>2, <3>3, StepsOfComponents
  <2>4. ASSUME NEW c \in Conns, NEW s \in Slots, BillCall(c, s)
        PROVE  OnceInv'
    BY <2>4, BillOrdered
  <2> QED BY <1>1, <2>3, <2>4, StepsOfComponents
<1>2. CASE UNCHANGED vars
  BY <1>2 DEF vars, OnceInv, HeldUnclaimed, HeldBy, StoredUnclaimed, FreshUnclaimed,
              ClaimedOnce, NoDoubleBilling, Unclaimed, Claimed, Pending, Holding, Exists
<1> QED BY <1>1, <1>2

(* A session is billed at most once, for any number of stations, sessions
   and requests, although nobody remembers what has been billed: a repeated
   StopTransaction finds nothing in the store, and neither a restart, a
   timeout, a lost answer nor a request that takes effect late orders a
   second transaction.  Both parts of OwnTransactions are needed: a
   transaction id that a station starts again, or stops over two connections
   at once, can be billed twice. *)
THEOREM BilledOnce ==
  ASSUME OwnTransactions
  PROVE  Spec => []NoDoubleBilling
<1>1. Init => OnceInv
  <2> SUFFICES ASSUME Init PROVE OnceInv
    OBVIOUS
  <2>1. HeldUnclaimed /\ StoredUnclaimed
    BY DEF Init, OcppInit, HeldUnclaimed, HeldBy, Holding, StoredUnclaimed, Idle, NoContext
  <2>2. FreshUnclaimed /\ ClaimedOnce
    BY DEF Init, SessionsInit, BillingInit, NoRow, FreshUnclaimed, Unclaimed, Exists,
           ClaimedOnce, NoDoubleBilling, Pending, FreeBReq
  <2> QED BY <2>1, <2>2 DEF OnceInv
<1>2. Inv /\ OnceInv /\ [Next]_vars => OnceInv'
  BY OnceNext
<1>3. OnceInv => NoDoubleBilling
  BY DEF OnceInv, ClaimedOnce
<1> QED BY <1>1, <1>2, <1>3, SystemInvariant, PTL DEF Spec

=============================================================================
