---------------------- MODULE BillingServiceProofs ----------------------
(***************************************************************************)
(* billing-service charges a positive price that was in force while the    *)
(* request was handled, for any tariffs, any number of concurrent requests *)
(* and any faults.                                                         *)
(*                                                                         *)
(* The inductive invariant says the same of the requests that have been    *)
(* priced and not yet inserted: the price they carry was read in an        *)
(* earlier step and may be stale, but it is positive and was in force at   *)
(* some moment since the request came.                                     *)
(***************************************************************************)
EXTENDS BillingService, TLAPS

(* Request r carries a price that was in force since it came, or the default
   because its lookup failed. *)
WellPriced(r) ==
    /\ r.price > 0
    /\ InForceSince(r.price, r.since) \/ (r.missed /\ r.price = DefaultPrice)

(* What the invariant says of one request. *)
RequestFine(r) ==
    /\ r.pc \in {"recv", "priced"} => r.sid # 0 /\ r.since \in 1..Len(tariffs)
    /\ r.pc = "priced" => WellPriced(r)

RequestsPriced == \A s \in Slots : RequestFine(breqs[s])

BillsPriced ==
    \A i \in DOMAIN bills :
      bills[i].price > 0 /\ bills[i].amount = bills[i].energy * bills[i].price

(* The requests r and r2 are at the same point of the same work. *)
SameWork(r, r2) ==
    /\ r2.pc = r.pc /\ r2.sid = r.sid /\ r2.price = r.price
    /\ r2.since = r.since /\ r2.missed = r.missed

BillingInv == BillingTypeOK /\ RequestsPriced /\ BillsPriced

(* Anything that happens to the service, whoever calls it. *)
BillingAction ==
    \/ \E s \in Slots, sid \in Nat, e \in Nat : BillReceive(s, sid, e)
    \/ \E s \in Slots : BillStep(s) \/ BillReply(s) \/ BillTimeout(s)
    \/ TariffStep
    \/ BillCrash
    \/ BillCallersGone

-----------------------------------------------------------------------------

(* The initial state satisfies the invariant: both tables are empty. *)
LEMMA BillingInitInv == BillingInit => BillingInv
BY DEF BillingInit, BillingInv, BillingTypeOK, RequestsPriced, RequestFine,
       BillsPriced, BReq, FreeBReq

(* A step that changes nothing but one request keeps the invariant if the
   new request is fine. *)
LEMMA OneBillRequestChanges ==
  ASSUME BillingInv, NEW s \in Slots, NEW r2 \in BReq,
         breqs' = [breqs EXCEPT ![s] = r2],
         UNCHANGED <<bills, tariffs>>, RequestFine(r2)
  PROVE  BillingInv'
BY DEF BillingInv, BillingTypeOK, RequestsPriced, RequestFine, WellPriced,
       BillsPriced, InForceSince

(* A request that is answered, or whose slot is free, is fine; so is one that
   differs from a fine one in nothing that matters. *)
LEMMA FineRequests ==
  ASSUME NEW r, NEW r2
  PROVE  /\ r.pc \in {"ok", "err", "free"} => RequestFine(r)
         /\ RequestFine(r) /\ SameWork(r, r2) => RequestFine(r2)
BY DEF RequestFine, WellPriced, SameWork

(* The price charged is positive and, if read from a tariff in force or from
   the configuration, in force. *)
LEMMA ChargedPrice ==
  ASSUME NEW p \in Int
  PROVE  Charged(p) \in Int /\ Charged(p) > 0 /\ (p > 0 => Charged(p) = p)
BY DEF Charged

(* ActiveTariff: the price read is in force now. *)
LEMMA ActiveTariffInv ==
  ASSUME BillingInv, NEW s \in Slots, NEW p \in AllPrices, NEW m \in BOOLEAN,
         ActiveTariff(s, p, m)
  PROVE  BillingInv'
<1> DEFINE r2 == [breqs[s] EXCEPT !.pc = "priced", !.price = Charged(p),
                                  !.missed = m]
<1>1. /\ breqs \in [Slots -> BReq] /\ breqs[s].pc = "recv" /\ breqs[s].sid # 0
      /\ tariffs \in Seq(Seq(Tariff)) /\ breqs[s].since \in 1..Len(tariffs)
  BY DEF BillingInv, BillingTypeOK, RequestsPriced, RequestFine, ActiveTariff
<1>2. breqs' = [breqs EXCEPT ![s] = r2] /\ UNCHANGED <<bills, tariffs>>
  BY <1>1 DEF ActiveTariff
<1>3. p \in Int
  BY BillingAssumption DEF AllPrices
<1>4. /\ r2 \in BReq /\ r2.sid = breqs[s].sid /\ r2.price = Charged(p)
      /\ r2.pc = "priced" /\ r2.since = breqs[s].since /\ r2.missed = m
  <2>1. breqs[s] \in BReq /\ Charged(p) \in Int
    BY <1>1, <1>3, ChargedPrice
  <2> QED BY <2>1, <1>1 DEF BReq
<1>5. \/ InForceSince(Charged(p), breqs[s].since)
      \/ m /\ Charged(p) = DefaultPrice
  <2>1. CASE p \in InForce(Rows)
    <3>1. Len(tariffs) \in breqs[s].since..Len(tariffs)
      BY <1>1
    <3> QED BY <2>1, <3>1 DEF InForceSince, Rows
  <2>2. CASE GetActive(p)
    <3>1. p \in InForce(Rows)
      BY <2>2 DEF GetActive, InForce
    <3> QED BY <2>1, <3>1
  <2>3. CASE ActiveIn(Rows) = {} /\ DefaultPrice > 0 /\ p = DefaultPrice
    BY <2>1, <2>3 DEF InForce
  <2>4. CASE m /\ DefaultPrice > 0 /\ p = DefaultPrice
    BY <2>4, <1>3, ChargedPrice
  <2> QED BY <2>2, <2>3, <2>4 DEF ActiveTariff
<1>6. RequestFine(r2)
  <2> HIDE DEF r2
  <2> QED BY <1>1, <1>3, <1>4, <1>5, ChargedPrice DEF RequestFine, WellPriced
<1> HIDE DEF r2
<1> QED BY <1>2, <1>4, <1>6, OneBillRequestChanges

(* A finished, abandoned or broken request is a request and carries nothing
   new. *)
LEMMA BillRequestEnds ==
  ASSUME NEW r \in BReq, NEW outcome \in {"ok", "err"}
  PROVE  /\ Finish(r, outcome, FreeBReq) \in BReq
         /\ Finish(r, outcome, FreeBReq).pc \in {"ok", "err", "free"}
         /\ Broken(r, FreeBReq) \in BReq
         /\ Broken(r, FreeBReq).pc \in {"err", "free"}
         /\ Abandon(r, FreeBReq) \in BReq
         /\ \/ Abandon(r, FreeBReq).pc = "free"
            \/ SameWork(r, Abandon(r, FreeBReq))
<1>1. FreeBReq \in BReq /\ FreeBReq.pc = "free"
  BY DEF BReq, FreeBReq
<1>2. ASSUME NEW x \in {"ok", "err"}
      PROVE  [r EXCEPT !.pc = x] \in BReq /\ [r EXCEPT !.pc = x].pc = x
  BY DEF BReq
<1>3. /\ [r EXCEPT !.open = FALSE] \in BReq
      /\ SameWork(r, [r EXCEPT !.open = FALSE])
  BY DEF BReq, SameWork
<1>4. /\ Finish(r, outcome, FreeBReq) \in {[r EXCEPT !.pc = outcome], FreeBReq}
      /\ Broken(r, FreeBReq) \in {[r EXCEPT !.pc = "err"], FreeBReq}
      /\ Abandon(r, FreeBReq) \in {[r EXCEPT !.open = FALSE], FreeBReq}
  BY DEF Finish, Broken, Abandon
<1> QED BY <1>1, <1>2, <1>3, <1>4, Zenon

(* CreateTransaction: the new row carries the request's session and price. *)
LEMMA CreateTransactionInv ==
  ASSUME BillingInv, NEW s \in Slots, NEW b \in BOOLEAN, CreateTransaction(s, b)
  PROVE  BillingInv'
<1> DEFINE r  == breqs[s]
           r2 == Finish(r, IF b THEN "ok" ELSE "err", FreeBReq)
           row == [sid |-> r.sid, energy |-> r.energy, price |-> r.price,
                   amount |-> r.energy * r.price]
<1>1. /\ r \in BReq /\ r.sid # 0 /\ r.price > 0
      /\ breqs \in [Slots -> BReq] /\ bills \in Seq(Bill)
  BY DEF BillingInv, BillingTypeOK, RequestsPriced, RequestFine, WellPriced,
         CreateTransaction
<1>2. /\ bills' = Append(bills, row)
      /\ breqs' = [breqs EXCEPT ![s] = r2] /\ tariffs' = tariffs
  BY DEF CreateTransaction
<1>3. r2 \in BReq /\ r2.pc \in {"ok", "err", "free"}
  BY <1>1, BillRequestEnds
<1>4. r.energy \in Nat /\ r.price \in Int /\ r.energy * r.price \in Int
  BY <1>1 DEF BReq
<1>5. row \in Bill
  BY <1>1, <1>4 DEF Bill, BReq
<1>6. /\ bills' \in Seq(Bill) /\ DOMAIN bills' = 1..(Len(bills) + 1)
      /\ DOMAIN bills = 1..Len(bills) /\ Len(bills) \in Nat
      /\ \A i \in DOMAIN bills' :
           \/ i \in DOMAIN bills /\ bills'[i] = bills[i]
           \/ bills'[i] = row
  <2> HIDE DEF row
  <2> QED BY <1>1, <1>2, <1>5
<1>7. row.sid = r.sid /\ row.price = r.price /\ row.energy = r.energy
      /\ row.amount = r.energy * r.price
  OBVIOUS
<1> HIDE DEF r2, row
<1>8. BillingTypeOK'
  BY <1>1, <1>2, <1>3, <1>6, <1>7 DEF BillingInv, BillingTypeOK
<1>9. RequestsPriced'
  <2>1. RequestFine(r2)
    BY <1>3, FineRequests
  <2> QED BY <1>1, <1>2, <2>1 DEF BillingInv, RequestsPriced, RequestFine,
             WellPriced, InForceSince
<1>10. BillsPriced'
  BY <1>1, <1>2, <1>6, <1>7 DEF BillingInv, BillsPriced
<1> QED BY <1>8, <1>9, <1>10 DEF BillingInv

(* An operator's change leaves the bills and the requests alone. *)
LEMMA TariffStepLeaves == TariffStep => UNCHANGED <<bills, breqs>>
BY DEF TariffStep, TariffAdded, TariffUpdated

(* An operator's change adds a state of the table to the history and leaves
   the earlier ones alone. *)
LEMMA TariffHistory ==
  ASSUME BillingInv, TariffStep
  PROVE  \E t \in Seq(Tariff) :
           tariffs' = Append(tariffs, t) /\ UNCHANGED <<bills, breqs>>
<1>1. Rows \in Seq(Tariff)
  BY DEF BillingInv, BillingTypeOK, Rows
<1>2. PICK p \in Prices, a \in BOOLEAN :
        LET row == [price |-> p, active |-> a]
        IN  \/ TariffAdded(row)
            \/ \E i \in DOMAIN Rows, touched \in BOOLEAN :
                 TariffUpdated(i, row, touched)
  BY DEF TariffStep
<1> DEFINE row == [price |-> p, active |-> a]
<1>3. row \in Tariff
  BY BillingAssumption DEF Tariff
<1> HIDE DEF row
<1>4. CASE TariffAdded(row)
  <2>1. Append(Rows, row) \in Seq(Tariff)
    BY <1>1, <1>3
  <2> QED BY <1>4, <2>1 DEF TariffAdded
<1>5. ASSUME NEW i \in DOMAIN Rows, NEW touched \in BOOLEAN,
             TariffUpdated(i, row, touched)
      PROVE  \E t \in Seq(Tariff) :
               tariffs' = Append(tariffs, t) /\ UNCHANGED <<bills, breqs>>
  <2>1. [Rows EXCEPT ![i] = row] \in Seq(Tariff)
    BY <1>1, <1>3
  <2>2. Append(Seqs!RemoveAt(Rows, i), row) \in Seq(Tariff)
    <3>1. /\ SubSeq(Rows, 1, i - 1) \in Seq(Tariff)
          /\ SubSeq(Rows, i + 1, Len(Rows)) \in Seq(Tariff)
      BY <1>1
    <3>2. Seqs!RemoveAt(Rows, i) \in Seq(Tariff)
      BY <3>1 DEF Seqs!RemoveAt
    <3> QED BY <3>2, <1>3
  <2> QED BY <1>5, <2>1, <2>2 DEF TariffUpdated
<1> QED BY <1>2, <1>4, <1>5 DEF row

(* An operator's change of the tariffs: what was in force since a request
   came stays so. *)
LEMMA TariffStepInv ==
  ASSUME BillingInv, TariffStep
  PROVE  BillingInv'
<1>1. PICK t \in Seq(Tariff) :
        tariffs' = Append(tariffs, t) /\ UNCHANGED <<bills, breqs>>
  BY TariffHistory
<1>2. /\ tariffs \in Seq(Seq(Tariff)) /\ tariffs' \in Seq(Seq(Tariff))
      /\ Len(tariffs) \in Nat /\ Len(tariffs') = Len(tariffs) + 1
      /\ \A k \in 1..Len(tariffs) : tariffs'[k] = tariffs[k]
  BY <1>1 DEF BillingInv, BillingTypeOK
<1>3. ASSUME NEW s \in Slots, breqs[s].since \in 1..Len(tariffs),
             InForceSince(breqs[s].price, breqs[s].since)
      PROVE  InForceSince(breqs[s].price, breqs[s].since)'
  <2>1. PICK k \in breqs[s].since..Len(tariffs) :
          \E q \in InForce(tariffs[k]) : breqs[s].price = Charged(q)
    BY <1>3 DEF InForceSince
  <2>2. k \in breqs'[s].since..Len(tariffs') /\ tariffs'[k] = tariffs[k]
    BY <1>1, <1>2, <1>3
  <2> QED BY <2>1, <2>2, <1>1 DEF InForceSince, InForce, ActiveIn, Charged
<1>4. RequestsPriced'
  <2> SUFFICES ASSUME NEW s \in Slots
               PROVE  RequestFine(breqs[s])'
    BY DEF RequestsPriced
  <2>1. breqs'[s] = breqs[s] /\ RequestFine(breqs[s])
    BY <1>1 DEF BillingInv, RequestsPriced
  <2>2. breqs[s].pc = "priced"
        => /\ breqs[s].price > 0
           /\ \/ InForceSince(breqs[s].price, breqs[s].since)'
              \/ breqs[s].missed /\ breqs[s].price = DefaultPrice
    <3> SUFFICES ASSUME breqs[s].pc = "priced",
                        InForceSince(breqs[s].price, breqs[s].since)
                 PROVE  InForceSince(breqs[s].price, breqs[s].since)'
      BY <2>1 DEF RequestFine, WellPriced
    <3>1. breqs[s].since \in 1..Len(tariffs)
      BY <2>1 DEF RequestFine
    <3> QED BY <3>1, <1>3
  <2>3. breqs[s].pc \in {"recv", "priced"}
        => breqs[s].sid # 0 /\ breqs[s].since \in 1..Len(tariffs')
    BY <2>1, <1>2 DEF RequestFine
  <2> QED BY <2>1, <2>2, <2>3 DEF RequestFine, WellPriced
<1>5. BillsPriced' /\ BillingTypeOK'
  <2>1. tariffs' # << >>
    BY <1>2
  <2> QED BY <1>1, <1>2, <2>1 DEF BillingInv, BillsPriced, BillingTypeOK
<1> QED BY <1>4, <1>5 DEF BillingInv

(* Every step of the service keeps the invariant. *)
LEMMA BillingStepInv ==
  ASSUME BillingInv, BillingAction
  PROVE  BillingInv'
<1>1. /\ \A s \in Slots : breqs[s] \in BReq
      /\ FreeBReq \in BReq /\ FreeBReq.pc = "free"
  BY DEF BillingInv, BillingTypeOK, BReq, FreeBReq
<1>2. ASSUME NEW s \in Slots, NEW sid \in Nat, NEW e \in Nat,
             BillReceive(s, sid, e)
      PROVE  BillingInv'
  <2> DEFINE r2 == [pc |-> IF sid = 0 THEN "err" ELSE "recv", open |-> TRUE,
                    sid |-> sid, energy |-> e, price |-> 0,
                    since |-> Len(tariffs), missed |-> FALSE]
  <2>1. /\ Len(tariffs) \in Nat /\ Len(tariffs) \in 1..Len(tariffs)
    BY DEF BillingInv, BillingTypeOK
  <2>3. r2 \in BReq /\ RequestFine(r2)
    BY <2>1 DEF BReq, RequestFine
  <2>2. breqs' = [breqs EXCEPT ![s] = r2] /\ UNCHANGED <<bills, tariffs>>
    BY <1>2 DEF BillReceive
  <2> HIDE DEF r2
  <2> QED BY <2>3, <2>2, OneBillRequestChanges
<1>3. ASSUME NEW s \in Slots, BillStep(s)
      PROVE  BillingInv'
  <2>1. CASE CalculateFails(s)
    <3>1. /\ breqs' = [breqs EXCEPT ![s] = Finish(breqs[s], "err", FreeBReq)]
          /\ UNCHANGED <<bills, tariffs>>
      BY <2>1, <1>1 DEF CalculateFails
    <3>2. /\ Finish(breqs[s], "err", FreeBReq) \in BReq
          /\ Finish(breqs[s], "err", FreeBReq).pc \in {"ok", "err", "free"}
      BY <1>1, BillRequestEnds
    <3> QED BY <3>1, <3>2, OneBillRequestChanges, FineRequests
  <2> QED BY <1>3, <2>1, ActiveTariffInv, CreateTransactionInv DEF BillStep
<1>4. ASSUME NEW s \in Slots, BillReply(s)
      PROVE  BillingInv'
  BY <1>4, <1>1, OneBillRequestChanges, FineRequests DEF BillReply
<1>5. ASSUME NEW s \in Slots, BillTimeout(s)
      PROVE  BillingInv'
  <2> DEFINE r2 == Abandon(breqs[s], FreeBReq)
  <2>1. /\ r2 \in BReq
        /\ r2.pc = "free" \/ SameWork(breqs[s], r2)
    BY <1>1, BillRequestEnds
  <2>2. breqs' = [breqs EXCEPT ![s] = r2] /\ UNCHANGED <<bills, tariffs>>
    BY <1>5 DEF BillTimeout
  <2> HIDE DEF r2
  <2>3. RequestFine(r2)
    BY <2>1, FineRequests DEF BillingInv, RequestsPriced
  <2> QED BY <2>1, <2>2, <2>3, OneBillRequestChanges
<1>6. CASE BillCrash \/ BillCallersGone
  <2>1. /\ \A s \in Slots :
             /\ breqs'[s] \in BReq
             /\ \/ breqs'[s].pc \in {"free", "err"}
                \/ SameWork(breqs[s], breqs'[s])
        /\ breqs' \in [Slots -> BReq]
        /\ UNCHANGED <<bills, tariffs>>
    BY <1>6, <1>1, BillRequestEnds DEF BillCrash, BillCallersGone
  <2>2. \A s \in Slots : RequestFine(breqs'[s])
    BY <2>1, FineRequests DEF BillingInv, RequestsPriced
  <2> QED BY <2>1, <2>2 DEF BillingInv, BillingTypeOK, RequestsPriced,
             RequestFine, WellPriced, InForceSince, BillsPriced
<1> QED BY <1>2, <1>3, <1>4, <1>5, <1>6, TariffStepInv DEF BillingAction

(* So does every step of its specification. *)
LEMMA BillingNextInv ==
  ASSUME BillingInv, [BillingNext]_billingVars
  PROVE  BillingInv'
<1>1. CASE BillingNext
  <2>1. \A m \in Meters : m \in Int
    BY DeploymentAssumption
  <2>2. Energies \subseteq Nat /\ 0..MaxStarts \subseteq Nat
    <3>1. Energies \subseteq Nat
      BY <2>1 DEF Energies
    <3>2. 0..MaxStarts \subseteq Nat
      BY DeploymentAssumption
    <3> QED BY <3>1, <3>2
  <2>3. ASSUME NEW s \in Slots, BillArrive(s)
        PROVE  BillingAction
    BY <2>2, <2>3 DEF BillArrive, BillingAction
  <2>4. BillingAction
    BY <1>1, <2>3, Zenon DEF BillingNext, BillingAction
  <2> QED BY <2>4, BillingStepInv
<1>2. CASE UNCHANGED billingVars
  BY <1>2 DEF billingVars, BillingInv, BillingTypeOK, RequestsPriced,
     RequestFine, WellPriced, InForceSince, BillsPriced
<1> QED BY <1>1, <1>2

-----------------------------------------------------------------------------

(* billing-service's variables always have their types, and no transaction
   is about session 0. *)
THEOREM BillingTyped == BillingSpec => []BillingTypeOK
<1>1. BillingInv => BillingTypeOK
  BY DEF BillingInv
<1> QED BY <1>1, BillingInitInv, BillingNextInv, PTL DEF BillingSpec

(* Of the steps of the service only CreateTransaction adds a row, and it ends
   no request but its own. *)
LEMMA OnlyCreateBills ==
  ASSUME BillingInv, BillingNext, Len(bills') > Len(bills)
  PROVE  \E s \in Slots, b \in BOOLEAN : CreateTransaction(s, b)
<1>1. bills' # bills
  BY DEF BillingInv, BillingTypeOK
<1>2. ASSUME NEW s \in Slots, BillArrive(s) \/ BillReply(s) \/ BillTimeout(s)
      PROVE  FALSE
  BY <1>1, <1>2 DEF BillArrive, BillReceive, BillReply, BillTimeout
<1>3. ASSUME NEW s \in Slots, BillStep(s)
      PROVE  \E b \in BOOLEAN : CreateTransaction(s, b)
  BY <1>1, <1>3 DEF BillStep, ActiveTariff, CalculateFails
<1>4. CASE TariffStep
  BY <1>1, <1>4, TariffHistory
<1>5. CASE BillCrash \/ BillCallersGone
  BY <1>1, <1>5 DEF BillCrash, BillCallersGone
<1> QED BY <1>2, <1>3, <1>4, <1>5 DEF BillingNext

(* The step part of PriceWasInForce follows from the invariant. *)
LEMMA RowWasInForce ==
  ASSUME BillingInv, BillingNext, NEW s \in Slots,
         Len(bills') > Len(bills), breqs'[s] # breqs[s]
  PROVE  LET price == bills'[Len(bills')].price
         IN  \/ InForceSince(price, breqs[s].since)
             \/ breqs[s].missed /\ price = DefaultPrice
<1>1. PICK z \in Slots, b \in BOOLEAN : CreateTransaction(z, b)
  BY OnlyCreateBills
<1>2. z = s
  BY <1>1 DEF CreateTransaction, BillingInv, BillingTypeOK
<1>3. RequestFine(breqs[s]) /\ breqs[s].pc = "priced"
  BY <1>1, <1>2 DEF CreateTransaction, BillingInv, RequestsPriced
<1> DEFINE row == [sid |-> breqs[s].sid, energy |-> breqs[s].energy,
                   price |-> breqs[s].price,
                   amount |-> breqs[s].energy * breqs[s].price]
<1>4. bills' = Append(bills, row) /\ row.price = breqs[s].price
  BY <1>1, <1>2 DEF CreateTransaction
<1> HIDE DEF row
<1>5. bills'[Len(bills')] = row
  BY <1>4 DEF BillingInv, BillingTypeOK
<1> QED BY <1>3, <1>4, <1>5 DEF RequestFine, WellPriced

(* Whatever the tariffs are and become, energy is charged a positive
   amount. *)
THEOREM BillingAmountsRight == BillingSpec => []EnergyCostsMoney
<1>1. BillingInv => EnergyCostsMoney
  <2> SUFFICES ASSUME BillingInv, NEW i \in DOMAIN bills
               PROVE  bills[i].energy > 0 => bills[i].amount > 0
    BY DEF EnergyCostsMoney
  <2>1. bills[i] \in Bill
    BY DEF BillingInv, BillingTypeOK
  <2>2. /\ bills[i].price > 0
        /\ bills[i].amount = bills[i].energy * bills[i].price
    BY DEF BillingInv, BillsPriced
  <2>3. \A e \in Nat, p \in Int : e > 0 /\ p > 0 => e * p > 0
    BY SMT
  <2> QED BY <2>1, <2>2, <2>3 DEF Bill
<1> QED BY <1>1, BillingInitInv, BillingNextInv, PTL DEF BillingSpec

(* Every row is inserted at a price that was in force between the arrival of
   its request and the insert, or at the default after a failed lookup, for
   any history of the tariffs table. *)
THEOREM BillingPricesRight == BillingSpec => PriceWasInForce
<1> DEFINE Right ==
      \A s \in Slots :
         Len(bills') > Len(bills) /\ breqs'[s] # breqs[s]
         => LET price == bills'[Len(bills')].price
            IN  \/ InForceSince(price, breqs[s].since)
                \/ breqs[s].missed /\ price = DefaultPrice
<1>1. BillingInv /\ [BillingNext]_billingVars => [Right]_billingVars
  BY RowWasInForce
<1> HIDE DEF Right
<1>2. BillingSpec => [][Right]_billingVars
  BY <1>1, BillingInitInv, BillingNextInv, PTL DEF BillingSpec
<1> QED BY <1>2 DEF PriceWasInForce, Right

=============================================================================
