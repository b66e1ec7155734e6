-------------------------- MODULE BillingService --------------------------
(***************************************************************************)
(* billing-service: the session-stopped callback prices a session with the *)
(* tariff in force and inserts a row into billing_transactions.  Reading   *)
(* the tariff and inserting the row are two statements, so a tariff may    *)
(* change between them and both may fail.  There is no unique or foreign   *)
(* key on session_id: the table accepts whatever it is told.               *)
(*                                                                         *)
(* Energy is in Wh and prices are integers per Wh, so amounts are exact.   *)
(***************************************************************************)
EXTENDS Deployment, Sequences, FiniteSets, HttpCall

Seqs == INSTANCE SequencesExt

CONSTANTS
    DefaultPrice,   \* the configured fallback tariff
    Prices,         \* prices an operator writes into the tariffs table
    MaxTariffChanges    \* bound: statements of an operator on that table

ASSUME BillingAssumption ==
    DefaultPrice \in Int /\ Prices \subseteq Int /\ MaxTariffChanges \in Nat

VARIABLES
    bills,      \* billing_transactions in insertion order
    tariffs,    \* the tariffs table after each change of it, the last one now
    breqs       \* the requests being handled, by slot

billingVars == <<bills, tariffs, breqs>>

Bill == [sid : Nat, energy : Nat, price : Int, amount : Int]

Tariff == [price : Int, active : BOOLEAN]

(* since and missed are of no use to the code: where tariffs stood when the
   request came, and whether its lookup failed with a tariff in force. *)
BReq == [pc : {"free", "recv", "priced", "ok", "err"}, open : BOOLEAN,
         sid : Nat, energy : Nat, price : Int, since : Nat, missed : BOOLEAN]

FreeBReq == [pc |-> "free", open |-> FALSE, sid |-> 0, energy |-> 0,
             price |-> 0, since |-> 0, missed |-> FALSE]

BillingInit ==
    /\ bills = << >>
    /\ tariffs = << << >> >>
    /\ breqs = [s \in Slots |-> FreeBReq]

-----------------------------------------------------------------------------

(* OCPPStopHandler.ServeHTTP: session id 0 is answered with 400. *)
BillReceive(s, sid, energy) ==
    /\ breqs[s].pc = "free"
    /\ breqs' = [breqs EXCEPT ![s] =
         [pc |-> IF sid = 0 THEN "err" ELSE "recv", open |-> TRUE,
          sid |-> sid, energy |-> energy, price |-> 0,
          since |-> Len(tariffs), missed |-> FALSE]]
    /\ UNCHANGED <<bills, tariffs>>

(* The tariffs table: its rows in the order of updated_at. *)
Rows == tariffs[Len(tariffs)]

ActiveIn(t) == {i \in DOMAIN t : t[i].active}

(* Mutant: the lookup forgets is_active and takes the newest row. *)
GetNewest(p) == Rows # << >> /\ p = Rows[Len(Rows)].price

(* TariffRepository.GetActive reads p: the most recently updated row among
   the active ones. *)
GetActive(p) ==
    \E i \in ActiveIn(Rows) :
      p = Rows[i].price /\ \A j \in ActiveIn(Rows) : j <= i

(* Mutant: a tariff is used whatever its price is. *)
ChargedAsRead(p) == p

(* A price that is not positive is replaced by 1. *)
Charged(p) == IF p <= 0 THEN 1 ELSE p

(* Mutant: without an active tariff the callback waits for one. *)
ActiveTariffWaits(s, p, missed) ==
    /\ breqs[s].pc = "recv" /\ GetActive(p) /\ ~missed
    /\ breqs' = [breqs EXCEPT ![s].pc = "priced", ![s].price = Charged(p)]
    /\ UNCHANGED <<bills, tariffs>>

(* TariffService.ActiveTariff: the active tariff, or the configured default
   when there is none and when the lookup fails, so that an active one is
   missed. *)
ActiveTariff(s, p, missed) ==
    /\ breqs[s].pc = "recv"
    /\ \/ ~missed /\ GetActive(p)
       \/ /\ IF missed THEN "db" \in Faults /\ ActiveIn(Rows) # {}
                       ELSE ActiveIn(Rows) = {}
          /\ DefaultPrice > 0 /\ p = DefaultPrice
    /\ breqs' = [breqs EXCEPT ![s].pc = "priced", ![s].price = Charged(p),
                              ![s].missed = missed]
    /\ UNCHANGED <<bills, tariffs>>

(* Mutant: the session id of the request is lost on the way to the row. *)
CreateTransactionNoSession(s, acked) ==
    /\ breqs[s].pc = "priced"
    /\ bills' = Append(bills, [sid |-> 0, energy |-> breqs[s].energy,
                               price |-> breqs[s].price, amount |-> 0])
    /\ breqs' = [breqs EXCEPT ![s] = Finish(@, "ok", FreeBReq)]
    /\ UNCHANGED tariffs

(* TransactionRepository.Create.  The row may be inserted although the
   result of the statement is lost (acked = FALSE). *)
CreateTransaction(s, acked) ==
    LET r == breqs[s]
    IN  /\ r.pc = "priced"
        /\ acked \/ "db" \in Faults
        /\ bills' = Append(bills, [sid |-> r.sid, energy |-> r.energy,
                                   price |-> r.price,
                                   amount |-> r.energy * r.price])
        /\ breqs' = [breqs EXCEPT ![s] =
                       Finish(r, IF acked THEN "ok" ELSE "err", FreeBReq)]
        /\ UNCHANGED tariffs

(* The request is answered with 500 and nothing is written: the lookup fails
   and there is no usable default, the database is unreachable, or the request
   context was cancelled when the caller went away.  A context that is
   cancelled before the tariff is read may still find the default tariff, and
   then fails at the insert. *)
CalculateFails(s) ==
    /\ \/ /\ breqs[s].pc = "recv" /\ DefaultPrice <= 0
          /\ ActiveIn(Rows) = {} \/ "db" \in Faults
       \/ breqs[s].pc = "priced" /\ "db" \in Faults
       \/ breqs[s].pc \in {"recv", "priced"} /\ ~breqs[s].open
    /\ breqs' = [breqs EXCEPT ![s] = Finish(@, "err", FreeBReq)]
    /\ UNCHANGED <<bills, tariffs>>

(* The process dies and is started again. *)
BillCrash ==
    /\ "crash" \in Faults
    /\ breqs' = [s \in Slots |-> Broken(breqs[s], FreeBReq)]
    /\ UNCHANGED <<bills, tariffs>>

(* An operator changes the table, which no code of the repository does: a row
   is added, or row i gets another price, is taken out of force or put back;
   the statement may set updated_at, and makes row i the latest, or not. *)
TariffAdded(row) ==
    /\ Len(tariffs) <= MaxTariffChanges
    /\ tariffs' = Append(tariffs, Append(Rows, row))
    /\ UNCHANGED <<bills, breqs>>

TariffUpdated(i, row, touched) ==
    /\ Len(tariffs) <= MaxTariffChanges
    /\ tariffs' = Append(tariffs,
                    IF touched THEN Append(Seqs!RemoveAt(Rows, i), row)
                               ELSE [Rows EXCEPT ![i] = row])
    /\ UNCHANGED <<bills, breqs>>

(* The prices a lookup may produce. *)
AllPrices == Prices \cup {DefaultPrice}

BillStep(s) ==
    \/ \E p \in AllPrices, m \in BOOLEAN : ActiveTariff(s, p, m)
    \/ \E b \in BOOLEAN : CreateTransaction(s, b)
    \/ CalculateFails(s)

(* The caller reads the answer. *)
BillReply(s) ==
    /\ breqs[s].open /\ Answered(breqs[s])
    /\ breqs' = [breqs EXCEPT ![s] = FreeBReq]
    /\ UNCHANGED <<bills, tariffs>>

(* The caller's five seconds are over. *)
BillTimeout(s) ==
    /\ "timeout" \in Faults
    /\ breqs[s].open
    /\ breqs' = [breqs EXCEPT ![s] = Abandon(@, FreeBReq)]
    /\ UNCHANGED <<bills, tariffs>>

(* The caller's process dies. *)
BillCallersGone ==
    /\ "restart" \in Faults
    /\ breqs' = [s \in Slots |-> Abandon(breqs[s], FreeBReq)]
    /\ UNCHANGED <<bills, tariffs>>

TariffStep ==
    \E p \in Prices, a \in BOOLEAN :
      LET row == [price |-> p, active |-> a]
      IN  \/ TariffAdded(row)
          \/ \E i \in DOMAIN Rows, touched \in BOOLEAN :
               TariffUpdated(i, row, touched)

-----------------------------------------------------------------------------
(* The service alone. *)

PendingBills == {s \in Slots : breqs[s].pc \in {"recv", "priced"}}

BillArrive(s) ==
    \E sid \in 0..MaxStarts, e \in Energies :
      /\ sid = 0 \/ Len(bills) + Cardinality(PendingBills) < MaxStarts
      /\ BillReceive(s, sid, e)

BillingNext ==
    \/ \E s \in Slots : \/ BillArrive(s) \/ BillStep(s)
                        \/ BillReply(s) \/ BillTimeout(s)
    \/ TariffStep
    \/ BillCrash
    \/ BillCallersGone

BillingSpec == BillingInit /\ [][BillingNext]_billingVars

BillingFairness ==
    \A s \in Slots : WF_billingVars(BillStep(s)) /\ WF_billingVars(BillReply(s))

BillingFairSpec == BillingSpec /\ BillingFairness

-----------------------------------------------------------------------------
(* Properties. *)

(* Every variable has its type, and no row is about session 0. *)
BillingTypeOK ==
    /\ bills \in Seq(Bill)
    /\ \A i \in DOMAIN bills : bills[i].sid # 0
    /\ tariffs \in Seq(Seq(Tariff)) /\ tariffs # << >>
    /\ breqs \in [Slots -> BReq]

(* Energy is never given away or paid out: whatever prices an operator wrote
   (zero and negative ones too), however lookups fail and tariffs change
   under the callback, a transaction over some energy has a positive
   amount. *)
EnergyCostsMoney == \A i \in DOMAIN bills : bills[i].energy > 0 => bills[i].amount > 0

(* The prices a lookup that succeeds finds in table t. *)
InForce(t) ==
    IF ActiveIn(t) = {} THEN {p \in {DefaultPrice} : p > 0}
    ELSE {t[i].price : i \in {k \in ActiveIn(t) : \A j \in ActiveIn(t) : j <= k}}

(* Price p was the one to charge at some moment since the n-th change. *)
InForceSince(p, n) ==
    \E k \in n..Len(tariffs) : \E q \in InForce(tariffs[k]) : p = Charged(q)

(* A session is charged what was in force at some moment between the arrival
   of its request and the insert of its row, although the row may be priced
   long before it is inserted and the table changes meanwhile: the price of
   the latest active tariff, and the default only if there was a moment
   without an active tariff or the lookup itself failed.  A tariff that was
   only prepared, was replaced before the request came, or is shadowed by a
   later one is never charged. *)
PriceWasInForce ==
    [][\A s \in Slots :
         Len(bills') > Len(bills) /\ breqs'[s] # breqs[s]
         => LET price == bills'[Len(bills')].price
            IN  \/ InForceSince(price, breqs[s].since)
                \/ breqs[s].missed /\ price = DefaultPrice]_billingVars

(* docs/server-operations.md: without a row in tariffs the billing stays
   empty. *)
NoTariffNoBill == (\A k \in DOMAIN tariffs : tariffs[k] = << >>) => bills = << >>

(* Every session-stopped request is answered or dropped. *)
BillRequestsEnd == \A s \in Slots : breqs[s].pc # "free" ~> breqs[s].pc = "free"

=============================================================================
