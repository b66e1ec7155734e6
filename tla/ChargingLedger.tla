-------------------------- MODULE ChargingLedger --------------------------
(***************************************************************************)
(* What the backend as a whole promises about its records, without saying  *)
(* how: a ledger of charging sessions and of billing transactions.         *)
(*                                                                         *)
(*  - a session gets an id that no other session has and keeps it;         *)
(*  - it is opened, closed and may be opened again, but never disappears;  *)
(*  - transactions are only added, and only for sessions that exist.       *)
(*                                                                         *)
(* The ledger does not promise that a transaction is for a closed session, *)
(* nor that there is only one: the services do not guarantee either.       *)
(***************************************************************************)
EXTENDS Integers, Sequences

CONSTANT Tx

VARIABLES
    ledger,     \* transaction id -> [id, status]; id 0: no session
    billed      \* the session ids of the transactions, in order

Session == [id : Nat, status : {"active", "completed"}]

LedgerInit ==
    /\ ledger = [tx \in Tx |-> [id |-> 0, status |-> "active"]]
    /\ billed = << >>

Ids == {ledger[tx].id : tx \in Tx} \ {0}

Open(tx, id) ==
    /\ IF ledger[tx].id = 0 THEN id \in Nat \ (Ids \cup {0})
                            ELSE id = ledger[tx].id
    /\ ledger' = [ledger EXCEPT ![tx] = [id |-> id, status |-> "active"]]
    /\ UNCHANGED billed

Close(tx) ==
    /\ ledger[tx].id # 0
    /\ ledger' = [ledger EXCEPT ![tx].status = "completed"]
    /\ UNCHANGED billed

Charge(tx) ==
    /\ ledger[tx].id # 0
    /\ billed' = Append(billed, ledger[tx].id)
    /\ UNCHANGED ledger

LedgerNext ==
    \E tx \in Tx : Open(tx, ledger'[tx].id) \/ Close(tx) \/ Charge(tx)

LedgerSpec == LedgerInit /\ [][LedgerNext]_<<ledger, billed>>

=============================================================================
