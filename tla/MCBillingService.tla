----------------------- MODULE MCBillingService -----------------------
(***************************************************************************)
(* The instances of BillingService that TLC checks: one request at a time  *)
(* and three changes of the tariffs, of a negative, a zero and a positive  *)
(* price, so that two active rows are reordered or repriced in place under *)
(* a request; and a table that stays empty.                                *)
(***************************************************************************)
EXTENDS BillingService, TLC

CONSTANT r1

MCSlots == {r1}
MCPrices == {-1, 0, 3}

=============================================================================
