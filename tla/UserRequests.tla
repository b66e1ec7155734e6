-------------------------- MODULE UserRequests --------------------------
(***************************************************************************)
(* What the services behind the API gateway have in common on the users'   *)
(* side: the calls they get, the faults they are exposed to, and bounds.   *)
(***************************************************************************)
EXTENDS Integers, HttpCall

CONSTANTS
    None,       \* the empty string
    Slots,      \* bound: requests in flight to a service
    Faults      \* the faults that happen, see below

(* "db"     an SQL statement fails, with or without having taken effect
   "crash"  the process of a called service dies and is started again *)
AllUserFaults == {"db", "crash"}

ASSUME RequestsAssumption == None \notin Slots /\ Faults \subseteq AllUserFaults

=============================================================================
