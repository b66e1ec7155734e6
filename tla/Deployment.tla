--------------------------- MODULE Deployment ---------------------------
(***************************************************************************)
(* What the services of a deployment have in common: the identifiers they  *)
(* exchange, the faults they are exposed to, and the bounds of an instance.*)
(***************************************************************************)
EXTENDS Integers

CONSTANTS
    Tx,         \* transaction ids
    Stations,   \* station ids
    None,       \* the empty string
    Meters,     \* meter readings, in Wh
    Slots,      \* bound: requests in flight to a service
    Faults,     \* the faults that happen, see below
    MaxStarts   \* bound: sessions that are started

(* "db"       an SQL statement fails, with or without having taken effect
   "redis"    a Redis command fails
   "crash"    the process of a called service dies and is started again
   "timeout"  a caller gives up on its call
   "down"     a call fails before it reaches the service
   "restart"  the process of ocpp-server dies and is started again *)
AllFaults == {"db", "redis", "crash", "timeout", "down", "restart"}

ASSUME DeploymentAssumption ==
    /\ None \notin Tx \cup Stations \cup Slots
    /\ Meters \subseteq Int
    /\ Faults \subseteq AllFaults
    /\ MaxStarts \in Nat

(* Energies in requests from outside. *)
Energies == {m \in Meters : m >= 0}

=============================================================================
