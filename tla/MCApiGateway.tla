-------------------------- MODULE MCApiGateway --------------------------
(***************************************************************************)
(* The instances of ApiGateway that TLC checks: one address, typed in two  *)
(* ways, and two passwords.                                                *)
(***************************************************************************)
EXTENDS ApiGateway, TLC

CONSTANTS c1, c2, r1, r2, ann, w1, w2, w3

MCClients == {c1, c2}
MCSlots == {r1, r2}
MCNames == {ann}
MCWords == {w1, w2, w3}
Plain == [text |-> ann, pad |-> FALSE, upper |-> FALSE]
Other == [text |-> ann, pad |-> TRUE, upper |-> TRUE]
MCTyped == {[email |-> Plain, password |-> [text |-> w1, pad |-> FALSE]],
            [email |-> Other, password |-> [text |-> w2, pad |-> TRUE]]}
First == {[email |-> Plain, password |-> [text |-> w1, pad |-> FALSE]]}
Overlong == {[email |-> Plain, password |-> [text |-> w3, pad |-> FALSE]]}

(* Two clients race for the address; one client signs up, logs in and reads
   its histories while they are written and services fail; one client tries
   a password that bcrypt refuses, and none at all. *)
MCLoads ==
    {[clients |-> MCClients, routes |-> {"signup", "login"},
      typed |-> MCTyped, ids |-> 2, writes |-> 0, outages |-> FALSE],
     [clients |-> {c1}, routes |-> AllRoutes, typed |-> First,
      ids |-> 1, writes |-> 2, outages |-> TRUE],
     [clients |-> {c1}, routes |-> {"signup", "login"},
      typed |-> First \cup Overlong \cup {Nothing}, ids |-> 1, writes |-> 0,
      outages |-> FALSE]}

(* One client that reads its sessions after a station charged. *)
ReadingLoad ==
    {[clients |-> {c1}, routes |-> AllRoutes, typed |-> First, ids |-> 1,
      writes |-> 3, outages |-> FALSE]}

=============================================================================
