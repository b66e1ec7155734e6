---------------------------- MODULE HttpCall ----------------------------
(***************************************************************************)
(* The life of one internal HTTP call between ocpp-server or api-gateway   *)
(* and a service, seen from the service: a request record with the fields  *)
(* pc and open.                                                            *)
(*                                                                         *)
(*   pc    "free"  the slot holds no request                               *)
(*         "recv"  decoded and validated, nothing done yet                 *)
(*         ...     states of the service's own                             *)
(*         "ok"    finished, a 2xx answer is on its way                    *)
(*         "err"   finished, a 4xx/5xx answer or a broken connection       *)
(*   open  the caller still waits for the answer                           *)
(*                                                                         *)
(* The callers are the clients of ocpp-server, which give up after five    *)
(* seconds, and those of api-gateway, whose limit is a setting and which   *)
(* give up as well when their own caller goes away.  Giving up closes the  *)
(* connection, but the service's handler runs on: its statements may still *)
(* take effect, or fail because the request context is cancelled.  No      *)
(* client retries.                                                         *)
(***************************************************************************)

(* The request r has an answer. *)
Answered(r) == r.pc \in {"ok", "err"}

(* The handler of r ends with the given outcome; nobody reads the answer
   of a request whose caller is gone, so its slot is free at once. *)
Finish(r, outcome, free) ==
    IF r.open THEN [r EXCEPT !.pc = outcome] ELSE free

(* The caller of r gives up, or dies.  An answer under way is lost. *)
Abandon(r, free) ==
    IF Answered(r) THEN free ELSE [r EXCEPT !.open = FALSE]

(* The service's process dies: its handlers stop where they are and the
   waiting callers see a broken connection. *)
Broken(r, free) ==
    IF r.open THEN [r EXCEPT !.pc = "err"] ELSE free

=============================================================================
