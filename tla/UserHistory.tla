--------------------------- MODULE UserHistory ---------------------------
(***************************************************************************)
(* What users read of sessions-service and billing-service: their charging *)
(* sessions and their bills.  The writes of both services appear here as   *)
(* the statements that take effect (SessionsService and BillingService     *)
(* model how they come about); a read is a request of its own, between     *)
(* whose arrival and whose query the tables change.                        *)
(*                                                                         *)
(* Data kept of a row: its key, its user, the time it is sorted by, the    *)
(* time of its last write and, for a session, whether it is active and     *)
(* whether end_time is set.                                                *)
(***************************************************************************)
EXTENDS UserRequests, FiniteSets, FiniteSetsExt

CONSTANTS
    Senders,    \* user ids in the calls that write
    Limit       \* rows of an answer; the handlers ask for 50

ASSUME HistoryAssumption ==
    /\ Senders \subseteq Nat
    /\ Limit \in Nat \ {0}

VARIABLES
    charged,    \* charging_sessions, a set of rows
    billed,     \* billing_transactions, a set of rows
    clock,      \* NOW(), moved by every write
    hreqs       \* the reads being handled, by slot

historyVars == <<charged, billed, clock, hreqs>>

HRow == [id : Nat, user : Nat, at : Nat, rev : Nat, active : BOOLEAN,
         ended : BOOLEAN]

HReq == [pc : {"free", "recv", "ok", "err"}, open : BOOLEAN,
         kind : {"sessions", "billing"}, user : Nat,
         rows : SUBSET HRow, status : Nat]

FreeHReq == [pc |-> "free", open |-> FALSE, kind |-> "sessions", user |-> 0,
             rows |-> {}, status |-> 0]

HistoryInit ==
    /\ charged = {}
    /\ billed = {}
    /\ clock = 0
    /\ hreqs = [s \in Slots |-> FreeHReq]

-----------------------------------------------------------------------------
(* What the OCPP callbacks write. *)

Tick == clock' = clock + 1

(* A session-start takes effect; without a start_time it is started now,
   otherwise at the time the caller says.  A transaction that has a row
   already keeps its key and its end_time and takes everything else from the
   call, its user too. *)
SessionStarted(user, at) ==
    /\ Tick
    /\ \/ charged' = charged \cup
            {[id |-> Cardinality(charged) + 1, user |-> user, at |-> at,
              rev |-> clock', active |-> TRUE, ended |-> FALSE]}
       \/ \E r \in charged :
            charged' = (charged \ {r}) \cup
              {[r EXCEPT !.user = user, !.at = at, !.rev = clock',
                         !.active = TRUE]}
    /\ UNCHANGED <<billed, hreqs>>

(* A session-stop takes effect. *)
SessionStopped ==
    /\ Tick
    /\ \E r \in charged :
         charged' = (charged \ {r}) \cup
           {[r EXCEPT !.rev = clock', !.active = FALSE, !.ended = TRUE]}
    /\ UNCHANGED <<billed, hreqs>>

(* A bill is written.  created_at is the time of the INSERT. *)
SessionBilled(user) ==
    /\ Tick
    /\ billed' = billed \cup
         {[id |-> Cardinality(billed) + 1, user |-> user, at |-> clock',
           rev |-> clock', active |-> FALSE, ended |-> TRUE]}
    /\ UNCHANGED <<charged, hreqs>>

-----------------------------------------------------------------------------
(* The reads. *)

(* ORDER BY ... DESC LIMIT: answer is what such a query may select of rows. *)
Newest(rows, answer) ==
    /\ answer \subseteq rows
    /\ Cardinality(answer) = Min({Limit, Cardinality(rows)})
    /\ \A r \in answer, q \in rows \ answer : r.at >= q.at

(* NewSessionsMeHandler and NewTransactionsMeHandler before the query: they
   take the user from X-User-ID, which their only caller always sends as a
   number. *)
HistReceive(s, kind, user) ==
    /\ hreqs[s].pc = "free"
    /\ hreqs' = [hreqs EXCEPT ![s] =
         [pc |-> "recv", open |-> TRUE, kind |-> kind, user |-> user,
          rows |-> {}, status |-> 0]]
    /\ UNCHANGED <<charged, billed, clock>>

(* The handler of slot s ends with an HTTP status and these rows. *)
HistAnswer(s, status, rows) ==
    hreqs' = [hreqs EXCEPT ![s] =
                Finish([@ EXCEPT !.status = status, !.rows = rows],
                       IF status = 200 THEN "ok" ELSE "err", FreeHReq)]

(* Mutant: a row that cannot be scanned is skipped. *)
ScanSkips(s, rows) == HistAnswer(s, 200, {r \in rows : r.ended})

(* The loop over the result: the first row without an end_time ends it with
   an error, because NULL is scanned into a plain time.Time. *)
ScanSessions(s, rows) ==
    IF \A r \in rows : r.ended THEN HistAnswer(s, 200, rows)
                               ELSE HistAnswer(s, 500, {})

(* GetSessionsByUser. *)
GetSessionsByUser(s) ==
    /\ hreqs[s].pc = "recv" /\ hreqs[s].kind = "sessions"
    /\ \E rows \in SUBSET charged :
         /\ Newest({r \in charged : r.user = hreqs[s].user}, rows)
         /\ ScanSessions(s, rows)
    /\ UNCHANGED <<charged, billed, clock>>

(* ListByUser: no column of a bill that is scanned can be NULL. *)
ListByUser(s) ==
    /\ hreqs[s].pc = "recv" /\ hreqs[s].kind = "billing"
    /\ \E rows \in SUBSET billed :
         /\ Newest({r \in billed : r.user = hreqs[s].user}, rows)
         /\ HistAnswer(s, 200, rows)
    /\ UNCHANGED <<charged, billed, clock>>

(* The query fails, or its context was cancelled: 500. *)
HistDbError(s) ==
    /\ hreqs[s].pc = "recv"
    /\ "db" \in Faults \/ ~hreqs[s].open
    /\ HistAnswer(s, 500, {})
    /\ UNCHANGED <<charged, billed, clock>>

(* One of the two services dies and is started again. *)
HistCrash ==
    /\ "crash" \in Faults
    /\ \E kind \in {"sessions", "billing"} :
         hreqs' = [s \in Slots |->
                     IF hreqs[s].kind = kind
                     THEN Broken([hreqs[s] EXCEPT !.status = 0], FreeHReq)
                     ELSE hreqs[s]]
    /\ UNCHANGED <<charged, billed, clock>>

HistStep(s) ==
    \/ GetSessionsByUser(s)
    \/ ListByUser(s)
    \/ HistDbError(s)

(* The caller reads the answer, or goes away. *)
HistReply(s) ==
    /\ hreqs[s].open /\ Answered(hreqs[s])
    /\ hreqs' = [hreqs EXCEPT ![s] = FreeHReq]
    /\ UNCHANGED <<charged, billed, clock>>

HistAbandon(s) ==
    /\ hreqs[s].open
    /\ hreqs' = [hreqs EXCEPT ![s] = Abandon(@, FreeHReq)]
    /\ UNCHANGED <<charged, billed, clock>>

(* The table that a read of this kind is about. *)
Table(kind) == IF kind = "billing" THEN billed ELSE charged

-----------------------------------------------------------------------------
(* Properties of the tables. *)

(* Every variable has its type; no row is from the future. *)
HistoryTypeOK ==
    /\ charged \subseteq HRow /\ billed \subseteq HRow
    /\ clock \in Nat
    /\ \A r \in charged \cup billed : r.rev \in 1 .. clock /\ r.at <= clock
    /\ hreqs \in [Slots -> HReq]

=============================================================================
