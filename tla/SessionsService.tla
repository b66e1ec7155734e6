------------------------- MODULE SessionsService -------------------------
(***************************************************************************)
(* sessions-service: the two OCPP callbacks, the charging_sessions table   *)
(* they write and the Redis cache of active sessions they maintain.  One   *)
(* step is one statement against PostgreSQL or Redis, so the callbacks of  *)
(* concurrent requests interleave between them.                            *)
(*                                                                         *)
(* Data kept of a row: the primary key (0: there is no row), the status,   *)
(* whether end_time is set, and the energy in Wh.  Who charged, where and  *)
(* when is left out, except that station_id has to exist in the stations   *)
(* table (foreign key).                                                    *)
(***************************************************************************)
EXTENDS Deployment, FiniteSets, HttpCall

CONSTANT KnownStations  \* the rows of sessions-service's stations table

ASSUME SessionsAssumption == KnownStations \subseteq Stations

VARIABLES
    sessions,   \* charging_sessions, by its unique transaction_id
    nextId,     \* the sequence behind charging_sessions.id
    cache,      \* Redis sessions:active:<tx> -> session id, 0 when absent
    sreqs       \* the requests being handled, by slot

sessionsVars == <<sessions, nextId, cache, sreqs>>

Row == [id : Nat, status : {"active", "completed"}, ended : BOOLEAN,
        energy : Nat]

NoRow == [id |-> 0, status |-> "active", ended |-> FALSE, energy |-> 0]

SReq == [pc : {"free", "recv", "saved", "ok", "err"}, open : BOOLEAN,
         kind : {"start", "stop"}, tx : Tx \cup {None},
         station : Stations \cup {None}, energy : Nat, id : Nat]

FreeSReq == [pc |-> "free", open |-> FALSE, kind |-> "start", tx |-> None,
             station |-> None, energy |-> 0, id |-> 0]

(* There is a session for transaction tx. *)
Exists(tx) == sessions[tx].id # 0

SessionsInit ==
    /\ sessions = [tx \in Tx |-> NoRow]
    /\ nextId = 1
    /\ cache = [tx \in Tx |-> 0]
    /\ sreqs = [s \in Slots |-> FreeSReq]

-----------------------------------------------------------------------------
(* The callbacks. *)

(* HandleSessionStart and HandleSessionStop: an empty transaction id is
   answered with 400 before the service is called. *)
SessReceive(s, kind, tx, station, energy) ==
    /\ sreqs[s].pc = "free"
    /\ sreqs' = [sreqs EXCEPT ![s] =
         [pc |-> IF tx = None THEN "err" ELSE "recv", open |-> TRUE,
          kind |-> kind, tx |-> tx, station |-> station, energy |-> energy,
          id |-> 0]]
    /\ UNCHANGED <<sessions, nextId, cache>>

(* The effect of the INSERT ... ON CONFLICT statement when the row gets the
   key rowId, the caller is told answerId and the sequence moves to next. *)
Upsert(s, acked, rowId, answerId, next) ==
    LET r == sreqs[s]
    IN  /\ r.pc = "recv" /\ r.kind = "start"
        /\ r.station \in KnownStations
        /\ acked \/ "db" \in Faults
        /\ sessions' = [sessions EXCEPT
                          ![r.tx].id = rowId, ![r.tx].status = "active"]
        /\ nextId' = next
        /\ sreqs' = [sreqs EXCEPT ![s] =
                       IF acked THEN [r EXCEPT !.pc = "saved", !.id = answerId]
                                ELSE Finish(r, "err", FreeSReq)]
        /\ UNCHANGED cache

(* The key of the row that transaction tx has, or would be given. *)
KeyOf(tx) == IF tx \in Tx /\ Exists(tx) THEN sessions[tx].id ELSE nextId

(* Mutants of StartSession: the conflicting row takes the new key; the caller
   is told the key just drawn; the sequence does not move. *)
StartSessionRekeys(s, acked) == Upsert(s, acked, nextId, nextId, nextId + 1)
StartSessionCurrval(s, acked) ==
    Upsert(s, acked, KeyOf(sreqs[s].tx), nextId, nextId + 1)
StartSessionNoSequence(s, acked) ==
    Upsert(s, acked, KeyOf(sreqs[s].tx), KeyOf(sreqs[s].tx), nextId)

(* INSERT ... ON CONFLICT (transaction_id) DO UPDATE ... RETURNING id.  A
   conflicting row keeps its id, end_time and energy and becomes active
   again; a key is drawn from the sequence either way.  The statement may
   take effect although its result is lost (acked = FALSE). *)
StartSession(s, acked) ==
    Upsert(s, acked, KeyOf(sreqs[s].tx), KeyOf(sreqs[s].tx), nextId + 1)

(* The same statement for a station that the stations table does not have:
   the foreign key refuses it, after the sequence has moved. *)
StartSessionRefused(s) ==
    LET r == sreqs[s]
    IN  /\ r.pc = "recv" /\ r.kind = "start"
        /\ r.station \notin KnownStations
        /\ nextId' = nextId + 1
        /\ sreqs' = [sreqs EXCEPT ![s] = Finish(r, "err", FreeSReq)]
        /\ UNCHANGED <<sessions, cache>>

(* activeStore.Save: a failure is only logged. *)
Save(s, works) ==
    LET r == sreqs[s]
    IN  /\ r.pc = "saved" /\ r.kind = "start"
        /\ works \/ "redis" \in Faults
        /\ cache' = IF works THEN [cache EXCEPT ![r.tx] = r.id] ELSE cache
        /\ sreqs' = [sreqs EXCEPT ![s] = Finish(r, "ok", FreeSReq)]
        /\ UNCHANGED <<sessions, nextId>>

(* UPDATE ... WHERE transaction_id: whatever the row's status is. *)
CompleteSession(s, acked) ==
    LET r == sreqs[s]
    IN  /\ r.pc = "recv" /\ r.kind = "stop"
        /\ Exists(r.tx)
        /\ acked \/ "db" \in Faults
        /\ sessions' = [sessions EXCEPT ![r.tx] =
                          [id |-> @.id, status |-> "completed",
                           ended |-> TRUE, energy |-> r.energy]]
        /\ sreqs' = [sreqs EXCEPT ![s] =
                       IF acked THEN [r EXCEPT !.pc = "saved"]
                                ELSE Finish(r, "err", FreeSReq)]
        /\ UNCHANGED <<nextId, cache>>

(* No row affected: sql.ErrNoRows, answered with 500. *)
CompleteSessionNoRows(s) ==
    LET r == sreqs[s]
    IN  /\ r.pc = "recv" /\ r.kind = "stop"
        /\ ~Exists(r.tx)
        /\ sreqs' = [sreqs EXCEPT ![s] = Finish(r, "err", FreeSReq)]
        /\ UNCHANGED <<sessions, nextId, cache>>

(* Mutant: nothing is answered after the cache was written. *)
DeleteNoAnswer(s, works) ==
    /\ sreqs[s].pc = "saved" /\ sreqs[s].kind = "stop" /\ works
    /\ cache' = [cache EXCEPT ![sreqs[s].tx] = 0]
    /\ UNCHANGED <<sessions, nextId, sreqs>>

(* activeStore.Delete: a failure is only logged. *)
Delete(s, works) ==
    LET r == sreqs[s]
    IN  /\ r.pc = "saved" /\ r.kind = "stop"
        /\ works \/ "redis" \in Faults
        /\ cache' = IF works THEN [cache EXCEPT ![r.tx] = 0] ELSE cache
        /\ sreqs' = [sreqs EXCEPT ![s] = Finish(r, "ok", FreeSReq)]
        /\ UNCHANGED <<sessions, nextId>>

(* A statement fails without effect: the database is unreachable, or the
   request context was cancelled when the caller went away. *)
SessDbError(s) ==
    /\ sreqs[s].pc = "recv"
    /\ "db" \in Faults \/ ~sreqs[s].open
    /\ sreqs' = [sreqs EXCEPT ![s] = Finish(@, "err", FreeSReq)]
    /\ UNCHANGED <<sessions, nextId, cache>>

(* A cancelled request context also ends the cache write after a statement
   that succeeded. *)
SessCacheCancelled(s) ==
    /\ sreqs[s].pc = "saved" /\ ~sreqs[s].open
    /\ sreqs' = [sreqs EXCEPT ![s] = FreeSReq]
    /\ UNCHANGED <<sessions, nextId, cache>>

(* Mutant: entries are saved without a TTL. *)
ExpireNever(tx) == FALSE /\ UNCHANGED sessionsVars

(* The entry's TTL runs out.  config.go makes every TTL positive. *)
Expire(tx) ==
    /\ cache[tx] # 0
    /\ cache' = [cache EXCEPT ![tx] = 0]
    /\ UNCHANGED <<sessions, nextId, sreqs>>

(* The process dies and is started again; both stores survive. *)
SessCrash ==
    /\ "crash" \in Faults
    /\ sreqs' = [s \in Slots |-> Broken(sreqs[s], FreeSReq)]
    /\ UNCHANGED <<sessions, nextId, cache>>

SessStep(s) ==
    \/ \E b \in BOOLEAN : \/ StartSession(s, b) \/ CompleteSession(s, b)
                          \/ Save(s, b) \/ Delete(s, b)
    \/ StartSessionRefused(s)
    \/ CompleteSessionNoRows(s)
    \/ SessDbError(s)
    \/ SessCacheCancelled(s)

-----------------------------------------------------------------------------
(* The caller's side. *)

(* The caller reads the answer. *)
SessReply(s) ==
    /\ sreqs[s].open /\ Answered(sreqs[s])
    /\ sreqs' = [sreqs EXCEPT ![s] = FreeSReq]
    /\ UNCHANGED <<sessions, nextId, cache>>

(* The caller's five seconds are over. *)
SessTimeout(s) ==
    /\ "timeout" \in Faults
    /\ sreqs[s].open
    /\ sreqs' = [sreqs EXCEPT ![s] = Abandon(@, FreeSReq)]
    /\ UNCHANGED <<sessions, nextId, cache>>

(* The caller's process dies. *)
SessCallersGone ==
    /\ "restart" \in Faults
    /\ sreqs' = [s \in Slots |-> Abandon(sreqs[s], FreeSReq)]
    /\ UNCHANGED <<sessions, nextId, cache>>

-----------------------------------------------------------------------------
(* The service alone, called by anyone with anything. *)

PendingStarts == {s \in Slots : sreqs[s].pc = "recv" /\ sreqs[s].kind = "start"}

SessArrive(s) ==
    \/ /\ nextId + Cardinality(PendingStarts) <= MaxStarts
       /\ \E tx \in Tx \cup {None}, st \in Stations \cup {None} :
            SessReceive(s, "start", tx, st, 0)
    \/ \E tx \in Tx \cup {None}, e \in Energies :
         SessReceive(s, "stop", tx, None, e)

SessionsNext ==
    \/ \E s \in Slots : \/ SessArrive(s) \/ SessStep(s)
                        \/ SessReply(s) \/ SessTimeout(s)
    \/ \E tx \in Tx : Expire(tx)
    \/ SessCrash
    \/ SessCallersGone

SessionsSpec == SessionsInit /\ [][SessionsNext]_sessionsVars

(* The Go runtime runs every request handler, every statement returns (with
   a result, an error or a cancelled context), the caller reads an answer
   that has arrived, and Redis expires what has a TTL. *)
SessionsFairness ==
    /\ \A s \in Slots : WF_sessionsVars(SessStep(s)) /\ WF_sessionsVars(SessReply(s))
    /\ \A tx \in Tx : WF_sessionsVars(Expire(tx))

SessionsFairSpec == SessionsSpec /\ SessionsFairness

-----------------------------------------------------------------------------
(* Properties. *)

(* Every variable has its type; keys in use were drawn from the sequence. *)
SessionsTypeOK ==
    /\ sessions \in [Tx -> Row]
    /\ nextId \in Nat \ {0}
    /\ \A tx \in Tx : sessions[tx].id < nextId
    /\ cache \in [Tx -> Nat]
    /\ sreqs \in [Slots -> SReq]

(* Redis never holds a session id that the table does not hold for the same
   transaction: saving happens after the row is there, rows are never
   deleted and a repeated start keeps the row's id. *)
CacheBacked == \A tx \in Tx : cache[tx] # 0 => cache[tx] = sessions[tx].id

(* The session id in a session-start answer, which ocpp-server will bill and
   meter against, is the id of that transaction's row, however many starts
   of the same transaction are being handled at once. *)
AnswersNameRow ==
    \A s \in Slots :
      sreqs[s].kind = "start" /\ sreqs[s].pc \in {"saved", "ok"} =>
        Exists(sreqs[s].tx) /\ sreqs[s].id = sessions[sreqs[s].tx].id

(* No two sessions share an id: ids alone tell sessions apart in the billing
   and telemetry databases. *)
UniqueIds ==
    \A t, u \in Tx : Exists(t) /\ t # u => sessions[t].id # sessions[u].id

(* A session keeps its id for ever, through repeated starts and stops. *)
SessionIdsStable ==
    [][\A tx \in Tx : Exists(tx) => sessions'[tx].id = sessions[tx].id]_sessionsVars

(* Every request is answered or dropped: no callback keeps its slot. *)
RequestsEnd == \A s \in Slots : sreqs[s].pc # "free" ~> sreqs[s].pc = "free"

(* A completed session left in Redis (a lost delete, or a save that came
   after the delete) does not stay there: the TTL removes it, unless the
   session is started again. *)
StaleCacheHeals ==
    \A tx \in Tx :
      (cache[tx] # 0 /\ sessions[tx].status = "completed") ~>
        (cache[tx] = 0 \/ sessions[tx].status = "active")

=============================================================================
