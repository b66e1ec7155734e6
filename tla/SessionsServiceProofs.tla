---------------------- MODULE SessionsServiceProofs ----------------------
(***************************************************************************)
(* sessions-service keeps its table, its cache and its answers consistent, *)
(* for any number of transactions, stations and concurrent requests.       *)
(*                                                                         *)
(* The inductive invariant adds two facts to what is to be proved: a       *)
(* request that got past validation has a transaction id, and every key in *)
(* the table is smaller than the next one of the sequence (part of the     *)
(* type invariant), so that a new key is new.                              *)
(***************************************************************************)
EXTENDS SessionsService, TLAPS

(* A request past validation has a transaction id. *)
ValidatedTx ==
    \A s \in Slots : sreqs[s].pc \in {"recv", "saved", "ok"} => sreqs[s].tx \in Tx

SessionsInv ==
    SessionsTypeOK /\ ValidatedTx /\ AnswersNameRow /\ CacheBacked /\ UniqueIds

(* Every existing session keeps its id in this step. *)
IdsKept == \A tx \in Tx : Exists(tx) => sessions'[tx].id = sessions[tx].id

(* Anything that happens to the service, whoever calls it. *)
SessionsAction ==
    \/ \E s \in Slots, kind \in {"start", "stop"}, tx \in Tx \cup {None},
          st \in Stations \cup {None}, e \in Nat :
         SessReceive(s, kind, tx, st, e)
    \/ \E s \in Slots : SessStep(s) \/ SessReply(s) \/ SessTimeout(s)
    \/ \E tx \in Tx : Expire(tx)
    \/ SessCrash
    \/ SessCallersGone

-----------------------------------------------------------------------------
(* The initial state satisfies the invariant: there is nothing yet. *)
LEMMA SessionsInitInv == SessionsInit => SessionsInv
<1> SUFFICES ASSUME SessionsInit PROVE SessionsInv
  OBVIOUS
<1>1. SessionsTypeOK
  BY DEF SessionsInit, SessionsTypeOK, Row, NoRow, SReq, FreeSReq
<1>2. ValidatedTx /\ AnswersNameRow /\ CacheBacked /\ UniqueIds
  BY DEF SessionsInit, ValidatedTx, AnswersNameRow, CacheBacked, UniqueIds,
         Exists, NoRow, FreeSReq
<1> QED BY <1>1, <1>2 DEF SessionsInv

(* A step that changes nothing but one request r, to r2, keeps the invariant
   if r2 claims nothing new. *)
LEMMA OneRequestChanges ==
  ASSUME SessionsInv, NEW s \in Slots, NEW r2 \in SReq,
         sreqs' = [sreqs EXCEPT ![s] = r2],
         UNCHANGED <<sessions, nextId, cache>>,
         r2.pc \in {"recv", "saved", "ok"} => r2.tx \in Tx,
         r2.kind = "start" /\ r2.pc \in {"saved", "ok"} =>
           Exists(r2.tx) /\ r2.id = sessions[r2.tx].id
  PROVE  SessionsInv' /\ IdsKept
BY DEF SessionsInv, SessionsTypeOK, ValidatedTx, AnswersNameRow, CacheBacked,
       UniqueIds, IdsKept, Exists

(* StartSession: a row keeps its key or gets a new one, and the answer is
   that key. *)
LEMMA StartSessionInv ==
  ASSUME SessionsInv, NEW s \in Slots, NEW b \in BOOLEAN, StartSession(s, b)
  PROVE  SessionsInv' /\ IdsKept
<1> DEFINE r  == sreqs[s]
           id == KeyOf(r.tx)
           r2 == IF b THEN [r EXCEPT !.pc = "saved", !.id = id]
                      ELSE Finish(r, "err", FreeSReq)
<1>1. /\ r \in SReq /\ r.tx \in Tx /\ r.kind = "start" /\ r.pc = "recv"
      /\ sessions \in [Tx -> Row] /\ nextId \in Nat \ {0}
      /\ cache \in [Tx -> Nat] /\ sreqs \in [Slots -> SReq]
  BY DEF SessionsInv, SessionsTypeOK, ValidatedTx, StartSession, Upsert
<1>2. /\ sessions' = [sessions EXCEPT ![r.tx] =
                        [@ EXCEPT !.id = id, !.status = "active"]]
      /\ nextId' = nextId + 1
      /\ sreqs' = [sreqs EXCEPT ![s] = r2]
      /\ cache' = cache
  BY <1>1 DEF StartSession, Upsert
<1>3. /\ id \in Nat \ {0} /\ id < nextId + 1
      /\ Exists(r.tx) => id = sessions[r.tx].id
      /\ ~Exists(r.tx) => id = nextId
  BY <1>1 DEF KeyOf, Exists, SessionsInv, SessionsTypeOK, Row
<1>4. /\ r2 \in SReq
      /\ r2.pc \in {"recv", "saved", "ok"} =>
           r2.tx = r.tx /\ r2.id = id
  <2>1. CASE b
    BY <2>1, <1>1, <1>3 DEF SReq
  <2>2. CASE ~b
    BY <2>2, <1>1 DEF SReq, Finish, FreeSReq
  <2> QED BY <2>1, <2>2
<1> HIDE DEF r2, id
<1>5. /\ sessions' \in [Tx -> Row]
      /\ \A tx \in Tx : sessions'[tx].id =
           IF tx = r.tx THEN id ELSE sessions[tx].id
  BY <1>1, <1>2, <1>3 DEF Row
<1>6. SessionsTypeOK'
  <2>1. \A tx \in Tx : sessions'[tx].id < nextId'
    BY <1>1, <1>2, <1>3, <1>5 DEF SessionsInv, SessionsTypeOK, Row
  <2> QED BY <2>1, <1>1, <1>2, <1>4, <1>5 DEF SessionsTypeOK
<1>7. IdsKept
  BY <1>1, <1>3, <1>5 DEF IdsKept, Exists
<1>8. ValidatedTx'
  BY <1>1, <1>2, <1>4 DEF SessionsInv, ValidatedTx
<1>9. AnswersNameRow'
  <2> SUFFICES ASSUME NEW u \in Slots, sreqs'[u].kind = "start",
                      sreqs'[u].pc \in {"saved", "ok"}
               PROVE  sessions'[sreqs'[u].tx].id # 0 /\
                      sreqs'[u].id = sessions'[sreqs'[u].tx].id
    BY DEF AnswersNameRow, Exists
  <2>1. CASE u = s
    BY <2>1, <1>1, <1>2, <1>3, <1>4, <1>5
  <2>2. CASE u # s
    <3>1. sreqs'[u] = sreqs[u] /\ sreqs[u].tx \in Tx
      BY <2>2, <1>1, <1>2 DEF SessionsInv, ValidatedTx
    <3>2. Exists(sreqs[u].tx) /\ sreqs[u].id = sessions[sreqs[u].tx].id
      BY <3>1 DEF SessionsInv, AnswersNameRow
    <3> QED BY <3>1, <3>2, <1>3, <1>5 DEF Exists
  <2> QED BY <2>1, <2>2
<1>10. CacheBacked'
  BY <1>1, <1>2, <1>3, <1>5 DEF SessionsInv, CacheBacked, Exists, SessionsTypeOK
<1>11. UniqueIds'
  <2> SUFFICES ASSUME NEW t \in Tx, NEW u \in Tx, t # u,
                      sessions'[t].id # 0
               PROVE  sessions'[t].id # sessions'[u].id
    BY DEF UniqueIds, Exists
  <2>1. \A tx \in Tx : sessions[tx].id \in Nat /\ sessions[tx].id < nextId
    BY <1>1 DEF SessionsInv, SessionsTypeOK, Row
  <2>2. sessions[t].id # 0 \/ sessions[u].id # 0 => sessions[t].id # sessions[u].id
    BY DEF SessionsInv, UniqueIds, Exists
  <2> QED BY <2>1, <2>2, <1>1, <1>3, <1>5 DEF Exists
<1> QED BY <1>6, <1>7, <1>8, <1>9, <1>10, <1>11 DEF SessionsInv

(* CompleteSession: the row keeps its key. *)
LEMMA CompleteSessionInv ==
  ASSUME SessionsInv, NEW s \in Slots, NEW b \in BOOLEAN, CompleteSession(s, b)
  PROVE  SessionsInv' /\ IdsKept
<1> DEFINE r  == sreqs[s]
           r2 == IF b THEN [r EXCEPT !.pc = "saved"]
                      ELSE Finish(r, "err", FreeSReq)
<1>1. /\ r \in SReq /\ r.tx \in Tx /\ r.kind = "stop" /\ r.pc = "recv"
      /\ sessions \in [Tx -> Row] /\ nextId \in Nat \ {0}
      /\ cache \in [Tx -> Nat] /\ sreqs \in [Slots -> SReq]
  BY DEF SessionsInv, SessionsTypeOK, ValidatedTx, CompleteSession
<1>2. /\ sessions' = [sessions EXCEPT ![r.tx] =
                        [id |-> @.id, status |-> "completed",
                         ended |-> TRUE, energy |-> r.energy]]
      /\ nextId' = nextId /\ cache' = cache
      /\ sreqs' = [sreqs EXCEPT ![s] = r2]
  BY DEF CompleteSession
<1>3. /\ r2 \in SReq
      /\ r2.pc \in {"recv", "saved", "ok"} => r2.tx = r.tx /\ r2.kind = "stop"
  <2>1. CASE b
    BY <2>1, <1>1 DEF SReq
  <2>2. CASE ~b
    BY <2>2, <1>1 DEF SReq, Finish, FreeSReq
  <2> QED BY <2>1, <2>2
<1> HIDE DEF r2
<1>4. /\ sessions' \in [Tx -> Row]
      /\ \A tx \in Tx : sessions'[tx].id = sessions[tx].id
  BY <1>1, <1>2 DEF Row, SReq
<1>5. SessionsTypeOK'
  BY <1>1, <1>2, <1>3, <1>4 DEF SessionsInv, SessionsTypeOK
<1>6. ValidatedTx'
  BY <1>1, <1>2, <1>3 DEF SessionsInv, ValidatedTx
<1>7. AnswersNameRow'
  <2> SUFFICES ASSUME NEW u \in Slots, sreqs'[u].kind = "start",
                      sreqs'[u].pc \in {"saved", "ok"}
               PROVE  sessions'[sreqs'[u].tx].id # 0 /\
                      sreqs'[u].id = sessions'[sreqs'[u].tx].id
    BY DEF AnswersNameRow, Exists
  <2>1. u # s
    BY <1>1, <1>2, <1>3
  <2>2. sreqs'[u] = sreqs[u] /\ sreqs[u].tx \in Tx
    BY <2>1, <1>1, <1>2 DEF SessionsInv, ValidatedTx
  <2>3. Exists(sreqs[u].tx) /\ sreqs[u].id = sessions[sreqs[u].tx].id
    BY <2>2 DEF SessionsInv, AnswersNameRow
  <2> QED BY <2>2, <2>3, <1>4 DEF Exists
<1>8. CacheBacked' /\ UniqueIds' /\ IdsKept
  BY <1>2, <1>4 DEF SessionsInv, CacheBacked, UniqueIds, IdsKept, Exists
<1> QED BY <1>5, <1>6, <1>7, <1>8 DEF SessionsInv

(* Every step of the service keeps the invariant and every session's id. *)
LEMMA SessionsStepInv ==
  ASSUME SessionsInv, SessionsAction
  PROVE  SessionsInv' /\ IdsKept
<1>1. SessionsTypeOK /\ \A s \in Slots : sreqs[s] \in SReq
  BY DEF SessionsInv, SessionsTypeOK
<1>2. ASSUME NEW s \in Slots, NEW kind \in {"start", "stop"},
             NEW tx \in Tx \cup {None}, NEW st \in Stations \cup {None},
             NEW e \in Nat, SessReceive(s, kind, tx, st, e)
      PROVE  SessionsInv' /\ IdsKept
  <2> DEFINE r2 == [pc |-> IF tx = None THEN "err" ELSE "recv", open |-> TRUE,
                    kind |-> kind, tx |-> tx, station |-> st, energy |-> e,
                    id |-> 0]
  <2>1. r2 \in SReq /\ (r2.pc = "recv" => r2.tx \in Tx) /\ r2.pc \in {"err", "recv"}
    BY DEF SReq
  <2>2. sreqs' = [sreqs EXCEPT ![s] = r2] /\ UNCHANGED <<sessions, nextId, cache>>
    BY <1>2 DEF SessReceive
  <2> HIDE DEF r2
  <2> QED BY <2>1, <2>2, OneRequestChanges
<1>3. ASSUME NEW s \in Slots, SessStep(s)
      PROVE  SessionsInv' /\ IdsKept
  <2> DEFINE r == sreqs[s]
             ended == Finish(r, "err", FreeSReq)
             done == Finish(r, "ok", FreeSReq)
  <2>1. /\ r \in SReq /\ ended \in SReq /\ done \in SReq /\ FreeSReq \in SReq
        /\ ended.pc \in {"err", "free"}
        /\ \/ /\ done.pc = "ok" /\ done.tx = r.tx /\ done.kind = r.kind
              /\ done.id = r.id
           \/ done.pc = "free"
        /\ FreeSReq.pc = "free"
    BY <1>1 DEF Finish, SReq, FreeSReq
  <2> HIDE DEF ended, done
  <2>2. ASSUME NEW b \in BOOLEAN, Save(s, b)
        PROVE  SessionsInv' /\ IdsKept
    <3>1. /\ r.pc = "saved" /\ r.kind = "start" /\ r.tx \in Tx
          /\ r.id = sessions[r.tx].id /\ r.id # 0 /\ r.id \in Nat
          /\ sreqs' = [sreqs EXCEPT ![s] = done]
          /\ cache' \in {cache, [cache EXCEPT ![r.tx] = r.id]}
          /\ UNCHANGED <<sessions, nextId>>
      BY <2>2, <2>1 DEF Save, done, SessionsInv, ValidatedTx, AnswersNameRow, Exists, SReq
    <3>2. SessionsTypeOK' /\ CacheBacked' /\ UniqueIds' /\ IdsKept
      BY <3>1, <2>1 DEF SessionsInv, SessionsTypeOK, CacheBacked, UniqueIds, IdsKept, Exists
    <3>3. ValidatedTx' /\ AnswersNameRow'
      BY <3>1, <2>1, <1>1 DEF SessionsInv, ValidatedTx, AnswersNameRow, Exists, SessionsTypeOK
    <3> QED BY <3>2, <3>3 DEF SessionsInv
  <2>3. ASSUME NEW b \in BOOLEAN, Delete(s, b)
        PROVE  SessionsInv' /\ IdsKept
    <3>1. /\ r.pc = "saved" /\ r.kind = "stop" /\ r.tx \in Tx
          /\ sreqs' = [sreqs EXCEPT ![s] = done]
          /\ cache' \in {cache, [cache EXCEPT ![r.tx] = 0]}
          /\ UNCHANGED <<sessions, nextId>>
      BY <2>3, <2>1 DEF Delete, done, SessionsInv, ValidatedTx
    <3>2. SessionsTypeOK' /\ CacheBacked' /\ UniqueIds' /\ IdsKept
      BY <3>1, <2>1 DEF SessionsInv, SessionsTypeOK, CacheBacked, UniqueIds, IdsKept, Exists
    <3>3. ValidatedTx' /\ AnswersNameRow'
      BY <3>1, <2>1, <1>1 DEF SessionsInv, ValidatedTx, AnswersNameRow, Exists, SessionsTypeOK
    <3> QED BY <3>2, <3>3 DEF SessionsInv
  <2>4. CASE StartSessionRefused(s)
    <3>1. /\ sreqs' = [sreqs EXCEPT ![s] = ended]
          /\ nextId' = nextId + 1 /\ UNCHANGED <<sessions, cache>>
      BY <2>4 DEF StartSessionRefused, ended
    <3>2. SessionsTypeOK'
      BY <3>1, <2>1 DEF SessionsInv, SessionsTypeOK, Row
    <3>3. ValidatedTx' /\ AnswersNameRow' /\ CacheBacked' /\ UniqueIds' /\ IdsKept
      BY <3>1, <2>1, <1>1 DEF SessionsInv, SessionsTypeOK, ValidatedTx, AnswersNameRow, CacheBacked,
         UniqueIds, IdsKept, Exists
    <3> QED BY <3>2, <3>3 DEF SessionsInv
  <2>5. CASE CompleteSessionNoRows(s) \/ SessDbError(s)
    <3>1. sreqs' = [sreqs EXCEPT ![s] = ended] /\ UNCHANGED <<sessions, nextId, cache>>
      BY <2>5 DEF CompleteSessionNoRows, SessDbError, ended
    <3> QED BY <3>1, <2>1, OneRequestChanges
  <2>6. CASE SessCacheCancelled(s)
    BY <2>6, <2>1, OneRequestChanges DEF SessCacheCancelled
  <2> QED BY <1>3, <2>2, <2>3, <2>4, <2>5, <2>6, StartSessionInv, CompleteSessionInv DEF SessStep
<1>4. ASSUME NEW s \in Slots, SessReply(s)
      PROVE  SessionsInv' /\ IdsKept
  <2>1. FreeSReq \in SReq /\ FreeSReq.pc = "free"
    BY DEF SReq, FreeSReq
  <2> QED BY <1>4, <2>1, OneRequestChanges DEF SessReply
<1>5. ASSUME NEW s \in Slots, SessTimeout(s)
      PROVE  SessionsInv' /\ IdsKept
  <2> DEFINE r2 == Abandon(sreqs[s], FreeSReq)
  <2>1. /\ r2 \in SReq
        /\ r2.pc = "free" \/ (r2.pc = sreqs[s].pc /\ r2.tx = sreqs[s].tx
                              /\ r2.kind = sreqs[s].kind /\ r2.id = sreqs[s].id)
    BY <1>1 DEF Abandon, SReq, FreeSReq
  <2>2. sreqs' = [sreqs EXCEPT ![s] = r2] /\ UNCHANGED <<sessions, nextId, cache>>
    BY <1>5 DEF SessTimeout
  <2> HIDE DEF r2
  <2> QED BY <2>1, <2>2, OneRequestChanges DEF SessionsInv, ValidatedTx, AnswersNameRow
<1>6. ASSUME NEW tx \in Tx, Expire(tx)
      PROVE  SessionsInv' /\ IdsKept
  BY <1>6 DEF Expire, SessionsInv, SessionsTypeOK, ValidatedTx, AnswersNameRow,
              CacheBacked, UniqueIds, IdsKept, Exists
<1>7. CASE SessCrash \/ SessCallersGone
  <2>1. \A s \in Slots :
          /\ sreqs'[s] \in SReq
          /\ \/ sreqs'[s].pc \in {"free", "err"}
             \/ /\ sreqs'[s].pc = sreqs[s].pc /\ sreqs'[s].tx = sreqs[s].tx
                /\ sreqs'[s].kind = sreqs[s].kind /\ sreqs'[s].id = sreqs[s].id
    <3>1. ASSUME NEW r \in SReq
          PROVE  /\ Broken(r, FreeSReq) \in SReq /\ Abandon(r, FreeSReq) \in SReq
                 /\ Broken(r, FreeSReq).pc \in {"free", "err"}
                 /\ LET a == Abandon(r, FreeSReq)
                    IN  a.pc = "free" \/ (a.pc = r.pc /\ a.tx = r.tx /\ a.kind = r.kind
                                          /\ a.id = r.id)
      BY DEF Broken, Abandon, SReq, FreeSReq
    <3> QED BY <3>1, <1>1, <1>7 DEF SessCrash, SessCallersGone
  <2>2. UNCHANGED <<sessions, nextId, cache>> /\ sreqs' \in [Slots -> SReq]
    BY <2>1, <1>7 DEF SessCrash, SessCallersGone
  <2>3. SessionsTypeOK' /\ CacheBacked' /\ UniqueIds' /\ IdsKept
    BY <2>2 DEF SessionsInv, SessionsTypeOK, CacheBacked, UniqueIds, IdsKept, Exists
  <2>4. ValidatedTx' /\ AnswersNameRow'
    BY <2>1, <2>2 DEF SessionsInv, ValidatedTx, AnswersNameRow, Exists
  <2> QED BY <2>3, <2>4 DEF SessionsInv
<1> QED BY <1>2, <1>3, <1>4, <1>5, <1>6, <1>7 DEF SessionsAction

(* The invariant holds in every state, and every step keeps the ids. *)
LEMMA SessionsNextInv ==
  ASSUME SessionsInv, [SessionsNext]_sessionsVars
  PROVE  SessionsInv' /\ IdsKept
<1>1. CASE SessionsNext
  <2>1. ASSUME NEW s \in Slots, SessArrive(s)
        PROVE  SessionsAction
    <3>1. Energies \subseteq Nat
      <4>1. \A m \in Meters : m \in Int
        BY DeploymentAssumption
      <4> QED BY <4>1 DEF Energies
    <3>2. CASE \E tx \in Tx \cup {None}, st \in Stations \cup {None} :
                 SessReceive(s, "start", tx, st, 0)
      BY <3>2 DEF SessionsAction
    <3>3. CASE \E tx \in Tx \cup {None}, e \in Energies :
                 SessReceive(s, "stop", tx, None, e)
      BY <3>1, <3>3 DEF SessionsAction
    <3> QED BY <2>1, <3>2, <3>3 DEF SessArrive
  <2>2. SessionsAction
    BY <1>1, <2>1, Zenon DEF SessionsNext, SessionsAction
  <2> QED BY <2>2, SessionsStepInv
<1>2. CASE UNCHANGED sessionsVars
  BY <1>2 DEF sessionsVars, SessionsInv, SessionsTypeOK, ValidatedTx,
     AnswersNameRow, CacheBacked, UniqueIds, IdsKept, Exists
<1> QED BY <1>1, <1>2

-----------------------------------------------------------------------------

(* sessions-service's variables always have their types, and every key in
   the table was drawn from the sequence. *)
THEOREM SessionsTyped == SessionsSpec => []SessionsTypeOK
<1>1. SessionsInv => SessionsTypeOK
  BY DEF SessionsInv
<1> QED BY <1>1, SessionsInitInv, SessionsNextInv, PTL DEF SessionsSpec

(* Table, cache and answers agree about ids, whatever requests arrive and
   whatever fails. *)
THEOREM SessionsConsistent ==
  SessionsSpec => [](CacheBacked /\ AnswersNameRow /\ UniqueIds)
<1>1. SessionsInv => CacheBacked /\ AnswersNameRow /\ UniqueIds
  BY DEF SessionsInv
<1> QED BY <1>1, SessionsInitInv, SessionsNextInv, PTL DEF SessionsSpec

(* A session keeps its id for ever. *)
THEOREM SessionsKeepIds == SessionsSpec => SessionIdsStable
<1>1. ASSUME SessionsInv, [SessionsNext]_sessionsVars
      PROVE  [\A tx \in Tx : Exists(tx) => sessions'[tx].id = sessions[tx].id]_sessionsVars
  BY <1>1, SessionsNextInv DEF IdsKept
<1> QED BY <1>1, SessionsInitInv, SessionsNextInv, PTL DEF SessionsSpec, SessionIdsStable

=============================================================================
