# DrivePower: formal specification

TLA+ modules for the backend under `src/backend/services`: what happens from a
charging station's WebSocket message to the rows it leaves in the databases of
sessions-service, billing-service and telemetry-service; what users get when
they sign up, log in and read their histories through the gateway; and how
every service's process starts, serves, stops and is restarted. TLC checks the modules
on small instances; TLAPS proves the most important results for every value of
the constants. Paths below are relative to `src/backend/services/` unless they
start with `src/`.

## 1. Inventory

```
 station ──ws──> ocpp-server ──HTTP──> sessions-service ── PostgreSQL, Redis
                     │  │─────HTTP──> billing-service  ── PostgreSQL
                     │  └─────HTTP──> telemetry-service ── PostgreSQL
                     └── PostgreSQL (charging_stations, ocpp_messages)
 browser ──HTTP──> api-gateway ──> auth-, sessions-, billing-, telemetry-service
```

| Component | State | Operations | What makes it correct |
|---|---|---|---|
| ocpp-server, connections (`ocpp-server/internal/ws`) | per connection a socket, a 16-slot send channel, a reader and a writer goroutine; the manager's map, behind an RWMutex | accept, read, answer, write, ping, clean up | an answer is dropped only for a station that is behind; accepted ones are written in order and only the last can be lost; no dead connection in the map; everything that ends is cleaned up |
| ocpp-server, handlers (`handlers`, `service`) | `TransactionStore`, `StationState` (memory), `charging_stations` | Boot, Status, Start, Stop, MeterValues, Heartbeat | a context names the session of its transaction; a session is billed once; every handler returns |
| ocpp-server, frames and log (`ocpp`, `repository/ocpp_log_repo.go`) | `ocpp_messages` | parse, route, encode, log | what is read is answered at most once, and a frame that cannot be parsed not at all (`Process`; no property is about the encoding) |
| sessions-service | `charging_sessions`, Redis `sessions:active:*` | start, stop, list active, history of a user | rows never disappear or change id; the cache names rows that exist; a history is complete or refused |
| billing-service | `billing_transactions`, `tariffs` | session stopped, list | a bill has a price that was in force while its request was handled; energy is never free |
| telemetry-service | `telemetry_data`, `session_energy_view` | meter value, energy of a session | readings belong to sessions that exist |
| auth-service | `users` | signup, login, tokens | one account per e-mail address, however it is typed; answers are true; a token names its user |
| api-gateway | none | check the token, proxy | a user gets only his own rows; every request is answered |
| the processes (`cmd`, `app`, `config`, `http/server.go` of each service, `src/backend/libs`) | settings, open stores, listener, requests being handled | load settings, open stores, serve, shut down | no service runs without its stores or with an empty setting; a shutdown ends and loses no HTTP request silently |
| `src/csms` | an older stand-alone CSMS stub with a vendored WebSocket library | – | not part of the deployment |
| `src/station_simulator.py` | one station's state | boot, start, meter values, stop | drives the system; its messages are among those the models allow |

What is hard here: no retries, no idempotency keys and no transactions across
services. Each of the three stop-time effects (complete the row, bill, set the
station available) may fail alone. A client gives up after five seconds, and the
request it gave up on runs on. ocpp-server forgets its transactions in a restart.
A station may have two connections, whose handlers share the stores. The ping
loop writes to sockets that have a writer of their own. Signup checks an address
in one statement and inserts in another. A request given up by a user or by the
gateway may still create an account. `PROJECT.json` lists
these hazards one by one with their lines and the properties that cover them.

## 2. Modules

| Module | Models | How it corresponds to the code |
|---|---|---|
| `Deployment` | – | identifiers, the set of faults, bounds |
| `HttpCall` | the life of a call between services | request records with `pc` and `open`; `Abandon` is the client's timeout, `Broken` the death of the service |
| `SessionsService` | `sessions-service` | one action per SQL statement or Redis command of `StartSessionFromOCPP` and `StopSessionFromOCPP` |
| `BillingService` | `billing-service` | `ActiveTariff` and `CreateTransaction` are separate steps, as they are separate statements; an operator adds, reprices, reorders and withdraws tariffs between them, and `tariffs` keeps every state the table had |
| `TelemetryService` | `telemetry-service`, write side | one insert |
| `OcppServer` | handlers, stores, `charging_stations` | `h[c].pc` is the handler's position; one action per critical section, statement or call |
| `WsConnections` | `ws/` | `rp`, `wp` are the positions of `readPump` and `writePump`; a write is an interval; a read may fail at any time, with a socket that works or not |
| `ChargingSystem` | the deployment | composes the four services: `StartCall` = handler leaves + request arrives, `StartAnswered`, `StartGivenUp`, ... |
| `ChargingLedger` | what the records promise | abstract specification: sessions are opened, closed, reopened; charges only for sessions that exist |
| `UserRequests` | – | bounds and faults of the services behind the gateway |
| `AuthService` | `auth-service` | one action per statement of `Signup` and `Login`; an address is its text, blanks and capitals, so that `Canonical` has something to do |
| `UserHistory` | `GetSessionsByUser`, `ListByUser` and the statements they race with | tables as sets of rows with user, sort time and whether `end_time` is set |
| `ApiGateway` | `api-gateway`, composed with the two above | `ClientAsks` = request accepted, token checked, call sent; `AuthReturns`, `HistoryReturns`, `GwTimeout`, `ClientLeaves` |
| `ServiceConfig` | `libs/config` and the six `config` packages | sources as functions on the fields they set; results as sets, empty on error |
| `ServiceProcess` | `main`, `app.New`, `Server.Run`, `Close`, the supervisor | `pc` is main's position, `listener` the goroutine of `ListenAndServe`, `handlers` what `http.Server` waits for or has lost to a WebSocket |
| `*Proofs` | – | theorems (section 5); `ChargingLedgerProofs` builds on `ChargingSystemProofs` |
| `MC*` | – | instances for TLC |

`ChargingSystem` implements `ChargingLedger` through the refinement mapping
`ledger <- id and status of each row`, `billed <- session ids of the bills`
(property `LedgerSpec`, run `MCRecords`).

Abstractions that matter for reading the results:

* Energy and meter values are integers in Wh, prices integers per Wh; the
  columns are `DOUBLE PRECISION`, so nothing is rounded that a property sees.
* A row keeps its id, status, energy and whether `end_time` is set. User,
  connector, reason and times do not influence control.
* A statement may take effect and still be reported as failed (`acked = FALSE`
  with fault `"db"`), and a statement of a request whose caller is gone may fail
  because `r.Context()` is cancelled.
* Faults are a constant, so a run says which ones it admits: `db`, `redis`,
  `crash` (a called service), `timeout` (a client gives up), `down` (a call fails
  before it arrives), `restart` (ocpp-server).
* Transaction ids of the form that ocpp-server makes up are started once
  (`Generated`): it combines station id and nanosecond clock. Ids that stations
  send may be started any number of times.
* A bcrypt hash is the word that was hashed; a word in `Long` (over 72 bytes) is
  refused. A token is the user's id and whether it has expired: gateway and
  auth-service are given the same secret. A client keeps a token only where the
  load lets it use one.
* In `ServiceProcess` the settings that nothing checks (service URLs, the Redis
  password and database number) are left out, and a number of seconds is small
  enough for `time.Duration`. The servers of the five HTTP services are the same
  text; `ocpp-server` has its `Run` in `app.go`.
* `WsConnections` and `OcppServer` meet in one point: a connection handles one
  message at a time. `OcppServer` has one handler per connection;
  `WsConnections` treats the handler as a step that ends (`Process`), which is
  what `HandlersReturn` establishes.

## 3. What the runs check

Passing runs:

| Run | Question | Bounds | Distinct states |
|---|---|---|---|
| `MCSessions` | Are ids unique and stable and answers and cache entries right, with two callbacks interleaving under all faults? Does every callback end, and does a stale cache entry go away? | 2 transactions, a known and an unknown station, 2 requests in flight, 3 sequence values | 169,181 |
| `MCBilling` | Is every row priced by a tariff that was in force since its request came, while tariffs are added, repriced in place, reordered and withdrawn, and does every request end? | one request at a time, 2 bills, 3 changes of the tariffs table, prices -1, 0, 3 and default 7, all faults | 714,902 |
| `MCStations` | Does a handled Boot or Status message leave memory and table in agreement? | 2 stations with a connection each, connectors 0 and 1, all messages, restarts, no database faults | 230,082 |
| `MCRecords` | Do the composed records refine the ledger, and do bills and contexts refer to existing sessions? | 2 connections of one station, 1 transaction id, 2 starts, 2 slots per service, faults db, timeout, down | 568,971 |
| `MCCalls` | Is a transaction billed at most once, do bills and meter values refer to sessions, and does every handler return though services may hang and ocpp-server is restarted? | 1 connection, 1 transaction id started once and stopped any number of times, 2 slots per service, all faults, no default price | 126,030 |
| `MCSettle` | Does a stop without faults complete and bill its session? | 2 connections of 2 stations, readings 0 and 2 | 24,168 |
| `MCWs` | Are accepted answers written in order and in the end, and dropped only when the station is behind? Does the map hold the connections in service, and is what ends cleaned up? | channel of 2; one load with a connection of 3 requests, one with two connections of one station and no requests; ping loop, lost stations, failing reads and writes | 54,928 |
| `MCUsers` | One account per address, true answers to signups, logins and reads, and an answer to everyone? | three loads: 2 clients race for one address typed in two ways with two passwords; 1 client uses all routes with 2 writes to the histories while services fail and die; 1 client with an empty and with an overlong password. 2 calls in flight per service, answers of 1 row | 184,727 |
| `MCLifecycle` | Do settings, start, shutdown and restart of each service keep their promises? | all six services, 2 requests, up to 3 faults (store down, port taken, accept fails, killed); and without faults each field set in file and environment in all ways: absent, empty, blank or not positive, no number, usable | 7,839 |

`MCRecords` leaves out restarts of ocpp-server, with which TLC needs twice the
time; `MCCalls` has them, and the theorems about the properties of `MCRecords`
hold under every fault.

Why these bounds suffice to be interesting: two requests in flight let a start and
a stop (or two starts) of one transaction interleave in every way; two
connections of one station give every race on `TransactionStore`; two slots per
service let a request that was given up take effect after a later one; a channel
smaller than the number of requests is full and drained again; three changes of
the tariffs let one of two active rows be repriced, reordered or withdrawn under a
request (requests share nothing but the tables, so one at a time suffices for
prices; the theorem is about any number).
One account id more than one lets both racing signups reach their INSERT. An
answer of one row makes the limit bite with two rows.
Symmetry is used for the slots of `MCRecords`, which checks no liveness: nothing
orders them.
The `MCWs*` runs set `CHECK_DEADLOCK FALSE` because the process may be gone
(`Panic`) and because connections are accepted once each, `MCLifecycle` because
a service that was asked to stop stays stopped.

Runs whose property is expected to fail, each for a sentence that the code does
not live up to (`findings` in `PROJECT.json` quotes it):

| Run | Property | What happens |
|---|---|---|
| `MCWsWriters` | `OneWriter` | ping loop and writer write at the same time |
| `MCUserHistory` | `HistoryReachesUser` | everything that ocpp-server writes belongs to user 0, so the histories of a user stay empty |
| `MCNoTariff` | `NoTariffNoBill` | with an empty `tariffs` table, as the migrations leave it, the session is billed at the default price of 7, where `src/docs/server-operations.md:39` expects no billing |

Behaviours that the models show as well and that no sentence of the repository
clearly excludes, so that no run is devoted to them:

* A session that was never completed has a NULL `end_time`, which
  `GetSessionsByUser` and `GetActiveSessions` scan into a plain `time.Time`: while
  such a row is among those selected, the answer is 500
  (`session_repo.go:95,142`). `HistoryAnswersTrue` shows that it is never a
  shorter list.
* A session may be billed although it is still active: the completing call times
  out and billing goes through (`stop_transaction.go:53`).
* When a station reconnects before its old connection is cleaned up, the cleanup
  removes the entry of the new one, because `Remove` goes by station id
  (`manager.go:38`). It is then not pinged.
* Of two signups that race for an address the slower one is told 500, not 409
  (`auth_service.go:76`): `SignupAnswersTrue` says what holds of 201 and 409. A
  signup answered with 500 or 502 may have created the account.
* `auth-service` accepts a JWT secret of blanks, which the gateway refuses.
* When the ten seconds of `Shutdown` run out, `logger.Fatal` ends the process
  without the deferred `Close`. WebSockets of ocpp-server are not waited for.
* A repeated StopTransaction finds no context, reports energy 0, and the UPDATE
  in `CompleteSession` overwrites the energy of the completed row.
* A start whose caller gave up may save its Redis entry after the stop deleted
  it. `StaleCacheHeals` shows that the TTL ends this.
* An answer is dropped when 16 others wait for the writer (`connection.go:115`),
  and accepted answers are lost when the reader ends: it closes the channel and
  then the socket, and the writer may not get to the channel in between, or see
  the cancelled context first (`:89`, `:133-134`). `AnswersDelivered` and
  `DroppedOnlyWhenBehind` say what is left: no gaps but those, and the writer of a
  socket that still works empties the closed channel.
* A lookup that fails charges the default price although a tariff is in force
  (`tariff_service.go:38-43`); `PriceWasInForce` allows the default then.
* `HistoryAnswersTrue` allows the 500 of a NULL `end_time`, and says nothing of
  when it stops.

`NoDoubleBilling` holds for a transaction that belongs to one connection. With
two connections of a station that carry the same transaction id it does not: two
StopTransactions can both pass `txStore.Get` (`stop_transaction.go:32`) before
either reaches `Delete` (`:37`); the bounds of `MCCalls` say what is claimed.
`StationViewsAgree` is a property of the steps that end a Boot or Status handler,
because StopTransaction updates memory alone (`stop_transaction.go:64`) and so
makes the two views differ until the next such message.

## 4. Fairness

* `SessionsFairSpec`, `BillingFairSpec` (`MCSessions`, `MCBilling`): weak fairness of each request's steps
  and of the caller reading an answer. A Go handler runs until it returns, and
  every SQL and Redis call returns a result or an error. `Expire` is fair because
  Redis removes entries when their TTL ends and `config.go:72-78` makes the TTL
  positive. Crashes, timeouts and arrivals are not fair: they need not happen.
* `HandlerFairSpec` (`MCCalls`): weak fairness of a handler's own steps only. A waiting
  handler can always take `StartGivenUp` and the like, because each client has
  `http.Client{Timeout: 5s}` (`sessions_client.go:39-47` and its siblings). Of the
  services nothing is assumed.
* `FairSpec` adds that services work off requests, for `StopSettles`.
* `ApiGateway!FairSpec` (`MCUsers`): weak fairness of the gateway's time limit
  (`base_client.go:71-73`; `config.go:69-74` makes it positive) and of the client
  reading its answer. Of the services nothing is assumed.
* `ServiceProcess!FairSpec` (`MCLifecycle`): main and the listener's goroutine are
  scheduled, and every call of main is bounded (pings 5 s, `Shutdown` 10 s). A
  store that is down comes back, faults are finitely many, and the supervisor
  restarts (`docker-compose.dev.yml`, `restart: unless-stopped`). Nothing is
  assumed of handlers: they may hang.
* `WsFairSpec`: weak fairness of reader, writer and ping loop: goroutines are
  scheduled and writes end at the write deadline (`connection.go:127-130`). A read
  may fail at any time (`ReadFails`) but has to only when the station is gone or
  writes fail (`ReadMustEnd`): then no pong extends the read deadline (`:54-58`).
  Strong fairness of `TakeAnswer`: Go's `select` picks among ready cases at
  random, so the ticker does not keep the writer from an answer for ever. Strong
  fairness of `Add` and `Remove`: a goroutine that waits in `RWMutex.Lock` keeps
  later readers out, so the ping loop cannot starve it. No new message needs to
  arrive.

## 5. What is proved

TLAPS checks these for every value of the constants that satisfies the modules'
`ASSUME`s (`DeploymentAssumption`, `SessionsAssumption`, `BillingAssumption`,
`OcppAssumption`, `WsAssumption`, `RequestsAssumption`, `AuthAssumption`,
`HistoryAssumption`, `GatewayAssumption`, `DeploymentsAssumption`,
`JunkAssumption`: types of the constants, that `None` is no identifier and that
a text which is no number is none). Every invariant, action property and
refinement of the passing runs is stated by one of them.

| Theorem | Property |
|---|---|
| `SessionsTyped`, `BillingTyped`, `OcppTyped`, `SystemTyped`, `WsTyped`, `GatewayTypes`, `ProcessTyped` | the type invariants |
| `SessionsConsistent` | `CacheBacked`, `AnswersNameRow`, `UniqueIds` |
| `SessionsKeepIds` | `SessionIdsStable` |
| `BillingAmountsRight`, `BillingPricesRight` | `EnergyCostsMoney`; `PriceWasInForce` |
| `ViewsAgree` | `StationViewsAgree`, for stations with one connection and a database that works |
| `SessionsBehindRecords` | `BilledSessionsExist`, `MeteredSessionsExist`, `ContextsNameSession` |
| `ImplementsLedger` | `LedgerSpec` |
| `BilledOnce` | `NoDoubleBilling`, for transactions started once and over one connection |
| `WsDelivers` | `AnswersDelivered`, `RegisteredIsOpen` |
| `WsDropsLate` | `DroppedOnlyWhenBehind` |
| `AccountsUnique` | `OneAccountPerAddress`, and the types of auth-service |
| `SignupsTrue`, `LoginsTrue`, `HistoriesTrue` | `SignupAnswersTrue`, `LoginAnswersTrue`, `HistoryAnswersTrue` |
| `ShutdownSafe` | `NoRequestLost`, `SuccessWhenAsked` |
| `SettingsAsDeployed` | `SettingsInForce` |

Two theorems have a hypothesis beyond the `ASSUME`s. Both are the conditions of
the run that checks the property, and each part is needed: TLC finds the
property violated when that run drops it:

* `OwnTransactions` (`BilledOnce`): the transaction ids of a connection are
  of the form that ocpp-server makes up and hence start once (`Generated`), and no
  two connections share one. An id that a station starts again is a second claim
  to the same row; two connections can both read the context before one deletes it.
* `OneConnectionPerStation` and `"db" \notin Faults` (`ViewsAgree`): handlers of
  two connections of a station can write table, table, memory, memory, and one
  ends between the other's two writes; a failed UPDATE leaves the table behind.

*sessions-service.* The three properties are inductive with the type invariant,
which says that every id in use is below the sequence: a fresh row gets an id
that no other row has, an existing row keeps its own, and an entry or answer
is taken from a row that is never deleted.

*billing-service.* Bills are right because requests between the two statements
are: a `priced` request carries a positive price that was in force at some moment
since it came (`RequestFine`). What was in force is read off the history that
`tariffs` keeps, which an operator only extends (`TariffHistory`), so a price that
was in force since a request came stays one although the table has changed
(`TariffStepInv`). Of all steps only the insert adds a row, for its own request
(`OnlyCreateBills`), which turns the invariant into the action property.

*Station state* (`OcppServerProofs`). `StationViewsAgree` speaks of the step that
ends a handler; what it needs is that the handler's first write still stands when
it makes the second. `ViewsInv` says so for each position of a Boot or Status
handler (`Written`). Other stations' handlers leave both views of the station
alone (`OthersUndisturbed`), and StopTransaction, which updates memory only, runs
on the station's one connection and hence not between the two writes.

*The composed system* (`ChargingSystemProofs`). That a bill's session exists is
a fact about two databases and needs a chain through everything between them.
The invariant `Inv` adds to the component invariants: a waiting handler's slot
holds its own call, open, and nobody else waits on that slot (`OwnSlots`,
`CallsInFlight`, `FreeIsClosed`); the session id a handler carries, the ids in
the requests of billing and telemetry and the ids in the transaction store name
existing sessions, and the right one where a transaction is known
(`HandlersNameSession`, `RequestsNameSession`, `MeterRequestsValid`,
`ContextsNameSession`). Without the slot ownership, an answer could be read by
a handler of another transaction, so the properties alone are not inductive.

*The ledger* (`ChargingLedgerProofs`). Only three statements touch the two
tables (`TableSteps`): the upsert of a start, the UPDATE of a stop and the INSERT
of a bill. Each is one step of the ledger or a stutter; that a new session's id
is fresh comes from `SessionsInv`, that a bill's session is in the ledger from
`RequestsNameSession`. Everything else stutters.

*Billed once* (`ChargingLedgerProofs`). No statement prevents a second bill, so
the argument follows the right to bill: it lies in the transaction store, then
with the handler that took the context out, then with one request, then in the
row. `OnceInv` says that a session is unclaimed as long as a handler holds it
(`HeldUnclaimed`) or the store does (`StoredUnclaimed`), that one whose
transaction was never started is unclaimed (`FreshUnclaimed`), and that no two
requests, and no request and row, claim the same (`ClaimedOnce`). A request that
was given up keeps its claim, which is why claims are counted in the requests
and not by what handlers wait for.

*Connections* (`WsConnectionsProofs`). `WsInv` says for every connection where
its answers are: as long as writes have not overlapped, the written ones are a
prefix of the accepted ones, and until writes fail those in the writer's hand and
in the channel are the rest (`Delivered`). For that the positions of the two
goroutines have to fit: a writer runs while the reader serves, holds an answer
only while it writes it, and closes or ends only when the channel is empty or
writes fail (`Positions`). That a drop finds the station behind needs that at
least as many were accepted as are written, in the writer's hand and in the
channel (`Counted`).

*Accounts* (`ApiGatewayProofs`). The unique index compares rows as they are
stored, while the property compares the text of addresses. So `UsersInv` adds
that every stored address is canonical, that keys are below the sequence, and
that a signup between check and INSERT has a password; the check that Signup
makes before the INSERT is not needed. The rest of the system touches
auth-service only by the moves collected in `AuthMoves`.

*Answers to clients* (`ApiGatewayProofs`). On top of `TypesInv`, in two parts:

* `AuthInv`, for signups and logins: a waiting request owns the slot of its call,
  which holds what its client typed (`AuthCalls`); an answer is so from the step
  that computes it, in the slot (`SlotsTrue`) and with the client (`ClientsTrue`),
  because rows of `users` are never removed; and one slot or client only holds a
  201 for an address (`ToldOnce`). For a refused login the invariant also keeps
  what fitted when it was sent (`LoginKnown`).
* `ReadsInv`, for histories: the same ownership for the slots of
  sessions-service and billing-service (`HistCalls`), and that an answer, from
  the step of the SELECT on, leaves out only older rows than a full answer shows
  (`CompleteCalls`, `CompleteShown`). A row that is written later has a higher
  revision than all that the request knows of (`KnownOld`), so the comparison is
  not disturbed. That the service is asked for the user of the token needs
  `KeysInv`: the JWT library reads the id as `float64`, which keeps it as long as
  keys stay below `Exact`. They do in a load because every signup under way has a
  key left (`PendingInv`).

*Processes* (`ServiceProcessProofs`). `ShutdownInv` adds that handlers work only
while main serves or drains, that all stores are open for as long, that main
drains and closes only after it was asked to stop, and that a handler is cut off
by an unclean end of the process only. `NoRequestLost` alone is not inductive:
a handler might be busy when `Close` begins. `ProcessTyped` needs that `New` opens
the stores of its service in order (`StoresOfServices`, `NextStoreOwn`).
`SettingsAsDeployed` follows the settings through `LoadConfig`, the checks of
each service's `Load` and the accessors, field by field; one empty setting, a DSN
of blanks, passes `Load` and is refused only where the database is opened, so the
invariant `LoadedInv` allows it until main serves.

`Inv` was model-checked on the instance of `MCRecords` before it was proved,
`AuthInv`, `KeysInv` and `ReadsInv` on that of `MCUsers`, and `OnceInv` on an
instance of `ChargingSystem` that satisfies `OwnTransactions`.

Only model-checked: the liveness properties, which are out of TLAPS' reach
(`RequestsEnd`, `StaleCacheHeals`, `BillRequestsEnd`, `HandlersReturn`,
`StopSettles`, `ConnectionsEnd`, `AnswersWritten`, `ClientsAnswered`, `StopEnds`, `ServesAgain`),
and the three findings.

## 6. What is not modelled

`Heartbeat`, the health routes, logging and the message log (they influence
nothing); JSON and HTTP encoding, methods and paths that no route has;
`GetActiveSessions`, which nothing in the deployment calls;
`TokenService.ValidateToken`, which has no caller (the gateway checks tokens
itself); `TotalEnergy` of telemetry-service, which has no route: it prefers the
materialized view of `migrations/0001_create_telemetry_data.sql:15`, which
nothing refreshes, to the sum over the readings. The service behind
`/api/stations` is not in the repository. The simulator's own loop: stations
send any message at any time, which includes its messages. `src/csms` is an
older server that the deployment does not use. Of the vendored WebSocket
library only its contract is used: one writer at a time, a failed write makes
the later ones fail, a closed socket fails reads and writes, and after the Close
frame with which the library answers a bad or closing frame writes fail.

## 7. Plan

1. What is proved of a component alone, carried over to the composed system:
   each component's part of `ChargingSystem` implements that component's own
   specification, so that `AnswersNameRow`, `PriceWasInForce` and the like hold
   of the deployment too.
2. `SessionsService` against an abstract specification of its own: what a start
   and a stop promise their caller, with the cache as a detail.
3. `OcppServer` inside `WsConnections`: the answer that a handler produced and
   the buffer that drops it, against the records that were already written.
4. The station simulator as an environment of `OcppServer`, and what its runs
   leave behind.
