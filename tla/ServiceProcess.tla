-------------------------- MODULE ServiceProcess --------------------------
(***************************************************************************)
(* The life of one service's process, from main to its exit: the settings, *)
(* the stores that New opens, the listener, the requests being handled,    *)
(* the signal that ends it, and the supervisor that starts it again        *)
(* (docker-compose.dev.yml: restart unless-stopped).                       *)
(*                                                                         *)
(* The six services differ in their settings, their stores and in what     *)
(* becomes of a request: the WebSockets of ocpp-server are hijacked, which *)
(* http.Server then neither waits for nor closes.                          *)
(***************************************************************************)
EXTENDS ServiceConfig, Sequences, FiniteSets

CONSTANTS
    Deployments,    \* bound: what is started, with which sources
    Handlers        \* bound: requests at a time

(* The stores in the order in which New opens and Close closes them. *)
GatewayApp == [stores |-> <<>>, hijacks |-> FALSE]
AuthApp == [stores |-> <<"postgres">>, hijacks |-> FALSE]
SessionsApp == [stores |-> <<"postgres", "redis">>, hijacks |-> FALSE]
OcppApp == [stores |-> <<"postgres">>, hijacks |-> TRUE]
BillingApp == [stores |-> <<"postgres">>, hijacks |-> FALSE]
TelemetryApp == [stores |-> <<"postgres">>, hijacks |-> FALSE]

App == [gateway |-> GatewayApp, auth |-> AuthApp, sessions |-> SessionsApp,
        ocpp |-> OcppApp, billing |-> BillingApp, telemetry |-> TelemetryApp]

(* A deployment: a service, its sources and the number of faults.  A file in
   which a number is no number is Unreadable; the environment is all text. *)
ASSUME DeploymentsAssumption ==
    \A d \in Deployments :
      /\ d.svc \in Services /\ d.faults \in Nat
      /\ d.file = Unreadable
         \/ /\ DOMAIN d.file \subseteq DOMAIN Config[d.svc].default
            /\ \A f \in Numbers \cap DOMAIN d.file : d.file[f] \in Int
      /\ DOMAIN d.env \subseteq DOMAIN Config[d.svc].default
      /\ \A f \in Numbers \cap DOMAIN d.env : d.env[f] \in Int \cup {Junk}

VARIABLES
    dep,        \* the deployment of this behaviour
    faults,     \* the faults that may still happen
    down,       \* the stores that cannot be reached
    stopped,    \* the operator has asked the service to stop: SIGTERM
    pc,         \* where main is
    code,       \* how the process ended
    cfg,        \* its settings
    open,       \* the stores it holds open
    listener,   \* the goroutine of ListenAndServe
    handlers    \* the requests

vars == <<dep, faults, down, stopped, pc, code, cfg, open, listener, handlers>>
around == <<dep, faults, down, stopped>>

Stores == App[dep.svc].stores
AllStores == {Stores[i] : i \in 1 .. Len(Stores)}

Started ==
    [pc |-> "load", code |-> "none", cfg |-> <<>>, open |-> {},
     listener |-> "none", handlers |-> [h \in Handlers |-> "idle"]]

Init ==
    /\ dep \in Deployments
    /\ faults = dep.faults
    /\ down = {}
    /\ stopped = FALSE
    /\ pc = Started.pc /\ code = Started.code /\ cfg = Started.cfg
    /\ open = Started.open /\ listener = Started.listener
    /\ handlers = Started.handlers

-----------------------------------------------------------------------------
(* main.  None of its steps changes what is around the process. *)

(* The process ends and its connections with it, in whatever state. *)
Exit(why) ==
    /\ pc' = "exited"
    /\ code' = why
    /\ open' = {}
    /\ listener' = "none"
    /\ handlers' = [h \in Handlers |->
                      CASE handlers[h] = "busy" -> "cut"
                        [] handlers[h] = "socket" -> "idle"
                        [] OTHER -> handlers[h]]
    /\ UNCHANGED cfg

(* config.Load, and panic if it fails. *)
Configure ==
    /\ pc = "load"
    /\ LET loaded == Load(dep.svc, dep.file, dep.env)
       IN  \/ loaded = {} /\ Exit("panic")
           \/ /\ cfg' \in loaded
              /\ pc' = "new"
              /\ UNCHANGED <<code, open, listener, handlers>>

(* NewPostgresDB and NewRedisClient refuse a blank address, and fail if the
   first ping does. *)
NewPostgresDB == ~Blank(cfg.dsn) /\ "postgres" \notin down
NewRedisClient == ~Blank(cfg.addr) /\ "redis" \notin down

(* The next store that New opens. *)
NextStore == Stores[Cardinality(open) + 1]
Opens(s) == IF s = "postgres" THEN NewPostgresDB ELSE NewRedisClient

OpenStore ==
    /\ pc = "new" /\ open # AllStores
    /\ Opens(NextStore)
    /\ open' = open \cup {NextStore}
    /\ UNCHANGED <<pc, code, cfg, listener, handlers>>

(* New fails, and has closed what it had opened. *)
NewFails ==
    /\ pc = "new" /\ open # AllStores
    /\ ~Opens(NextStore)
    /\ open' = {}
    /\ pc' = "failed"
    /\ UNCHANGED <<code, cfg, listener, handlers>>

(* New returns the application with the settings that it has read through
   their accessors, and Run starts the goroutine of the listener. *)
Run ==
    /\ pc = "new" /\ open = AllStores
    /\ cfg' = Settings(dep.svc, cfg)
    /\ pc' = "serve"
    /\ listener' = "starting"
    /\ UNCHANGED <<code, open, handlers>>

(* Mutants of Fatal: the error is only logged, and main goes on; the process
   stays, for the log to be read. *)
FatalLogs ==
    /\ pc = "failed"
    /\ pc' = "serve"
    /\ listener' = "starting"
    /\ UNCHANGED <<code, cfg, open, handlers>>
FatalStays == pc = "failed" /\ UNCHANGED vars

(* logger.Fatal after a failed New. *)
Fatal == pc = "failed" /\ Exit("fatal")

Busy == {h \in Handlers : handlers[h] = "busy"}

(* select in Run, case ctx.Done: Shutdown closes the listener, and returns
   at once if nothing is being handled. *)
Shutdown ==
    /\ pc = "serve" /\ stopped
    /\ pc' = IF Busy = {} THEN "close" ELSE "drain"
    /\ listener' = IF listener = "open" THEN "closed" ELSE listener
    /\ UNCHANGED <<code, cfg, open, handlers>>

(* Mutant: a listener that failed is the end of Run, not an error. *)
ListenErrorIgnored ==
    /\ pc = "serve" /\ listener = "failed"
    /\ pc' = "close"
    /\ UNCHANGED <<code, cfg, open, listener, handlers>>

(* select in Run, case errCh: Run returns the error, and main ends with
   Fatal, which skips the deferred Close.  Of two cases that are ready
   select takes either. *)
ListenError ==
    /\ pc = "serve" /\ listener = "failed"
    /\ Exit("fatal")

(* Mutant: Shutdown does not wait. *)
DrainedEarly ==
    /\ pc = "drain"
    /\ pc' = "close"
    /\ UNCHANGED <<code, cfg, open, listener, handlers>>

(* Shutdown polls until nothing is being handled. *)
Drained ==
    /\ pc = "drain" /\ Busy = {}
    /\ pc' = "close"
    /\ UNCHANGED <<code, cfg, open, listener, handlers>>

(* Mutant: Shutdown with a context that has no deadline. *)
DrainLimitNone == FALSE /\ UNCHANGED vars

(* The ten seconds of Shutdown are over, maybe before it polled again: its
   error ends main with Fatal. *)
DrainLimit == pc = "drain" /\ Exit("fatal")

(* The deferred Close, one store after the other, and the end of main. *)
Close ==
    /\ pc = "close" /\ open # {}
    /\ open' = open \ {Stores[Len(Stores) - Cardinality(open) + 1]}
    /\ UNCHANGED <<pc, code, cfg, listener, handlers>>
Return == pc = "close" /\ open = {} /\ Exit("ok")

Main ==
    /\ \/ Configure \/ OpenStore \/ NewFails \/ Run \/ Fatal
       \/ Shutdown \/ ListenError \/ Drained \/ DrainLimit
       \/ Close \/ Return
    /\ UNCHANGED around

-----------------------------------------------------------------------------
(* The HTTP server and its handlers. *)

Fault == faults > 0 /\ faults' = faults - 1

(* ListenAndServe: it gets the port, or not; after Shutdown it returns. *)
Listen ==
    /\ listener = "starting"
    /\ \/ /\ pc = "serve"
          /\ listener' = "open"
          /\ UNCHANGED faults
       \/ /\ pc = "serve" /\ Fault
          /\ listener' = "failed"
       \/ /\ pc # "serve"
          /\ listener' = "closed"
          /\ UNCHANGED faults
    /\ UNCHANGED <<dep, down, stopped, pc, code, cfg, open, handlers>>

(* Accept fails for good. *)
AcceptFails ==
    /\ listener = "open" /\ Fault
    /\ listener' = "failed"
    /\ UNCHANGED <<dep, down, stopped, pc, code, cfg, open, handlers>>

Becomes(h, state) ==
    /\ handlers' = [handlers EXCEPT ![h] = state]
    /\ UNCHANGED <<around, pc, code, cfg, open, listener>>

HandlerBegins(h) ==
    listener = "open" /\ handlers[h] = "idle" /\ Becomes(h, "busy")

(* The handler answers; with a closed pool it can only refuse.  A store that
   is down makes an answer too. *)
HandlerEnds(h) ==
    /\ handlers[h] = "busy"
    /\ Becomes(h, IF open = AllStores THEN "idle" ELSE "refused")

(* HandleWS takes the connection over from http.Server. *)
Upgrade(h) ==
    App[dep.svc].hijacks /\ handlers[h] = "busy" /\ Becomes(h, "socket")

SocketEnds(h) == handlers[h] = "socket" /\ Becomes(h, "idle")

-----------------------------------------------------------------------------
(* Around the process. *)

Stop ==
    /\ ~stopped
    /\ stopped' = TRUE
    /\ UNCHANGED <<dep, faults, down, pc, code, cfg, open, listener, handlers>>

(* The process is killed, or a panic ends it. *)
Crash ==
    /\ pc # "exited" /\ Fault
    /\ Exit("killed")
    /\ UNCHANGED <<dep, down, stopped>>

StoreDown(s) ==
    /\ s \notin down /\ Fault
    /\ down' = down \cup {s}
    /\ UNCHANGED <<dep, stopped, pc, code, cfg, open, listener, handlers>>
StoreUp(s) ==
    /\ s \in down
    /\ down' = down \ {s}
    /\ UNCHANGED <<dep, faults, stopped, pc, code, cfg, open, listener,
                   handlers>>

(* restart: unless-stopped. *)
Restart ==
    /\ pc = "exited" /\ ~stopped
    /\ pc' = Started.pc /\ code' = Started.code /\ cfg' = Started.cfg
    /\ open' = Started.open /\ listener' = Started.listener
    /\ handlers' = Started.handlers
    /\ UNCHANGED around

Next ==
    \/ Main
    \/ Listen \/ AcceptFails
    \/ \E h \in Handlers :
         HandlerBegins(h) \/ HandlerEnds(h) \/ Upgrade(h) \/ SocketEnds(h)
    \/ Stop \/ Crash \/ Restart
    \/ \E s \in AllStores : StoreDown(s) \/ StoreUp(s)

Spec == Init /\ [][Next]_vars

(* main and the listener's goroutine run; every call of main has a time
   limit.  A store that is down comes back, and the supervisor restarts.
   Nothing is assumed of the handlers. *)
FairSpec ==
    /\ Spec
    /\ WF_vars(Main) /\ WF_vars(Listen) /\ WF_vars(Restart)
    /\ \A s \in {"postgres", "redis"} : WF_vars(StoreUp(s))

-----------------------------------------------------------------------------
(* Properties. *)

Serving == pc \in {"serve", "drain"}

(* Every variable has its type; and from Run until every HTTP handler has
   ended the process holds all its stores open, so main never goes on after
   a New that failed. *)
ProcessTypeOK ==
    /\ dep \in Deployments /\ faults \in 0 .. dep.faults
    /\ down \subseteq AllStores /\ open \subseteq AllStores
    /\ stopped \in BOOLEAN
    /\ pc \in {"load", "new", "failed", "serve", "drain", "close", "exited"}
    /\ code \in {"none", "panic", "fatal", "killed", "ok"}
    /\ listener \in {"none", "starting", "open", "failed", "closed"}
    /\ handlers \in [Handlers -> {"idle", "busy", "socket", "refused", "cut"}]
    /\ pc = "exited" <=> code # "none"
    /\ Serving => open = AllStores

(* A shutdown loses no HTTP request silently: none meets a pool that was
   closed under it, and if one is cut off the process does not end as if all
   was well. *)
NoRequestLost ==
    \A h \in Handlers :
      handlers[h] # "refused" /\ (handlers[h] = "cut" => code # "ok")

(* A process ends with success only if it was asked to end, even if the
   listener failed at the same moment. *)
SuccessWhenAsked == code = "ok" => stopped

Usable(f, value) ==
    IF f \in Numbers THEN value # Junk /\ value > 0 ELSE ~Blank(value)

(* A service that serves has usable settings: the environment's where that
   has a usable one, the file's where the environment has none, and no time
   limit, port or address that is empty, whichever source an empty one comes
   from.  (A JWT secret of blanks is accepted by auth-service.) *)
SettingsInForce ==
    Serving =>
      \A f \in DOMAIN cfg :
        /\ Usable(f, cfg[f]) \/ (f = "secret" /\ cfg[f] # "")
        /\ f \in DOMAIN dep.env /\ Usable(f, dep.env[f]) =>
             cfg[f] = dep.env[f]
        /\ f \notin DOMAIN dep.env /\ f \in DOMAIN dep.file
           /\ Usable(f, dep.file[f]) =>
             cfg[f] = dep.file[f]

(* A service that is asked to stop ends for good, although handlers may hang
   and whenever the request comes, also before Run. *)
StopEnds == stopped ~> [](pc = "exited")

(* A service whose settings are usable comes to serve, again and again,
   although a store was down when it started, the port was taken or it died:
   every failed start ends the process, so that it is started anew. *)
ServesAgain ==
    (\E c \in Load(dep.svc, dep.file, dep.env) :
       "dsn" \in DOMAIN c => ~Blank(c.dsn))
    => []<>(listener = "open" \/ stopped)

=============================================================================
