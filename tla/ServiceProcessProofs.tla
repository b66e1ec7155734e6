----------------------- MODULE ServiceProcessProofs -----------------------
(***************************************************************************)
(* What ServiceProcess promises, for any deployments, any number of        *)
(* requests and any faults: shutdown, types and stores, and the settings   *)
(* that a service serves with.                                             *)
(***************************************************************************)
EXTENDS ServiceProcess, FiniteSetTheorems, TLAPS

HandlerStates == {"idle", "busy", "socket", "refused", "cut"}

(* HTTP handlers work only while main serves or drains. *)
BusyInTime == \A h \in Handlers : handlers[h] = "busy" => Serving

(* A handler was cut off only by the end of the process, which was not a
   clean one; none was refused. *)
CutByExit ==
    \A h \in Handlers :
      /\ handlers[h] # "refused"
      /\ handlers[h] = "cut" => pc = "exited" /\ code # "ok"

(* The strengthening of NoRequestLost and SuccessWhenAsked that every step
   preserves. *)
ShutdownInv ==
    /\ handlers \in [Handlers -> HandlerStates]
    /\ BusyInTime
    /\ CutByExit
    /\ listener = "open" => pc = "serve"
    /\ Serving => open = AllStores
    /\ pc \in {"drain", "close"} => stopped
    /\ code = "ok" => stopped

(* The stores of a deployment do not change. *)
LEMMA StoresFixed == UNCHANGED dep => AllStores' = AllStores
  BY DEF AllStores, Stores

(* How handlers look after the process has ended: none is busy, and those
   that were are cut. *)
LEMMA ExitCuts ==
  ASSUME NEW why, Exit(why), handlers \in [Handlers -> HandlerStates]
  PROVE  /\ handlers' \in [Handlers -> HandlerStates]
         /\ \A h \in Handlers :
              /\ handlers'[h] # "busy"
              /\ handlers'[h] = "cut" => handlers[h] \in {"busy", "cut"}
              /\ handlers'[h] = "refused" => handlers[h] = "refused"
  BY DEF Exit, HandlerStates

(* An exit preserves the invariant if it is not one with success while
   handlers are at work. *)
LEMMA ExitKeepsInv ==
  ASSUME NEW why, Exit(why), ShutdownInv, pc # "exited", UNCHANGED stopped,
         why = "ok" => stopped /\ ~Serving
  PROVE  ShutdownInv'
  <1>1. handlers \in [Handlers -> HandlerStates]
    BY DEF ShutdownInv
  <1>2. /\ handlers' \in [Handlers -> HandlerStates]
        /\ \A h \in Handlers :
             /\ handlers'[h] # "busy"
             /\ handlers'[h] = "cut" => handlers[h] \in {"busy", "cut"}
             /\ handlers'[h] = "refused" => handlers[h] = "refused"
    BY <1>1, ExitCuts
  <1>3. pc' = "exited" /\ code' = why /\ listener' = "none"
    BY DEF Exit
  <1>4. CutByExit'
    BY <1>2, <1>3 DEF ShutdownInv, CutByExit, BusyInTime
  <1>5. BusyInTime' /\ ~Serving'
    BY <1>2, <1>3 DEF BusyInTime, Serving
  <1> QED
    BY <1>2, <1>3, <1>4, <1>5 DEF ShutdownInv

(* Every step of main preserves the invariant. *)
LEMMA MainKeepsInv ==
  ASSUME ShutdownInv, Main
  PROVE  ShutdownInv'
  <1> USE DEF around
  <1>1. UNCHANGED stopped /\ AllStores' = AllStores
    BY StoresFixed DEF Main
  <1>2. CASE Configure
    <2>1. CASE Exit("panic")
      BY <1>1, <1>2, <2>1, ExitKeepsInv DEF Configure
    <2>2. CASE pc' = "new" /\ UNCHANGED <<code, open, listener, handlers>>
      BY <1>1, <1>2, <2>2
         DEF Configure, ShutdownInv, BusyInTime, CutByExit, Serving
    <2> QED
      BY <1>2, <2>1, <2>2 DEF Configure
  <1>3. CASE OpenStore \/ NewFails
    BY <1>1, <1>3
       DEF OpenStore, NewFails, ShutdownInv, BusyInTime, CutByExit, Serving
  <1>4. CASE Run
    BY <1>1, <1>4
       DEF Run, ShutdownInv, BusyInTime, CutByExit, Serving
  <1>5. CASE Fatal \/ ListenError \/ DrainLimit
    BY <1>1, <1>5, ExitKeepsInv DEF Fatal, ListenError, DrainLimit
  <1>6. CASE Shutdown
    BY <1>1, <1>6
       DEF Shutdown, Busy, ShutdownInv, BusyInTime, CutByExit, Serving
  <1>7. CASE Drained
    <2>1. \A h \in Handlers : handlers[h] # "busy"
      BY <1>7 DEF Drained, Busy
    <2>2. stopped
      BY <1>7 DEF Drained, ShutdownInv
    <2> QED
      BY <1>1, <1>7, <2>1, <2>2
         DEF Drained, ShutdownInv, BusyInTime, CutByExit, Serving
  <1>8. CASE Close
    BY <1>1, <1>8
       DEF Close, ShutdownInv, BusyInTime, CutByExit, Serving
  <1>9. CASE Return
    BY <1>1, <1>9, ExitKeepsInv DEF Return, ShutdownInv, Serving
  <1> QED
    BY <1>2, <1>3, <1>4, <1>5, <1>6, <1>7, <1>8, <1>9 DEF Main

(* Every step of a handler preserves the invariant: it may begin only while
   main serves, and finds its stores open when it ends. *)
LEMMA HandlersKeepInv ==
  ASSUME ShutdownInv, NEW h \in Handlers,
         HandlerBegins(h) \/ HandlerEnds(h) \/ Upgrade(h) \/ SocketEnds(h)
  PROVE  ShutdownInv'
  <1>1. /\ UNCHANGED <<dep, stopped, pc, code, open, listener>>
        /\ AllStores' = AllStores
    BY StoresFixed
       DEF HandlerBegins, HandlerEnds, Upgrade, SocketEnds, Becomes, around
  <1>2. handlers[h] = "busy" => open = AllStores
    BY DEF ShutdownInv, BusyInTime
  <1>3. PICK state \in {"idle", "busy", "socket"} :
          /\ handlers' = [handlers EXCEPT ![h] = state]
          /\ state = "busy" => pc = "serve"
    BY <1>2
       DEF HandlerBegins, HandlerEnds, Upgrade, SocketEnds, Becomes, ShutdownInv
  <1> QED
    BY <1>1, <1>3
       DEF ShutdownInv, BusyInTime, CutByExit, Serving,
           HandlerStates

(* The rest: the listener, the operator, stores, crashes and restarts. *)
LEMMA AroundKeepsInv ==
  ASSUME ShutdownInv,
         \/ Listen \/ AcceptFails \/ Stop \/ Crash \/ Restart
         \/ \E s \in AllStores : StoreDown(s) \/ StoreUp(s)
         \/ UNCHANGED vars
  PROVE  ShutdownInv'
  <1>1. AllStores' = AllStores
    BY StoresFixed
       DEF Listen, AcceptFails, Stop, Crash, Restart, StoreDown, StoreUp, vars,
           around
  <1>2. CASE Listen
    BY <1>1, <1>2
       DEF Listen, ShutdownInv, BusyInTime, CutByExit, Serving
  <1>3. CASE AcceptFails
    BY <1>1, <1>3
       DEF AcceptFails, ShutdownInv, BusyInTime, CutByExit, Serving
  <1>4. CASE Stop
    BY <1>1, <1>4
       DEF Stop, ShutdownInv, BusyInTime, CutByExit, Serving
  <1>5. CASE Crash
    BY <1>5, ExitKeepsInv DEF Crash
  <1>6. CASE Restart
    BY <1>6
       DEF Restart, Started, ShutdownInv, BusyInTime, CutByExit, Serving, HandlerStates, around
  <1>7. CASE \E s \in AllStores : StoreDown(s) \/ StoreUp(s)
    BY <1>1, <1>7
       DEF StoreDown, StoreUp, ShutdownInv, BusyInTime, CutByExit, Serving
  <1>8. CASE UNCHANGED vars
    BY <1>1, <1>8
       DEF vars, ShutdownInv, BusyInTime, CutByExit, Serving
  <1> QED
    BY <1>2, <1>3, <1>4, <1>5, <1>6, <1>7, <1>8

(* Whatever is asked of a service, and whatever fails, Shutdown and Close
   take no HTTP request's stores away, a request that is cut off is not
   passed over with a clean exit, and a clean exit was asked for. *)
THEOREM ShutdownSafe == Spec => []NoRequestLost /\ []SuccessWhenAsked
  <1>1. Init => ShutdownInv
    BY DEF Init, Started, ShutdownInv, BusyInTime, CutByExit, Serving, HandlerStates
  <1>2. ShutdownInv /\ [Next]_vars => ShutdownInv'
    BY MainKeepsInv, HandlersKeepInv, AroundKeepsInv DEF Next
  <1>3. ShutdownInv => NoRequestLost /\ SuccessWhenAsked
    BY DEF ShutdownInv, CutByExit, NoRequestLost, SuccessWhenAsked
  <1> QED
    BY <1>1, <1>2, <1>3, PTL DEF Spec

-----------------------------------------------------------------------------
(* Types and stores. *)

(* The stores of the six services. *)
LEMMA StoresOfServices ==
  ASSUME dep.svc \in Services
  PROVE  \/ Stores = <<>> /\ AllStores = {}
         \/ Stores = <<"postgres">> /\ AllStores = {"postgres"}
         \/ Stores = <<"postgres", "redis">> /\ AllStores = {"postgres", "redis"}
  <1>1. \/ Stores = <<>> \/ Stores = <<"postgres">>
        \/ Stores = <<"postgres", "redis">>
    BY DEF Services, Config, Stores, App, GatewayApp, AuthApp, SessionsApp, OcppApp,
           BillingApp, TelemetryApp
  <1>2. CASE Stores = <<>>
    <2>1. Len(Stores) = 0
      BY <1>2
    <2> QED BY <1>2, <2>1 DEF AllStores
  <1>3. CASE Stores = <<"postgres">>
    <2>1. Len(Stores) = 1 /\ Stores[1] = "postgres"
      BY <1>3
    <2>2. AllStores = {"postgres"}
      BY <2>1 DEF AllStores
    <2> QED BY <1>3, <2>2
  <1>4. CASE Stores = <<"postgres", "redis">>
    <2>1. Len(Stores) = 2 /\ Stores[1] = "postgres" /\ Stores[2] = "redis"
      BY <1>4
    <2>2. \A i : i \in 1 .. Len(Stores) <=> i = 1 \/ i = 2
      BY <2>1
    <2>3. AllStores = {"postgres", "redis"}
      BY <2>1, <2>2 DEF AllStores
    <2> QED BY <1>4, <2>3
  <1> QED BY <1>1, <1>2, <1>3, <1>4

(* New opens stores of its service only. *)
LEMMA NextStoreOwn ==
  ASSUME dep.svc \in Services, open \subseteq AllStores, open # AllStores
  PROVE  NextStore \in AllStores
  <1>1. \A x : Cardinality({x}) = 1
    BY FS_Singleton
  <1>2. Cardinality({}) = 0
    BY FS_EmptySet
  <1>3. CASE Stores = <<"postgres">> /\ AllStores = {"postgres"}
    <2>1. open = {}
      BY <1>3
    <2> QED BY <1>2, <1>3, <2>1 DEF NextStore
  <1>4. CASE Stores = <<"postgres", "redis">> /\ AllStores = {"postgres", "redis"}
    <2>1. open \in {{}, {"postgres"}, {"redis"}}
      BY <1>4
    <2>2. Cardinality(open) + 1 \in {1, 2}
      BY <1>1, <1>2, <2>1
    <2> QED BY <1>4, <2>2 DEF NextStore
  <1> QED BY <1>3, <1>4, StoresOfServices

TypeInv == ProcessTypeOK /\ dep.svc \in Services /\ dep.faults \in Nat

(* The end of the process. *)
LEMMA ExitTyped ==
  ASSUME TypeInv, NEW why \in {"panic", "fatal", "killed", "ok"}, Exit(why),
         UNCHANGED <<dep, down, stopped>>, faults' \in 0 .. dep.faults
  PROVE  TypeInv'
  <1>1. AllStores' = AllStores
    BY StoresFixed
  <1>2. handlers \in [Handlers -> HandlerStates]
    BY DEF TypeInv, ProcessTypeOK, HandlerStates
  <1>3. handlers' \in [Handlers -> HandlerStates]
    BY <1>2, ExitCuts
  <1> QED
    BY <1>1, <1>3 DEF Exit, TypeInv, ProcessTypeOK, Serving, HandlerStates

(* Every step keeps the types, and all stores open while it serves. *)
LEMMA StepTyped ==
  ASSUME TypeInv, [Next]_vars
  PROVE  TypeInv'
  <1> USE DEF around
  <1>1. AllStores' = AllStores /\ UNCHANGED dep
    BY StoresFixed
       DEF Next, Main, Listen, AcceptFails, HandlerBegins, HandlerEnds, Upgrade,
           SocketEnds, Becomes, Stop, Crash, Restart, StoreDown, StoreUp, vars
  <1>2. faults \in 0 .. dep.faults /\ dep.faults \in Nat
    BY DEF TypeInv, ProcessTypeOK
  <1>3. ASSUME Main PROVE TypeInv'
    <2>1. UNCHANGED around
      BY <1>3 DEF Main
    <2>2. CASE Configure
      <3>1. CASE Exit("panic")
        BY <2>1, <3>1, <1>2, ExitTyped
      <3>2. CASE pc' = "new" /\ UNCHANGED <<code, open, listener, handlers>>
        BY <1>1, <2>1, <2>2, <3>2 DEF Configure, TypeInv, ProcessTypeOK, Serving
      <3> QED BY <2>2, <3>1, <3>2 DEF Configure
    <2>3. CASE OpenStore
      <3>1. open' \subseteq AllStores
        BY <2>3, NextStoreOwn DEF OpenStore, TypeInv, ProcessTypeOK
      <3> QED
        BY <1>1, <2>1, <2>3, <3>1 DEF OpenStore, TypeInv, ProcessTypeOK, Serving
    <2>4. CASE NewFails \/ Run \/ Shutdown \/ Drained
      BY <1>1, <2>1, <2>4
         DEF NewFails, Run, Shutdown, Drained, TypeInv, ProcessTypeOK, Serving
    <2>5. CASE Close
      BY <1>1, <2>1, <2>5 DEF Close, TypeInv, ProcessTypeOK, Serving
    <2>6. CASE Fatal \/ ListenError \/ DrainLimit \/ Return
      BY <1>2, <2>1, <2>6, ExitTyped DEF Fatal, ListenError, DrainLimit, Return
    <2> QED BY <1>3, <2>2, <2>3, <2>4, <2>5, <2>6 DEF Main
  <1>4. ASSUME Fault PROVE faults' \in 0 .. dep.faults
    BY <1>2, <1>4 DEF Fault
  <1>5. CASE Listen \/ AcceptFails
    BY <1>1, <1>4, <1>5 DEF Listen, AcceptFails, TypeInv, ProcessTypeOK, Serving
  <1>6. ASSUME NEW h \in Handlers,
               HandlerBegins(h) \/ HandlerEnds(h) \/ Upgrade(h) \/ SocketEnds(h)
        PROVE  TypeInv'
    <2>1. PICK state \in {"idle", "busy", "socket", "refused"} :
            /\ handlers' = [handlers EXCEPT ![h] = state]
            /\ UNCHANGED <<around, pc, code, cfg, open, listener>>
      BY <1>6 DEF HandlerBegins, HandlerEnds, Upgrade, SocketEnds, Becomes
    <2> QED BY <1>1, <2>1 DEF TypeInv, ProcessTypeOK, Serving
  <1>7. CASE Stop
    BY <1>1, <1>7 DEF Stop, TypeInv, ProcessTypeOK, Serving
  <1>8. CASE Crash
    BY <1>4, <1>8, ExitTyped DEF Crash
  <1>9. CASE Restart
    BY <1>1, <1>9 DEF Restart, Started, TypeInv, ProcessTypeOK, Serving
  <1>10. ASSUME NEW s \in AllStores, StoreDown(s) \/ StoreUp(s) PROVE TypeInv'
    BY <1>1, <1>4, <1>10 DEF StoreDown, StoreUp, TypeInv, ProcessTypeOK, Serving
  <1>11. CASE UNCHANGED vars
    BY <1>1, <1>11 DEF vars, TypeInv, ProcessTypeOK, Serving
  <1> QED
    BY <1>3, <1>5, <1>6, <1>7, <1>8, <1>9, <1>10, <1>11 DEF Next

(* The initial state is typed. *)
LEMMA InitTyped ==
  ASSUME Init
  PROVE  TypeInv
  <1>1. dep.svc \in Services /\ dep.faults \in Nat
    BY DeploymentsAssumption DEF Init
  <1>2. handlers = [h \in Handlers |-> "idle"]
    BY DEF Init, Started
  <1>3. /\ pc = "load" /\ code = "none" /\ listener = "none" /\ open = {}
        /\ faults = dep.faults /\ down = {} /\ stopped = FALSE
        /\ dep \in Deployments
    BY DEF Init, Started
  <1>4. faults \in 0 .. dep.faults
    BY <1>1, <1>3
  <1> QED BY <1>1, <1>2, <1>3, <1>4 DEF TypeInv, ProcessTypeOK, Serving

(* It holds in every reachable state. *)
LEMMA AlwaysTyped == Spec => []TypeInv
  <1>1. Init => TypeInv
    BY InitTyped
  <1>2. TypeInv /\ [Next]_vars => TypeInv'
    BY StepTyped
  <1> QED BY <1>1, <1>2, PTL DEF Spec

(* Whatever happens to a process, its variables keep their types, it opens
   no store but those of its service, and from Run until every HTTP handler has
   ended all of them are open. *)
THEOREM ProcessTyped == Spec => []ProcessTypeOK
  <1>1. TypeInv => ProcessTypeOK
    BY DEF TypeInv
  <1> QED BY <1>1, AlwaysTyped, PTL

-----------------------------------------------------------------------------
(* Settings. *)

(* What the configurations of the six services have in common. *)
LEMMA ConfigFacts ==
  ASSUME NEW svc \in Services
  PROVE  LET d == Config[svc].default
         IN  /\ \A f \in DOMAIN d :
                  /\ f \in Numbers => d[f] \in Int /\ d[f] > 0
                  /\ f \notin Numbers => f \in {"port", "dsn", "addr", "secret"}
             /\ "port" \in DOMAIN d => ~Blank(d.port)
             /\ "addr" \in DOMAIN d => /\ Config[svc].trims
                                       /\ "addr" \in Config[svc].required
             /\ "secret" \in DOMAIN d => "secret" \in Config[svc].required
             /\ "dsn" \in DOMAIN d =>
                  App[svc].stores \in {<<"postgres">>, <<"postgres", "redis">>}
  <1>1. CASE svc = "gateway"
    <2> DEFINE d == Config[svc].default
    <2>1. /\ DOMAIN d = {"port", "secret", "timeout"}
          /\ d.timeout = 5 /\ d.port = "8080"
          /\ Config[svc].required = {"secret"}
      BY <1>1 DEF Config, GatewayConfig
    <2>2. d["timeout"] = 5
      BY <2>1
    <2> QED BY <2>1, <2>2 DEF Numbers, Blank
  <1>2. CASE svc = "auth"
    <2> DEFINE d == Config[svc].default
    <2>1. /\ DOMAIN d = {"port", "dsn", "secret", "expires"}
          /\ d.expires = 60 /\ d.port = "8080"
          /\ Config[svc].required = {"dsn", "secret"}
          /\ App[svc].stores = <<"postgres">>
      BY <1>2 DEF Config, AuthConfig, App, AuthApp
    <2>2. d["expires"] = 60
      BY <2>1
    <2> QED BY <2>1, <2>2 DEF Numbers, Blank
  <1>3. CASE svc = "sessions"
    <2> DEFINE d == Config[svc].default
    <2>1. DOMAIN d = {"port", "dsn", "addr", "ttl"}
      BY <1>3 DEF Config, SessionsConfig
    <2>2. d["ttl"] = DefaultTTL
      BY <1>3 DEF Config, SessionsConfig
    <2>3. d.port = "8082"
      BY <1>3 DEF Config, SessionsConfig
    <2>4. Config[svc].required = {"dsn", "addr"} /\ Config[svc].trims
      BY <1>3 DEF Config, SessionsConfig
    <2>5. App[svc].stores = <<"postgres", "redis">>
      BY <1>3 DEF App, SessionsApp
    <2>6. DefaultTTL \in Int /\ DefaultTTL > 0
      BY DEF DefaultTTL
    <2> QED BY <2>1, <2>2, <2>3, <2>4, <2>5, <2>6 DEF Numbers, Blank
  <1>4. CASE svc = "ocpp"
    <2> DEFINE d == Config[svc].default
    <2>1. /\ DOMAIN d = {"port", "dsn", "ping", "write"}
          /\ d.ping = 30 /\ d.write = 15 /\ d.port = "8081"
          /\ Config[svc].required = {"dsn"}
          /\ App[svc].stores = <<"postgres">>
      BY <1>4 DEF Config, OcppConfig, App, OcppApp
    <2>2. d["ping"] = 30 /\ d["write"] = 15
      BY <2>1
    <2> QED BY <2>1, <2>2 DEF Numbers, Blank
  <1>5. CASE svc = "billing"
    BY <1>5 DEF Config, BillingConfig, Numbers, Blank, App, BillingApp
  <1>6. CASE svc = "telemetry"
    BY <1>6 DEF Config, TelemetryConfig, Numbers, Blank, App, TelemetryApp
  <1> QED BY <1>1, <1>2, <1>3, <1>4, <1>5, <1>6 DEF Services, Config

(* The settings s that Run takes over are what deployment d says. *)
AsDeployed(d, s) ==
    \A f \in DOMAIN s :
      /\ Usable(f, s[f]) \/ (f = "secret" /\ s[f] # "")
      /\ f \in DOMAIN d.env /\ Usable(f, d.env[f]) => s[f] = d.env[f]
      /\ f \notin DOMAIN d.env /\ f \in DOMAIN d.file /\ Usable(f, d.file[f]) =>
           s[f] = d.file[f]

(* What Load yields, read through the accessors, is what the deployment
   says, if the DSN was good enough for NewPostgresDB. *)
LEMMA LoadedAsDeployed ==
  ASSUME NEW d \in Deployments, NEW c \in Load(d.svc, d.file, d.env),
         "dsn" \in DOMAIN c => ~Blank(c.dsn)
  PROVE  AsDeployed(d, Settings(d.svc, c))
  <1> DEFINE base == Config[d.svc].default
             s == Settings(d.svc, c)
  <1>1. /\ d.svc \in Services
        /\ c = Override(Override(base, d.file), d.env)
        /\ d.file # Unreadable
        /\ \A f \in DOMAIN d.env : f \in Numbers => d.env[f] # Junk
        /\ \A f \in Config[d.svc].required :
             IF Config[d.svc].trims THEN ~Blank(c[f]) ELSE c[f] # ""
    BY DeploymentsAssumption DEF Load, LoadConfig, loadFromFile, assign
  <1>2. /\ \A f \in Numbers : f \in DOMAIN d.file => d.file[f] \in Int
        /\ \A f \in Numbers : f \in DOMAIN d.env => d.env[f] \in Int
    BY <1>1, DeploymentsAssumption
  <1>3. /\ DOMAIN c = DOMAIN base
        /\ \A f \in DOMAIN base :
             c[f] = IF f \in DOMAIN d.env THEN d.env[f]
                    ELSE IF f \in DOMAIN d.file THEN d.file[f] ELSE base[f]
    BY <1>1 DEF Override
  <1>4. DOMAIN s = DOMAIN base
    BY <1>3 DEF Settings
  <1> SUFFICES ASSUME NEW f \in DOMAIN base
               PROVE  /\ Usable(f, s[f]) \/ (f = "secret" /\ s[f] # "")
                      /\ f \in DOMAIN d.env /\ Usable(f, d.env[f]) => s[f] = d.env[f]
                      /\ f \notin DOMAIN d.env /\ f \in DOMAIN d.file
                         /\ Usable(f, d.file[f]) => s[f] = d.file[f]
    BY <1>4 DEF AsDeployed
  <1>5. CASE f \in Numbers
    <2>1. s[f] = IF c[f] <= 0 THEN base[f] ELSE c[f]
      BY <1>3, <1>5 DEF Settings, Duration, Numbers
    <2>2. base[f] \in Int /\ base[f] > 0
      BY <1>1, <1>5, ConfigFacts
    <2>3. c[f] \in Int
      BY <1>2, <1>3, <1>5, <2>2
    <2>4. Usable(f, s[f])
      BY <1>5, <2>1, <2>2, <2>3, JunkAssumption DEF Usable
    <2>5. \A v \in Int : v = c[f] /\ Usable(f, v) => s[f] = v
      BY <1>5, <2>1 DEF Usable
    <2>6. /\ f \in DOMAIN d.env => d.env[f] \in Int /\ d.env[f] = c[f]
          /\ f \notin DOMAIN d.env /\ f \in DOMAIN d.file =>
               d.file[f] \in Int /\ d.file[f] = c[f]
      BY <1>2, <1>3, <1>5
    <2> HIDE DEF s, base
    <2> QED BY <2>4, <2>5, <2>6
  <1>6. CASE f = "port"
    <2>1. s[f] = (IF Blank(c.port) THEN base.port ELSE c.port) /\ f \notin Numbers
      BY <1>3, <1>6 DEF Settings, HTTPAddress, Numbers
    <2>2. ~Blank(base.port)
      BY <1>1, <1>6, ConfigFacts
    <2>3. \A v : Usable(f, v) <=> ~Blank(v)
      BY <2>1 DEF Usable
    <2> HIDE DEF s, base
    <2> QED BY <1>3, <1>6, <2>1, <2>2, <2>3
  <1>7. CASE f \in {"dsn", "addr", "secret"}
    <2>1. s[f] = c[f] /\ f \notin Numbers
      BY <1>3, <1>7 DEF Settings, Numbers
    <2>2. \A v : Usable(f, v) <=> ~Blank(v)
      BY <2>1 DEF Usable
    <2>3. f = "addr" => ~Blank(c[f])
      BY <1>1, ConfigFacts
    <2>4. f = "secret" => c[f] # ""
      BY <1>1, ConfigFacts DEF Blank
    <2>5. f = "dsn" => ~Blank(c[f])
      BY <1>3
    <2> HIDE DEF s, base
    <2> QED BY <1>3, <1>7, <2>1, <2>2, <2>3, <2>4, <2>5
  <1> QED BY <1>1, <1>5, <1>6, <1>7, ConfigFacts

(* Until New returns, the settings are what Load yielded, and PostgreSQL is
   open only if they name one; from then on they are as deployed. *)
LoadedInv ==
    /\ pc = "load" => open = {}
    /\ pc = "new" => /\ cfg \in Load(dep.svc, dep.file, dep.env)
                     /\ "postgres" \in open /\ "dsn" \in DOMAIN cfg => ~Blank(cfg.dsn)
    /\ Serving => AsDeployed(dep, cfg)

(* Every step keeps that. *)
LEMMA StepKeepsSettings ==
  ASSUME TypeInv, LoadedInv, [Next]_vars
  PROVE  LoadedInv'
  <1> USE DEF around
  <1>1. CASE /\ UNCHANGED <<dep, cfg>> /\ pc' \notin {"load", "new"}
             /\ Serving' => Serving
    BY <1>1 DEF LoadedInv
  <1>2. CASE UNCHANGED <<dep, cfg, pc, open>>
    BY <1>2 DEF LoadedInv, Serving
  <1>3. CASE Main
    <2>1. UNCHANGED dep
      BY <1>3 DEF Main
    <2>2. CASE Configure
      <3>1. CASE Exit("panic")
        BY <3>1, <2>1, <1>1 DEF Exit, Serving
      <3>2. CASE /\ cfg' \in Load(dep.svc, dep.file, dep.env)
                 /\ pc' = "new" /\ UNCHANGED open
        <4>1. open = {}
          BY <2>2 DEF Configure, LoadedInv
        <4> QED BY <2>1, <3>2, <4>1 DEF LoadedInv, Serving
      <3> QED BY <2>2, <3>1, <3>2 DEF Configure
    <2>3. CASE OpenStore
      <3>1. "postgres" \in open' => "postgres" \in open \/ ~Blank(cfg.dsn)
        BY <2>3 DEF OpenStore, Opens, NewPostgresDB
      <3> QED BY <2>1, <2>3, <3>1 DEF OpenStore, LoadedInv, Serving
    <2>4. CASE Run
      <3>1. /\ cfg \in Load(dep.svc, dep.file, dep.env)
            /\ cfg' = Settings(dep.svc, cfg) /\ pc' = "serve"
            /\ dep \in Deployments
        BY <2>4 DEF Run, LoadedInv, TypeInv, ProcessTypeOK
      <3>2. "dsn" \in DOMAIN cfg => "postgres" \in AllStores
        <4>1. DOMAIN cfg = DOMAIN Config[dep.svc].default
          BY <3>1 DEF Load, LoadConfig, loadFromFile, Override
        <4>2. "dsn" \in DOMAIN cfg => Stores \in {<<"postgres">>, <<"postgres", "redis">>}
          BY <4>1, ConfigFacts DEF TypeInv, Stores
        <4>3. Stores \in {<<"postgres">>, <<"postgres", "redis">>} => Stores # <<>>
          OBVIOUS
        <4> QED BY <4>2, <4>3, StoresOfServices DEF TypeInv
      <3>3. "dsn" \in DOMAIN cfg => ~Blank(cfg.dsn)
        BY <2>4, <3>2 DEF Run, LoadedInv
      <3>4. AsDeployed(dep, Settings(dep.svc, cfg))
        BY <3>1, <3>3, LoadedAsDeployed
      <3> QED BY <2>1, <3>1, <3>4 DEF LoadedInv, AsDeployed
    <2>5. CASE NewFails \/ Fatal \/ Shutdown \/ ListenError \/ Drained \/ DrainLimit
               \/ Close \/ Return
      BY <1>1, <2>1, <2>5
         DEF NewFails, Fatal, Shutdown, ListenError, Drained, DrainLimit, Close, Return,
             Exit, Serving
    <2> QED BY <1>3, <2>2, <2>3, <2>4, <2>5 DEF Main
  <1>4. CASE Listen \/ AcceptFails \/ Stop
    BY <1>2, <1>4 DEF Listen, AcceptFails, Stop
  <1>5. ASSUME NEW h \in Handlers,
               HandlerBegins(h) \/ HandlerEnds(h) \/ Upgrade(h) \/ SocketEnds(h)
        PROVE  LoadedInv'
    BY <1>2, <1>5 DEF HandlerBegins, HandlerEnds, Upgrade, SocketEnds, Becomes
  <1>6. CASE Crash
    BY <1>1, <1>6 DEF Crash, Exit, Serving
  <1>7. CASE Restart
    BY <1>7 DEF Restart, Started, LoadedInv, Serving
  <1>8. ASSUME NEW s \in AllStores, StoreDown(s) \/ StoreUp(s) PROVE LoadedInv'
    BY <1>2, <1>8 DEF StoreDown, StoreUp
  <1>9. CASE UNCHANGED vars
    BY <1>2, <1>9 DEF vars
  <1> QED
    BY <1>3, <1>4, <1>5, <1>6, <1>7, <1>8, <1>9 DEF Next

(* For any file and environment a service that serves does so with the
   settings that they say, and with usable ones where they say none: the one
   source that Load does not check itself, a DSN of blanks, is refused when
   the database is opened. *)
THEOREM SettingsAsDeployed == Spec => []SettingsInForce
  <1>1. Init => LoadedInv
    BY DEF Init, Started, LoadedInv, Serving
  <1>2. TypeInv /\ LoadedInv /\ [Next]_vars => LoadedInv'
    BY StepKeepsSettings
  <1>3. LoadedInv => SettingsInForce
    BY DEF LoadedInv, SettingsInForce, AsDeployed
  <1> QED BY <1>1, <1>2, <1>3, AlwaysTyped, PTL DEF Spec

=============================================================================
