-------------------------- MODULE ServiceConfig --------------------------
(***************************************************************************)
(* How the six services get their settings: defaults, then the YAML file   *)
(* that CONFIG_FILE names, then environment variables, and the checks and  *)
(* accessors of each service's config package.                             *)
(*                                                                         *)
(* A source sets some fields: it is a function on those.  "" and " " are   *)
(* the texts that TrimSpace makes empty.  A port is the number it names,   *)
(* with or without a colon before it.  Left out: settings without check    *)
(* and without fallback (URLs of services, the Redis password and the      *)
(* Redis database number, which nothing reads).                            *)
(***************************************************************************)
EXTENDS Integers

CONSTANTS
    Junk,       \* a text that is no number, where one is expected
    Unreadable  \* a file that is missing, or no YAML of this shape

ASSUME JunkAssumption == Junk \notin Int

(* What Load starts from, and the fields without which it fails. *)
GatewayConfig ==
    [default |-> [port |-> "8080", secret |-> "", timeout |-> 5],
     required |-> {"secret"}, trims |-> TRUE]
AuthConfig ==
    [default |-> [port |-> "8080", dsn |-> "", secret |-> "", expires |-> 60],
     required |-> {"dsn", "secret"}, trims |-> FALSE]
DefaultTTL == 86400
DefaultRedisAddr == "localhost:6379"
SessionsConfig ==
    [default |-> [port |-> "8082", dsn |-> "", addr |-> DefaultRedisAddr,
                  ttl |-> DefaultTTL],
     required |-> {"dsn", "addr"}, trims |-> TRUE]
OcppConfig ==
    [default |-> [port |-> "8081", dsn |-> "", ping |-> 30, write |-> 15],
     required |-> {"dsn"}, trims |-> TRUE]
BillingConfig ==
    [default |-> [port |-> "8083", dsn |-> ""],
     required |-> {"dsn"}, trims |-> TRUE]
TelemetryConfig ==
    [default |-> [port |-> "8084", dsn |-> ""],
     required |-> {"dsn"}, trims |-> TRUE]

Config == [gateway |-> GatewayConfig, auth |-> AuthConfig,
           sessions |-> SessionsConfig, ocpp |-> OcppConfig,
           billing |-> BillingConfig, telemetry |-> TelemetryConfig]
Services == DOMAIN Config

Numbers == {"timeout", "expires", "ttl", "ping", "write"}

Blank(text) == text \in {"", " "}

-----------------------------------------------------------------------------

(* The fields that source sets replace those of base, also by "" or 0. *)
Override(base, source) ==
    [f \in DOMAIN base |-> IF f \in DOMAIN source THEN source[f] ELSE base[f]]

loadFromFile(base, file) == Override(base, file)

(* assign accepts the text of variable f. *)
assign(f, text) == f \in Numbers => text # Junk

(* Mutant: the file is read after the environment. *)
LoadConfigFileLast(base, file, env) ==
    IF file = Unreadable \/ \E f \in DOMAIN env : ~assign(f, env[f])
    THEN {} ELSE {loadFromFile(Override(base, env), file)}

(* LoadConfig, as the set of its results: none if it fails. *)
LoadConfig(base, file, env) ==
    IF file = Unreadable \/ \E f \in DOMAIN env : ~assign(f, env[f])
    THEN {} ELSE {Override(loadFromFile(base, file), env)}

(* Load: LoadConfig and the check of the required fields, which in
   auth-service does not trim. *)
Load(svc, file, env) ==
    {c \in LoadConfig(Config[svc].default, file, env) :
       \A f \in Config[svc].required :
         IF Config[svc].trims THEN ~Blank(c[f]) ELSE c[f] # ""}

(* HTTPAddress, and the accessors of the durations: a blank port and a
   number that is not positive are replaced by the default. *)
HTTPAddress(svc, c) ==
    IF Blank(c.port) THEN Config[svc].default.port ELSE c.port
Duration(svc, c, f) == IF c[f] <= 0 THEN Config[svc].default[f] ELSE c[f]

Settings(svc, c) ==
    [f \in DOMAIN c |-> CASE f = "port" -> HTTPAddress(svc, c)
                          [] f \in Numbers -> Duration(svc, c, f)
                          [] OTHER -> c[f]]

=============================================================================
