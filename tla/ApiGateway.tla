--------------------------- MODULE ApiGateway ---------------------------
(***************************************************************************)
(* api-gateway between its clients and the services behind it: the token   *)
(* check, the proxied calls and their time limit, composed with            *)
(* auth-service and the read side of sessions-service and billing-service. *)
(*                                                                         *)
(* A client has one request under way and keeps the token of its last      *)
(* login.  The gateway and auth-service are given the same secret, so a    *)
(* token is what GenerateToken put into it and whether it has expired.     *)
(***************************************************************************)
EXTENDS AuthService, UserHistory

CONSTANTS
    Clients,    \* the users' apps
    Loads,      \* bound: what may be going on in one behaviour
    Exact       \* integers up to here are exact as float64 (2^53)

AllRoutes == {"signup", "login", "sessions", "billing", "stations"}

(* A load: the clients there are, the routes they use, the credentials they
   type, the keys drawn for accounts, the writes to the histories, and
   whether services fail. *)
Load == [clients : SUBSET Clients, routes : SUBSET AllRoutes,
         typed : SUBSET [email : Email, password : Password],
         ids : Nat, writes : Nat, outages : BOOLEAN]

ASSUME GatewayAssumption ==
    /\ Loads \subseteq Load
    /\ Exact \in Nat
    /\ \A l \in Loads : l.ids <= Exact

VARIABLES
    greqs,      \* the gateway's requests, by client
    held,       \* the token that a client holds
    load        \* the load of this behaviour

gatewayVars == <<greqs, held, load>>
vars == <<authVars, historyVars, gatewayVars>>

Token == [user : Nat, live : BOOLEAN]
NoToken == [user |-> 0, live |-> FALSE]

(* known is what the tables held when the request arrived: for a login the
   accounts it fits, for a history all rows. *)
GReq == [pc : {"free", "wait", "done"}, route : AllRoutes,
         email : Email, password : Password, user : Nat,
         up : Slots \cup {None}, status : Nat, rows : SUBSET HRow,
         known : (SUBSET User) \cup (SUBSET HRow)]

FreeGReq == [pc |-> "free", route |-> "stations", email |-> NoEmail,
             password |-> NoPassword, user |-> 0, up |-> None,
             status |-> 0, rows |-> {}, known |-> {}]

Init ==
    /\ AuthInit
    /\ HistoryInit
    /\ greqs = [c \in Clients |-> FreeGReq]
    /\ held = [c \in Clients |-> NoToken]
    /\ load \in Loads

-----------------------------------------------------------------------------
(* The gateway. *)

(* A JSON number becomes a float64, and that an int64: an odd number beyond
   Exact is rounded to its neighbour that four divides. *)
Float64(n) ==
    IF n <= Exact \/ n % 2 = 0 THEN n ELSE IF n % 4 = 1 THEN n - 1 ELSE n + 1

(* extractUserID. *)
ExtractUserID(token) == Float64(token.user)

(* The routes behind AuthMiddleware. *)
Private == {"sessions", "billing"}

(* The handler of client c's request ends with a status and a body. *)
Done(c, status, user, rows) ==
    greqs' = [greqs EXCEPT ![c].pc = "done", ![c].status = status,
                           ![c].user = user, ![c].rows = rows,
                           ![c].up = None]

(* The accounts that the credentials fit, however they were typed. *)
Fitting(email, password) ==
    {u \in users : u.email.text = email.text /\ u.hash = password.text}

(* The request of client c is with the gateway, which has called a service
   (slot s) or answers at once (a status). *)
Asked(c, route, typed, s, status) ==
    /\ greqs[c].pc = "free"
    /\ greqs' = [greqs EXCEPT ![c] =
         [pc |-> IF status = 0 THEN "wait" ELSE "done", route |-> route,
          email |-> typed.email, password |-> typed.password,
          user |-> IF route \in Private THEN ExtractUserID(held[c]) ELSE 0,
          up |-> s, status |-> status, rows |-> {},
          known |-> CASE route = "login" -> Fitting(typed.email, typed.password)
                      [] route \in Private -> Table(route)
                      [] OTHER -> {}]]
    /\ UNCHANGED <<held, load>>

(* The service's answer is passed on as it is (writeRaw); a connection that
   broke before it is a 502. *)
GwReturn(c, status, user, rows) ==
    /\ greqs[c].pc = "wait"
    /\ IF status = 0 THEN Done(c, 502, 0, {}) ELSE Done(c, status, user, rows)
    /\ UNCHANGED <<held, load>>

(* BaseClient.Do fails: 502. *)
GwFails(c) ==
    /\ greqs[c].pc = "wait"
    /\ Done(c, 502, 0, {})
    /\ UNCHANGED <<held, load>>

-----------------------------------------------------------------------------
(* The client's side. *)

(* The answer arrives.  A client keeps the token of its latest login, if it
   is one of those that use it. *)
ClientReads(c) ==
    /\ greqs[c].pc = "done"
    /\ held' = IF /\ greqs[c].route = "login" /\ greqs[c].status = 200
                  /\ load.routes \cap Private # {}
               THEN [held EXCEPT ![c] = [user |-> greqs[c].user, live |-> TRUE]]
               ELSE held
    /\ greqs' = [greqs EXCEPT ![c] = FreeGReq]
    /\ UNCHANGED <<load, authVars, historyVars>>

(* exp has passed. *)
TokenExpires(c) ==
    /\ held[c].live
    /\ held' = [held EXCEPT ![c].live = FALSE]
    /\ UNCHANGED <<greqs, load, authVars, historyVars>>

-----------------------------------------------------------------------------
(* The composition. *)

PendingSignups ==
    {s \in Slots : areqs[s].kind = "signup" /\ areqs[s].pc \in {"recv", "checked"}}

Nothing == [email |-> NoEmail, password |-> NoPassword]

(* AuthMiddleware: no token, or one that has expired. *)
Unauthorized(c, route) ==
    /\ route \in Private /\ ~held[c].live
    /\ Asked(c, route, Nothing, None, 401)
    /\ UNCHANGED <<authVars, historyVars>>

(* AuthHandlers and AuthClient: the body is read and passed on. *)
AuthCall(c, route, typed, s) ==
    /\ route \in {"signup", "login"}
    /\ route = "signup" => nextUser + Cardinality(PendingSignups) <= load.ids
    /\ Asked(c, route, typed, s, 0)
    /\ AuthReceive(s, route, typed.email, typed.password)
    /\ UNCHANGED historyVars

(* Me and TransactionsMe behind AuthMiddleware, with SessionsClient and
   BillingClient: the user's id goes into X-User-ID. *)
HistoryCall(c, route, s) ==
    /\ route \in Private /\ held[c].live
    /\ Asked(c, route, Nothing, s, 0)
    /\ HistReceive(s, route, ExtractUserID(held[c]))
    /\ UNCHANGED authVars

(* StationsHandlers and StationsClient: what answers there is not part of
   the repository. *)
StationsCall(c, route) ==
    /\ route = "stations"
    /\ Asked(c, route, Nothing, None, 0)
    /\ UNCHANGED <<authVars, historyVars>>

(* The service cannot be reached. *)
Unreachable(c, route) ==
    /\ load.outages
    /\ route \in Private => held[c].live
    /\ Asked(c, route, Nothing, None, 502)
    /\ UNCHANGED <<authVars, historyVars>>

(* NewRouter: a client asks for one of the routes. *)
ClientAsks(c) ==
    /\ c \in load.clients
    /\ \E route \in load.routes :
         \/ Unauthorized(c, route)
         \/ Unreachable(c, route)
         \/ StationsCall(c, route)
         \/ \E s \in Slots : \/ HistoryCall(c, route, s)
                             \/ \E t \in load.typed : AuthCall(c, route, t, s)

AuthReturns(c) ==
    LET s == greqs[c].up
    IN  /\ greqs[c].route \notin Private /\ s \in Slots
        /\ AuthReply(s)
        /\ GwReturn(c, areqs[s].status, areqs[s].user, {})
        /\ UNCHANGED historyVars

HistoryReturns(c) ==
    LET s == greqs[c].up
    IN  /\ greqs[c].route \in Private /\ s \in Slots
        /\ HistReply(s)
        /\ GwReturn(c, hreqs[s].status, greqs[c].user, hreqs[s].rows)
        /\ UNCHANGED authVars

StationsReturns(c) ==
    /\ greqs[c].route = "stations"
    /\ GwReturn(c, 200, 0, {})
    /\ UNCHANGED <<authVars, historyVars>>

(* The call of client c's request, where it is under way, is given up. *)
DropCall(c) ==
    LET s == greqs[c].up
    IN  \/ /\ s = None
           /\ UNCHANGED <<authVars, historyVars>>
        \/ /\ s \in Slots /\ greqs[c].route \notin Private
           /\ AuthAbandon(s)
           /\ UNCHANGED historyVars
        \/ /\ s \in Slots /\ greqs[c].route \in Private
           /\ HistAbandon(s)
           /\ UNCHANGED authVars

(* Mutant: the HTTP client has no time limit. *)
GwTimeoutNever(c) == FALSE /\ UNCHANGED vars

(* The time limit of the HTTP client; config.go makes it positive. *)
GwTimeout(c) == GwFails(c) /\ DropCall(c)

(* The client goes away: the context of its request is cancelled, which
   ends the gateway's call too, and nobody reads the answer. *)
ClientLeaves(c) ==
    /\ greqs[c].pc = "wait"
    /\ DropCall(c)
    /\ greqs' = [greqs EXCEPT ![c] = FreeGReq]
    /\ UNCHANGED <<held, load>>

AuthWorks(s) == AuthStep(s) /\ UNCHANGED <<gatewayVars, historyVars>>
HistoryWorks(s) == HistStep(s) /\ UNCHANGED <<gatewayVars, authVars>>

StationsCharge ==
    /\ clock < load.writes
    /\ \/ \E user \in Senders, at \in {0, clock + 1} : SessionStarted(user, at)
       \/ SessionStopped
       \/ \E user \in Senders : SessionBilled(user)
    /\ UNCHANGED <<gatewayVars, authVars>>

ServiceDies ==
    /\ load.outages
    /\ \/ AuthCrash /\ UNCHANGED historyVars
       \/ HistCrash /\ UNCHANGED authVars
    /\ UNCHANGED gatewayVars

Next ==
    \/ \E c \in Clients :
         \/ ClientAsks(c) \/ ClientReads(c) \/ ClientLeaves(c)
         \/ TokenExpires(c)
         \/ AuthReturns(c) \/ HistoryReturns(c) \/ StationsReturns(c)
         \/ GwTimeout(c)
    \/ \E s \in Slots : AuthWorks(s) \/ HistoryWorks(s)
    \/ StationsCharge
    \/ ServiceDies

Spec == Init /\ [][Next]_vars

(* The time limit runs whatever the services do, and the answer that the
   handler then writes is read.  Nothing is assumed of the services. *)
FairSpec ==
    Spec /\ \A c \in Clients : WF_vars(GwTimeout(c)) /\ WF_vars(ClientReads(c))

-----------------------------------------------------------------------------
(* Properties. *)

(* Every variable has its type, here and in the services. *)
TypeOK ==
    /\ AuthTypeOK
    /\ HistoryTypeOK
    /\ greqs \in [Clients -> GReq]
    /\ held \in [Clients -> Token]

(* What a signup is told is so: 201 names an account with the address and
   the password that were typed, no address is told so twice, and 409 means
   that there is such an account.  Answers of racing signups, of repeated
   ones and of ones whose first answer was lost included. *)
SignupAnswersTrue ==
    \A c \in Clients :
      LET g == greqs[c]
      IN  g.pc = "done" /\ g.route = "signup" =>
            /\ g.status = 201 =>
                 /\ \E u \in Fitting(g.email, g.password) : u.id = g.user
                 /\ \A d \in Clients \ {c} :
                      greqs[d].pc = "done" /\ greqs[d].route = "signup"
                      /\ greqs[d].status = 201 =>
                        greqs[d].email.text # g.email.text
            /\ g.status = 409 =>
                 \E u \in users : u.email.text = g.email.text

(* A login gets the token of the account that its credentials fit, however
   they were typed; and it is refused as invalid only if there was no such
   account when it arrived.  So an account can be used as soon as its signup
   took effect, even if the answer to the signup was an error. *)
LoginAnswersTrue ==
    \A c \in Clients :
      LET g == greqs[c]
      IN  g.pc = "done" /\ g.route = "login" =>
            /\ g.status = 200 =>
                 \E u \in Fitting(g.email, g.password) : u.id = g.user
            /\ g.status = 401 => g.known = {}

(* A history that is answered holds rows of the token's user only, and of
   the rows that the user had when the request arrived it leaves one out
   only if the row has been written since or the answer is full of newer
   ones: an open session is never dropped silently. *)
HistoryAnswersTrue ==
    \A c \in Clients :
      LET g == greqs[c]
      IN  g.pc = "done" /\ g.route \in Private /\ g.status = 200 =>
            /\ \A r \in g.rows : r.user = held[c].user
            /\ \A r \in (g.known \cap Table(g.route)) \ g.rows :
                 r.user = held[c].user =>
                   /\ Cardinality(g.rows) = Limit
                   /\ \A q \in g.rows : q.at >= r.at

(* Every request of a client is answered, or the client is gone, although a
   service may never answer. *)
ClientsAnswered ==
    \A c \in Clients : greqs[c].pc # "free" ~> greqs[c].pc = "free"

(* What README.md says of an end-to-end run, where one account is signed up
   and one station charges: after Start- and StopTransaction the data appear
   in /api/sessions/me and /api/billing/me/transactions. *)
HistoryReachesUser ==
    \A c \in Clients :
      LET g == greqs[c]
      IN  g.pc = "done" /\ g.route \in Private /\ g.status = 200
          /\ (\E r \in g.known : r.ended) => g.rows # {}

=============================================================================
