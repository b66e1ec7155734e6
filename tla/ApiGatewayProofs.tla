------------------------- MODULE ApiGatewayProofs -------------------------
(***************************************************************************)
(* What api-gateway's clients are told, for any clients, addresses,        *)
(* passwords, user ids, limits, number of requests in flight, loads and    *)
(* faults: the users table has one account for an address; a signup, a     *)
(* login and a history are answered with what is so.                       *)
(*                                                                         *)
(* Invariants build on one another: UsersInv (the table), TypesInv (the    *)
(* types of everything), AuthInv (signups and logins between gateway and   *)
(* auth-service), KeysInv (ids that float64 keeps) and ReadsInv (histories *)
(* between gateway, sessions-service and billing-service).                 *)
(***************************************************************************)
EXTENDS ApiGateway, FiniteSetTheorems, TLAPS

(* The requests that auth-service handles are typed, and one that got past
   the handler's check has a password. *)
RequestsInv ==
    /\ areqs \in [Slots -> AReq]
    /\ \A s \in Slots :
         areqs[s].pc \in {"recv", "checked"} => areqs[s].password.text # None

(* The addresses in the table are what ToLower and TrimSpace make of them. *)
AddressesCanonical == \A u \in users : ~u.email.pad /\ ~u.email.upper

(* The accounts are typed, with keys drawn from the sequence, and unique. *)
AccountsInv ==
    /\ users \subseteq User
    /\ nextUser \in Nat \ {0}
    /\ \A u \in users : u.id < nextUser
    /\ AddressesCanonical
    /\ OneAccountPerAddress

(* The strengthening of OneAccountPerAddress that every step preserves. *)
UsersInv == RequestsInv /\ AccountsInv /\ load \in Loads

(* A canonical address keeps the text and nothing else of what was typed. *)
LEMMA CanonicalKeepsText ==
  ASSUME NEW email \in Email
  PROVE  Canonical(email) = [text |-> email.text, pad |-> FALSE, upper |-> FALSE]
  <1> DEFINE trimmed == [email EXCEPT !.pad = FALSE]
  <1>1. /\ trimmed \in Email /\ trimmed.text = email.text
        /\ trimmed.pad = FALSE
    BY DEF Email
  <1>2. Canonical(email) = [trimmed EXCEPT !.upper = FALSE]
    BY DEF Canonical, ToLower, TrimSpace
  <1> HIDE DEF trimmed
  <1>3. /\ Canonical(email) \in Email /\ Canonical(email).text = email.text
        /\ Canonical(email).pad = FALSE /\ Canonical(email).upper = FALSE
    BY <1>1, <1>2 DEF Email
  <1> QED
    BY <1>3 DEF Email

(* A record of requests in which one is replaced by a typed one. *)
LEMMA OneRequestChanges ==
  ASSUME RequestsInv, NEW s \in Slots, NEW r \in AReq,
         r.pc \in {"recv", "checked"} => r.password.text # None,
         areqs' = [areqs EXCEPT ![s] = r]
  PROVE  RequestsInv'
  BY DEF RequestsInv

LEMMA FreeTyped == FreeAReq \in AReq
  BY DEF FreeAReq, AReq, NoEmail, NoPassword, Email, Password

(* An answer keeps the requests typed. *)
LEMMA AnswerKeepsRequests ==
  ASSUME RequestsInv, NEW s \in Slots, NEW status \in Nat, NEW id \in Nat,
         Answer(s, status, id)
  PROVE  RequestsInv'
  <1>1. areqs[s] \in AReq
    BY DEF RequestsInv
  <1> DEFINE outcome == IF status \in {200, 201} THEN "ok" ELSE "err"
             answered == [areqs[s] EXCEPT !.status = status, !.user = id]
             r == Finish(answered, outcome, FreeAReq)
  <1>2. areqs' = [areqs EXCEPT ![s] = r]
    BY DEF Answer, RequestsInv
  <1>3. answered \in AReq
    BY <1>1 DEF AReq
  <1>4. r \in AReq /\ r.pc \notin {"recv", "checked"}
    <2>1. CASE answered.open
      <3>1. r = [answered EXCEPT !.pc = outcome]
        BY <2>1 DEF Finish
      <3>2. outcome \in {"ok", "err"}
        OBVIOUS
      <3> HIDE DEF answered, outcome
      <3> QED
        BY <1>3, <3>1, <3>2 DEF AReq
    <2>2. CASE ~answered.open
      <3>1. r = FreeAReq
        BY <2>2 DEF Finish
      <3> QED
        BY <3>1, FreeTyped DEF FreeAReq
    <2> QED
      BY <2>1, <2>2
  <1> HIDE DEF r
  <1> QED
    BY <1>2, <1>4, OneRequestChanges

(* An INSERT for an address that has no row adds the only row with it, under
   a key that no row has. *)
LEMMA CreateKeepsInv ==
  ASSUME RequestsInv, AccountsInv, NEW s \in Slots, NEW acked \in BOOLEAN,
         Create(s, acked)
  PROVE  RequestsInv' /\ AccountsInv'
  <1> DEFINE r == areqs[s]
             new == [id |-> nextUser, email |-> Canonical(r.email),
                     hash |-> r.password.text]
  <1>1. /\ r \in AReq /\ r.pc = "checked" /\ r.password.text # None
        /\ r.email \in Email /\ r.password \in Password
    BY DEF Create, Insert, RequestsInv, AReq
  <1>2. users' = users \cup {new} /\ nextUser' = nextUser + 1
    BY DEF Create, Insert
  <1>3. Canonical(r.email)
          = [text |-> r.email.text, pad |-> FALSE, upper |-> FALSE]
    BY <1>1, CanonicalKeepsText
  <1>4. RequestsInv'
    <2>1. CASE Answer(s, 201, nextUser)
      BY <2>1, AnswerKeepsRequests DEF AccountsInv
    <2>2. CASE Answer(s, 500, 0)
      BY <2>2, AnswerKeepsRequests
    <2> QED
      BY <2>1, <2>2 DEF Create, Insert
  <1>5. new \in User
    <2>1. r.password.text \in Words /\ r.email.text \in Names \cup {None}
      BY <1>1 DEF Password, Email
    <2> QED
      BY <1>3, <2>1 DEF User, Email, AccountsInv
  <1>6. ~new.email.pad /\ ~new.email.upper /\ new.email.text = r.email.text
    BY <1>3
  <1>7. \A u \in users : u.id # new.id /\ u.id < nextUser + 1
    BY DEF AccountsInv, User
  <1>8. \A u \in users : u.email.text # new.email.text
    <2> SUFFICES ASSUME NEW u \in users, u.email.text = r.email.text
                 PROVE  FALSE
      BY <1>6
    <2>1. u.email \in Email /\ u.email.pad = FALSE /\ u.email.upper = FALSE
      BY DEF AccountsInv, AddressesCanonical, User, Email
    <2>2. u.email = [text |-> r.email.text, pad |-> FALSE, upper |-> FALSE]
      BY <2>1 DEF Email
    <2>3. GetByEmail(r.email) = {}
      BY DEF Create
    <2> QED
      BY <1>3, <2>2, <2>3 DEF GetByEmail
  <1> HIDE DEF new, r
  <1>9. AccountsInv'
    <2>1. users' \subseteq User /\ nextUser' \in Nat \ {0}
      BY <1>2, <1>5 DEF AccountsInv
    <2>2. \A u \in users' : u.id < nextUser'
      BY <1>2, <1>7 DEF new, AccountsInv
    <2>3. AddressesCanonical'
      BY <1>2, <1>6 DEF AccountsInv, AddressesCanonical
    <2>4. OneAccountPerAddress'
      BY <1>2, <1>7, <1>8 DEF AccountsInv, OneAccountPerAddress
    <2> QED
      BY <2>1, <2>2, <2>3, <2>4 DEF AccountsInv
  <1> QED
    BY <1>4, <1>9

(* Every step of a handler of auth-service preserves the invariant: only
   Create touches the table, and only Create and a refused INSERT the
   sequence. *)
LEMMA AuthStepKeepsInv ==
  ASSUME RequestsInv, AccountsInv, NEW s \in Slots, AuthStep(s)
  PROVE  RequestsInv' /\ AccountsInv'
  <1>1. CASE CheckEmail(s)
    <2>1. AccountsInv'
      BY <1>1 DEF CheckEmail, AccountsInv, AddressesCanonical,
                  OneAccountPerAddress
    <2>2. CASE Answer(s, 409, 0)
      BY <2>1, <2>2, AnswerKeepsRequests
    <2>3. CASE Answer(s, 500, 0)
      BY <2>1, <2>3, AnswerKeepsRequests
    <2>4. CASE areqs' = [areqs EXCEPT ![s].pc = "checked"]
      <3>1. areqs[s] \in AReq /\ areqs[s].password.text # None
        BY <1>1 DEF CheckEmail, RequestsInv
      <3> DEFINE r == [areqs[s] EXCEPT !.pc = "checked"]
      <3>2. r \in AReq /\ r.password.text # None
        BY <3>1 DEF AReq
      <3>3. areqs' = [areqs EXCEPT ![s] = r]
        BY <2>4 DEF RequestsInv
      <3> HIDE DEF r
      <3> QED
        BY <2>1, <3>2, <3>3, OneRequestChanges
    <2> QED
      BY <1>1, <2>2, <2>3, <2>4 DEF CheckEmail
  <1>2. CASE \E acked \in BOOLEAN : Create(s, acked)
    BY <1>2, CreateKeepsInv
  <1>3. CASE CreateRefused(s)
    <2>1. RequestsInv'
      BY <1>3, AnswerKeepsRequests DEF CreateRefused
    <2>2. UNCHANGED users /\ nextUser' = nextUser + 1
      BY <1>3 DEF CreateRefused
    <2>3. nextUser' \in Nat \ {0} /\ \A u \in users : u.id < nextUser'
      BY <2>2 DEF AccountsInv, User
    <2> QED
      BY <2>1, <2>2, <2>3
         DEF AccountsInv, AddressesCanonical, OneAccountPerAddress
  <1>4. CASE Login(s)
    <2>1. AccountsInv'
      BY <1>4 DEF Login, AccountsInv, AddressesCanonical, OneAccountPerAddress
    <2>2. PICK status \in Nat, id \in Nat : Answer(s, status, id)
      <3>1. \A u \in GetByEmail(areqs[s].email) : u.id \in Nat
        BY DEF GetByEmail, AccountsInv, User
      <3>2. CASE Answer(s, 401, 0)
        BY <3>2
      <3>3. CASE \E u \in GetByEmail(areqs[s].email) : GenerateToken(s, u.id)
        <4>1. PICK u \in GetByEmail(areqs[s].email) : GenerateToken(s, u.id)
          BY <3>3
        <4>2. Answer(s, 500, 0) \/ Answer(s, 200, u.id)
          BY <4>1 DEF GenerateToken
        <4> QED
          BY <3>1, <4>2
      <3> QED
        BY <1>4, <3>2, <3>3 DEF Login
    <2> QED
      BY <2>1, <2>2, AnswerKeepsRequests
  <1>5. CASE AuthDbError(s)
    <2>1. AccountsInv'
      BY <1>5
         DEF AuthDbError, AccountsInv, AddressesCanonical, OneAccountPerAddress
    <2> QED
      BY <1>5, <2>1, AnswerKeepsRequests DEF AuthDbError
  <1> QED
    BY <1>1, <1>2, <1>3, <1>4, <1>5 DEF AuthStep

(* A request with auth-service begins with what the client typed. *)
LEMMA ReceiveKeepsRequests ==
  ASSUME RequestsInv, NEW s \in Slots, NEW kind \in {"signup", "login"},
         NEW email \in Email, NEW password \in Password,
         AuthReceive(s, kind, email, password)
  PROVE  RequestsInv'
  <1> DEFINE blank == None \in {email.text, password.text}
             r == [pc |-> IF blank THEN "err" ELSE "recv", open |-> TRUE,
                   kind |-> kind, email |-> TrimSpace(email),
                   password |-> TrimSpace(password), user |-> 0,
                   status |-> IF blank THEN 400 ELSE 0]
  <1>1. TrimSpace(email) \in Email
    BY DEF TrimSpace, Email
  <1>2. /\ TrimSpace(password) \in Password
        /\ TrimSpace(password).text = password.text
    BY DEF TrimSpace, Password
  <1>3. r \in AReq
    BY <1>1, <1>2 DEF AReq
  <1>4. r.pc = "recv" => r.password.text # None
    BY <1>2
  <1>5. r.pc # "checked"
    OBVIOUS
  <1>6. areqs' = [areqs EXCEPT ![s] = r]
    BY DEF AuthReceive
  <1> HIDE DEF r
  <1> QED
    BY <1>3, <1>4, <1>5, <1>6, OneRequestChanges

(* So does what becomes of a request whose caller has its answer, goes away,
   or sees the service die. *)
LEMMA EndsKeepRequests ==
  ASSUME RequestsInv,
         \/ AuthCrash
         \/ \E s \in Slots : AuthReply(s) \/ AuthAbandon(s)
  PROVE  RequestsInv'
  <1>1. CASE AuthCrash
    <2> SUFFICES ASSUME NEW s \in Slots
                 PROVE  /\ areqs'[s] \in AReq
                        /\ areqs'[s].pc \notin {"recv", "checked"}
      BY <1>1 DEF AuthCrash, RequestsInv
    <2> DEFINE broken == [areqs[s] EXCEPT !.status = 0]
    <2>1. broken \in AReq
      BY DEF RequestsInv, AReq
    <2>2. areqs'[s] = Broken(broken, FreeAReq)
      BY <1>1 DEF AuthCrash
    <2> HIDE DEF broken
    <2>3. CASE broken.open
      <3>1. areqs'[s] = [broken EXCEPT !.pc = "err"]
        BY <2>2, <2>3 DEF Broken
      <3> QED
        BY <2>1, <3>1 DEF AReq
    <2>4. CASE ~broken.open
      <3>1. areqs'[s] = FreeAReq
        BY <2>2, <2>4 DEF Broken
      <3> QED
        BY <3>1, FreeTyped DEF FreeAReq
    <2> QED
      BY <2>3, <2>4
  <1>2. CASE \E s \in Slots : AuthReply(s)
    <2>1. PICK s \in Slots : areqs' = [areqs EXCEPT ![s] = FreeAReq]
      BY <1>2 DEF AuthReply
    <2>2. FreeAReq.pc = "free"
      BY DEF FreeAReq
    <2> QED
      BY <2>1, <2>2, FreeTyped, OneRequestChanges
  <1>3. CASE \E s \in Slots : AuthAbandon(s)
    <2>1. PICK s \in Slots :
            areqs' = [areqs EXCEPT ![s] = Abandon(areqs[s], FreeAReq)]
      BY <1>3 DEF AuthAbandon, RequestsInv
    <2>2. areqs[s] \in AReq
      BY DEF RequestsInv
    <2>3. CASE Answered(areqs[s])
      <3>1. Abandon(areqs[s], FreeAReq) = FreeAReq /\ FreeAReq.pc = "free"
        BY <2>3 DEF Abandon, FreeAReq
      <3> QED
        BY <2>1, <3>1, FreeTyped, OneRequestChanges
    <2>4. CASE ~Answered(areqs[s])
      <3> DEFINE r == [areqs[s] EXCEPT !.open = FALSE]
      <3>1. Abandon(areqs[s], FreeAReq) = r
        BY <2>4 DEF Abandon
      <3>2. /\ r \in AReq /\ r.pc = areqs[s].pc
            /\ r.password = areqs[s].password
        BY <2>2 DEF AReq
      <3>3. r.pc \in {"recv", "checked"} => r.password.text # None
        BY <3>2 DEF RequestsInv
      <3> HIDE DEF r
      <3> QED
        BY <2>1, <3>1, <3>2, <3>3, OneRequestChanges
    <2> QED
      BY <2>3, <2>4
  <1> QED
    BY <1>1, <1>2, <1>3

(* What a step does to auth-service, and that the load stays. *)
AuthMoves ==
    \/ UNCHANGED authVars
    \/ \E s \in Slots : AuthStep(s) \/ AuthReply(s) \/ AuthAbandon(s)
    \/ AuthCrash
    \/ \E s \in Slots, kind \in {"signup", "login"}, t \in load.typed :
         AuthReceive(s, kind, t.email, t.password)

LEMMA NextMoves ==
  ASSUME [Next]_vars
  PROVE  AuthMoves /\ load' = load
  <1> USE DEF AuthMoves, gatewayVars
  <1>1. CASE \E c \in Clients : ClientAsks(c)
    <2>1. PICK c \in Clients, route \in load.routes :
            \/ Unauthorized(c, route)
            \/ Unreachable(c, route)
            \/ StationsCall(c, route)
            \/ \E s \in Slots : \/ HistoryCall(c, route, s)
                                \/ \E t \in load.typed : AuthCall(c, route, t, s)
      BY <1>1 DEF ClientAsks
    <2>2. CASE Unauthorized(c, route) \/ Unreachable(c, route)
                 \/ StationsCall(c, route)
      BY <2>2 DEF Unauthorized, Unreachable, StationsCall, Asked
    <2>3. CASE \E s \in Slots : HistoryCall(c, route, s)
      BY <2>3 DEF HistoryCall, Asked
    <2>4. CASE \E s \in Slots, t \in load.typed : AuthCall(c, route, t, s)
      BY <2>4 DEF AuthCall, Asked
    <2> QED
      BY <2>1, <2>2, <2>3, <2>4
  <1>2. CASE \E c \in Clients : ClientReads(c) \/ TokenExpires(c)
    BY <1>2 DEF ClientReads, TokenExpires
  <1>3. CASE \E c \in Clients : ClientLeaves(c) \/ GwTimeout(c)
    BY <1>3 DEF ClientLeaves, GwTimeout, GwFails, DropCall
  <1>4. CASE \E c \in Clients :
               AuthReturns(c) \/ HistoryReturns(c) \/ StationsReturns(c)
    BY <1>4 DEF AuthReturns, HistoryReturns, StationsReturns, GwReturn
  <1>5. CASE \E s \in Slots : AuthWorks(s) \/ HistoryWorks(s)
    BY <1>5 DEF AuthWorks, HistoryWorks
  <1>6. CASE StationsCharge \/ ServiceDies
    BY <1>6 DEF StationsCharge, ServiceDies
  <1>7. CASE UNCHANGED vars
    BY <1>7 DEF vars
  <1> QED
    BY <1>1, <1>2, <1>3, <1>4, <1>5, <1>6, <1>7 DEF Next

(* Every step of the system preserves the invariant. *)
LEMMA NextKeepsUsersInv ==
  ASSUME UsersInv, [Next]_vars
  PROVE  UsersInv'
  <1> USE DEF UsersInv
  <1>1. AuthMoves /\ load' = load
    BY NextMoves
  <1>2. UNCHANGED <<users, nextUser>> => AccountsInv'
    BY DEF AccountsInv, AddressesCanonical, OneAccountPerAddress
  <1>3. CASE UNCHANGED authVars
    BY <1>1, <1>2, <1>3 DEF authVars, RequestsInv
  <1>4. CASE \E s \in Slots : AuthStep(s)
    BY <1>1, <1>4, AuthStepKeepsInv
  <1>5. CASE AuthCrash \/ \E s \in Slots : AuthReply(s) \/ AuthAbandon(s)
    <2>1. UNCHANGED <<users, nextUser>>
      BY <1>5 DEF AuthCrash, AuthReply, AuthAbandon
    <2> QED
      BY <1>1, <1>2, <1>5, <2>1, EndsKeepRequests
  <1>6. CASE \E s \in Slots, kind \in {"signup", "login"}, t \in load.typed :
               AuthReceive(s, kind, t.email, t.password)
    <2>1. PICK s \in Slots, kind \in {"signup", "login"}, t \in load.typed :
            AuthReceive(s, kind, t.email, t.password)
      BY <1>6
    <2>2. t.email \in Email /\ t.password \in Password
      BY GatewayAssumption DEF Load
    <2>3. UNCHANGED <<users, nextUser>>
      BY <2>1 DEF AuthReceive
    <2>4. RequestsInv'
      BY <2>1, <2>2, ReceiveKeepsRequests
    <2> QED
      BY <1>1, <1>2, <2>3, <2>4
  <1> QED
    BY <1>1, <1>3, <1>4, <1>5, <1>6 DEF AuthMoves

LEMMA InitUsers == Init => UsersInv
  BY FreeTyped
     DEF Init, AuthInit, UsersInv, RequestsInv, AccountsInv,
         AddressesCanonical, OneAccountPerAddress, FreeAReq

(* However addresses are typed and however signups race between GetByEmail
   and INSERT, fail, are cut off or repeated: an address has one account, an
   account one id, and the table and the requests keep their types. *)
THEOREM AccountsUnique ==
  Spec => []AuthTypeOK /\ []OneAccountPerAddress
  <1>1. Init => UsersInv
    BY InitUsers
  <1>2. UsersInv /\ [Next]_vars => UsersInv'
    BY NextKeepsUsersInv
  <1>3. UsersInv => AuthTypeOK /\ OneAccountPerAddress
    BY DEF UsersInv, RequestsInv, AccountsInv, AuthTypeOK
  <1> QED
    BY <1>1, <1>2, <1>3, PTL DEF Spec

-----------------------------------------------------------------------------
(* The types of the whole composition. *)

(* The histories are typed, and finite. *)
HistoryInv ==
    /\ HistoryTypeOK
    /\ IsFiniteSet(charged) /\ IsFiniteSet(billed)

(* The gateway's requests and the clients' tokens are typed. *)
GatewayTyped ==
    /\ greqs \in [Clients -> GReq]
    /\ held \in [Clients -> Token]

TypesInv == UsersInv /\ HistoryInv /\ GatewayTyped

LEMMA FreeHTyped == FreeHReq \in HReq
  BY DEF FreeHReq, HReq

LEMMA FreeGTyped == FreeGReq \in GReq
  BY DEF FreeGReq, GReq, AllRoutes, NoEmail, NoPassword, Email, Password

(* What the end of a read does to its slot. *)
LEMMA HistAnswerEffect ==
  ASSUME hreqs \in [Slots -> HReq], NEW s \in Slots, NEW status \in Nat,
         NEW rows \in SUBSET HRow, HistAnswer(s, status, rows)
  PROVE  /\ hreqs' \in [Slots -> HReq]
         /\ \A t \in Slots \ {s} : hreqs'[t] = hreqs[t]
         /\ hreqs[s].open =>
              /\ hreqs'[s].pc = IF status = 200 THEN "ok" ELSE "err"
              /\ hreqs'[s].open
              /\ hreqs'[s].kind = hreqs[s].kind
              /\ hreqs'[s].user = hreqs[s].user
              /\ hreqs'[s].rows = rows
              /\ hreqs'[s].status = status
         /\ ~hreqs[s].open => hreqs'[s] = FreeHReq
  <1> DEFINE outcome == IF status = 200 THEN "ok" ELSE "err"
             answered == [hreqs[s] EXCEPT !.status = status, !.rows = rows]
             r == Finish(answered, outcome, FreeHReq)
  <1>1. hreqs' = [hreqs EXCEPT ![s] = r]
    BY DEF HistAnswer
  <1>2. hreqs[s] \in HReq
    OBVIOUS
  <1>3. /\ answered \in HReq
        /\ answered.open = hreqs[s].open /\ answered.kind = hreqs[s].kind
        /\ answered.user = hreqs[s].user /\ answered.rows = rows
        /\ answered.status = status
    BY <1>2 DEF HReq
  <1>4. outcome \in {"ok", "err"}
    OBVIOUS
  <1> HIDE DEF answered, outcome
  <1>5. CASE hreqs[s].open
    <2> DEFINE done == [answered EXCEPT !.pc = outcome]
    <2>1. r = done
      BY <1>3, <1>5 DEF Finish
    <2>2. /\ done \in HReq /\ done.pc = outcome
          /\ done.open = answered.open /\ done.kind = answered.kind
          /\ done.user = answered.user /\ done.rows = answered.rows
          /\ done.status = answered.status
      BY <1>3, <1>4 DEF HReq
    <2> HIDE DEF done
    <2>3. hreqs' = [hreqs EXCEPT ![s] = done]
      BY <1>1, <2>1
    <2> QED
      BY <1>3, <1>5, <2>2, <2>3 DEF outcome
  <1>6. CASE ~hreqs[s].open
    <2>1. r = FreeHReq
      BY <1>3, <1>6 DEF Finish
    <2>2. hreqs' = [hreqs EXCEPT ![s] = FreeHReq]
      BY <1>1, <2>1
    <2> QED
      BY <1>6, <2>2, FreeHTyped
  <1> QED
    BY <1>5, <1>6, <1>2 DEF HReq

(* What the caller's leaving does to a read. *)
LEMMA HistAbandonEffect ==
  ASSUME hreqs \in [Slots -> HReq], NEW s \in Slots, HistAbandon(s)
  PROVE  /\ hreqs' \in [Slots -> HReq]
         /\ \A t \in Slots \ {s} : hreqs'[t] = hreqs[t]
         /\ ~Answered(hreqs'[s])
  <1>1. hreqs' = [hreqs EXCEPT ![s] = Abandon(hreqs[s], FreeHReq)]
    BY DEF HistAbandon
  <1>2. CASE Answered(hreqs[s])
    <2>1. hreqs' = [hreqs EXCEPT ![s] = FreeHReq]
      BY <1>1, <1>2 DEF Abandon
    <2> QED
      BY <2>1, FreeHTyped DEF FreeHReq, Answered
  <1>3. CASE ~Answered(hreqs[s])
    <2> DEFINE left == [hreqs[s] EXCEPT !.open = FALSE]
    <2>1. left \in HReq /\ left.pc = hreqs[s].pc
      BY DEF HReq
    <2>2. hreqs' = [hreqs EXCEPT ![s] = left]
      BY <1>1, <1>3 DEF Abandon
    <2> HIDE DEF left
    <2> QED
      BY <1>3, <2>1, <2>2 DEF Answered
  <1> QED
    BY <1>2, <1>3

(* What a crash does to a slot. *)
LEMMA HistCrashEffect ==
  ASSUME hreqs \in [Slots -> HReq], HistCrash
  PROVE  /\ hreqs' \in [Slots -> HReq]
         /\ \A s \in Slots :
              \/ hreqs'[s] = hreqs[s]
              \/ /\ ~hreqs[s].open /\ hreqs'[s] = FreeHReq
              \/ /\ hreqs[s].open
                 /\ hreqs'[s].pc = "err" /\ hreqs'[s].open
                 /\ hreqs'[s].kind = hreqs[s].kind
                 /\ hreqs'[s].user = hreqs[s].user
                 /\ hreqs'[s].status = 0
  <1>1. PICK kind \in {"sessions", "billing"} :
          hreqs' = [s \in Slots |->
                      IF hreqs[s].kind = kind
                      THEN Broken([hreqs[s] EXCEPT !.status = 0], FreeHReq)
                      ELSE hreqs[s]]
    BY DEF HistCrash
  <1>2. ASSUME NEW s \in Slots
        PROVE  /\ hreqs'[s] \in HReq
               /\ \/ hreqs'[s] = hreqs[s]
                  \/ /\ ~hreqs[s].open /\ hreqs'[s] = FreeHReq
                  \/ /\ hreqs[s].open
                     /\ hreqs'[s].pc = "err" /\ hreqs'[s].open
                     /\ hreqs'[s].kind = hreqs[s].kind
                     /\ hreqs'[s].user = hreqs[s].user
                     /\ hreqs'[s].status = 0
    <2> DEFINE zero == [hreqs[s] EXCEPT !.status = 0]
               broken == [zero EXCEPT !.pc = "err"]
    <2>1. /\ zero \in HReq /\ zero.open = hreqs[s].open
          /\ zero.kind = hreqs[s].kind /\ zero.user = hreqs[s].user
          /\ zero.status = 0
      BY DEF HReq
    <2>2. hreqs'[s] = hreqs[s] \/ hreqs'[s] = Broken(zero, FreeHReq)
      BY <1>1
    <2> HIDE DEF zero
    <2>3. /\ broken \in HReq /\ broken.pc = "err" /\ broken.open = zero.open
          /\ broken.kind = zero.kind /\ broken.user = zero.user
          /\ broken.status = zero.status
      BY <2>1 DEF HReq
    <2>4. Broken(zero, FreeHReq) = IF zero.open THEN broken ELSE FreeHReq
      BY DEF Broken
    <2> HIDE DEF broken
    <2> QED
      BY <2>1, <2>2, <2>3, <2>4, FreeHTyped DEF HReq
  <1>3. hreqs' = [s \in Slots |-> hreqs'[s]]
    BY <1>1
  <1> QED
    BY <1>2, <1>3

(* A table in which one row is added or replaced by one written now. *)
Writes(old, new) ==
    \E kept \in SUBSET old, row \in HRow :
      /\ new = kept \cup {row}
      /\ row.rev = clock + 1 /\ row.at <= clock + 1

LEMMA WriteKeepsTable ==
  ASSUME NEW old, NEW new, Writes(old, new), clock \in Nat, IsFiniteSet(old),
         old \subseteq HRow, \A r \in old : r.rev \in 1 .. clock /\ r.at <= clock
  PROVE  /\ IsFiniteSet(new) /\ new \subseteq HRow
         /\ \A r \in new : r.rev \in 1 .. (clock + 1) /\ r.at <= clock + 1
         /\ \A r \in new : r.rev <= clock => r \in old
  <1>1. PICK kept \in SUBSET old, row \in HRow :
          /\ new = kept \cup {row}
          /\ row.rev = clock + 1 /\ row.at <= clock + 1
    BY DEF Writes
  <1>2. IsFiniteSet(kept)
    BY FS_Subset
  <1>3. IsFiniteSet(new)
    BY <1>1, <1>2, FS_AddElement
  <1>4. \A r \in old : r.rev \in Nat /\ r.at \in Nat
    BY DEF HRow
  <1> QED
    BY <1>1, <1>3, <1>4

(* What the callbacks of the stations do: the clock moves, and one table has
   a row that is written now. *)
LEMMA StationsChargeEffect ==
  ASSUME HistoryInv, StationsCharge
  PROVE  /\ clock' = clock + 1 /\ hreqs' = hreqs
         /\ Writes(charged, charged') \/ charged' = charged
         /\ Writes(billed, billed') \/ billed' = billed
  <1> USE DEF HistoryInv, HistoryTypeOK
  <1>1. Cardinality(charged) + 1 \in Nat /\ Cardinality(billed) + 1 \in Nat
    BY FS_CardinalityType
  <1>2. ASSUME NEW user \in Senders, NEW at \in {0, clock + 1},
               SessionStarted(user, at)
        PROVE  /\ clock' = clock + 1 /\ hreqs' = hreqs /\ billed' = billed
               /\ Writes(charged, charged')
    <2>1. clock' = clock + 1 /\ hreqs' = hreqs /\ billed' = billed
      BY <1>2 DEF SessionStarted, Tick
    <2>2. user \in Nat /\ at \in Nat /\ at <= clock + 1
      BY HistoryAssumption
    <2>3. CASE charged' = charged \cup
                 {[id |-> Cardinality(charged) + 1, user |-> user, at |-> at,
                   rev |-> clock', active |-> TRUE, ended |-> FALSE]}
      <3> DEFINE row == [id |-> Cardinality(charged) + 1, user |-> user,
                         at |-> at, rev |-> clock', active |-> TRUE,
                         ended |-> FALSE]
      <3>1. row \in HRow /\ row.rev = clock + 1 /\ row.at = at
        BY <1>1, <2>1, <2>2 DEF HRow
      <3>2. charged' = charged \cup {row}
        BY <2>3
      <3> HIDE DEF row
      <3>3. Writes(charged, charged')
        <4>1. charged \in SUBSET charged /\ row.at <= clock + 1
          BY <2>2, <3>1
        <4> QED
          BY <3>1, <3>2, <4>1 DEF Writes
      <3> QED
        BY <2>1, <3>3
    <2>4. CASE \E r \in charged :
                 charged' = (charged \ {r}) \cup
                   {[r EXCEPT !.user = user, !.at = at, !.rev = clock',
                              !.active = TRUE]}
      <3>1. PICK r \in charged :
              charged' = (charged \ {r}) \cup
                {[r EXCEPT !.user = user, !.at = at, !.rev = clock',
                           !.active = TRUE]}
        BY <2>4
      <3> DEFINE row == [r EXCEPT !.user = user, !.at = at, !.rev = clock',
                                  !.active = TRUE]
      <3>2. row \in HRow /\ row.rev = clock + 1 /\ row.at = at
        <4>1. r \in HRow /\ clock' \in Nat /\ at \in Nat /\ user \in Nat
          BY <2>1, <2>2
        <4> QED
          BY <4>1, <2>1 DEF HRow
      <3>3. charged' = (charged \ {r}) \cup {row} /\ charged \ {r} \subseteq charged
        BY <3>1
      <3> HIDE DEF row
      <3>4. Writes(charged, charged')
        <4>1. row.at <= clock + 1
          BY <2>2, <3>2
        <4> QED
          BY <3>2, <3>3, <4>1 DEF Writes
      <3> QED
        BY <2>1, <3>4
    <2> QED
      BY <1>2, <2>1, <2>3, <2>4 DEF SessionStarted
  <1>3. ASSUME SessionStopped
        PROVE  /\ clock' = clock + 1 /\ hreqs' = hreqs /\ billed' = billed
               /\ Writes(charged, charged')
    <2>1. clock' = clock + 1 /\ hreqs' = hreqs /\ billed' = billed
      BY <1>3 DEF SessionStopped, Tick
    <2>2. PICK r \in charged :
            charged' = (charged \ {r}) \cup
              {[r EXCEPT !.rev = clock', !.active = FALSE, !.ended = TRUE]}
      BY <1>3 DEF SessionStopped
    <2> DEFINE row == [r EXCEPT !.rev = clock', !.active = FALSE,
                                !.ended = TRUE]
    <2>3. r \in HRow /\ clock \in Nat /\ clock' \in Nat /\ r.at <= clock
      BY <2>1
    <2>4. row \in HRow /\ row.rev = clock + 1 /\ row.at = r.at
      BY <2>1, <2>3 DEF HRow
    <2>5. charged' = (charged \ {r}) \cup {row}
      BY <2>2
    <2>6. r.at <= clock + 1
      BY <2>3 DEF HRow
    <2> HIDE DEF row
    <2>7. charged \ {r} \in SUBSET charged
      OBVIOUS
    <2>8. Writes(charged, charged')
      BY <2>4, <2>5, <2>6, <2>7 DEF Writes
    <2> QED
      BY <2>1, <2>8
  <1>4. ASSUME NEW user \in Senders, SessionBilled(user)
        PROVE  /\ clock' = clock + 1 /\ hreqs' = hreqs /\ charged' = charged
               /\ Writes(billed, billed')
    <2>1. clock' = clock + 1 /\ hreqs' = hreqs /\ charged' = charged
      BY <1>4 DEF SessionBilled, Tick
    <2> DEFINE row == [id |-> Cardinality(billed) + 1, user |-> user,
                       at |-> clock', rev |-> clock', active |-> FALSE,
                       ended |-> TRUE]
    <2>2. row \in HRow /\ row.rev = clock + 1 /\ row.at = clock + 1
      BY <1>1, <2>1, HistoryAssumption DEF HRow
    <2>3. billed' = billed \cup {row}
      BY <1>4 DEF SessionBilled
    <2> HIDE DEF row
    <2>4. billed \in SUBSET billed /\ row.at <= clock + 1
      BY <2>2
    <2>5. Writes(billed, billed')
      BY <2>2, <2>3, <2>4 DEF Writes
    <2> QED
      BY <2>1, <2>5
  <1> QED
    BY <1>2, <1>3, <1>4 DEF StationsCharge

LEMMA StationsChargeTyped ==
  ASSUME HistoryInv, StationsCharge
  PROVE  HistoryInv'
  <1> USE DEF HistoryInv, HistoryTypeOK
  <1>1. clock' = clock + 1 /\ hreqs' = hreqs
    BY StationsChargeEffect
  <1>2. /\ IsFiniteSet(charged') /\ charged' \subseteq HRow
        /\ \A r \in charged' : r.rev \in 1 .. (clock + 1) /\ r.at <= clock + 1
    <2>1. CASE Writes(charged, charged')
      BY <2>1, WriteKeepsTable
    <2>2. CASE charged' = charged
      BY <2>2 DEF HRow
    <2> QED
      BY <2>1, <2>2, StationsChargeEffect
  <1>3. /\ IsFiniteSet(billed') /\ billed' \subseteq HRow
        /\ \A r \in billed' : r.rev \in 1 .. (clock + 1) /\ r.at <= clock + 1
    <2>1. CASE Writes(billed, billed')
      BY <2>1, WriteKeepsTable
    <2>2. CASE billed' = billed
      BY <2>2 DEF HRow
    <2> QED
      BY <2>1, <2>2, StationsChargeEffect
  <1> QED
    BY <1>1, <1>2, <1>3

(* A read that goes on leaves the tables alone, and its slot typed. *)
LEMMA HistStepTyped ==
  ASSUME HistoryInv, NEW s \in Slots, HistStep(s)
  PROVE  HistoryInv'
  <1> USE DEF HistoryInv, HistoryTypeOK
  <1>1. UNCHANGED <<charged, billed, clock>>
    BY DEF HistStep, GetSessionsByUser, ListByUser, HistDbError
  <1>2. \E status \in Nat, rows \in SUBSET HRow : HistAnswer(s, status, rows)
    <2>1. CASE GetSessionsByUser(s)
      <3>1. PICK rows \in SUBSET charged : ScanSessions(s, rows)
        BY <2>1 DEF GetSessionsByUser
      <3>2. HistAnswer(s, 200, rows) \/ HistAnswer(s, 500, {})
        BY <3>1 DEF ScanSessions
      <3> QED
        BY <3>2
    <2>2. CASE ListByUser(s)
      <3>1. PICK rows \in SUBSET billed : HistAnswer(s, 200, rows)
        BY <2>2 DEF ListByUser
      <3> QED
        BY <3>1
    <2>3. CASE HistDbError(s)
      <3>1. HistAnswer(s, 500, {})
        BY <2>3 DEF HistDbError
      <3> QED
        BY <3>1
    <2> QED
      BY <2>1, <2>2, <2>3 DEF HistStep
  <1>3. hreqs' \in [Slots -> HReq]
    BY <1>2, HistAnswerEffect
  <1> QED
    BY <1>1, <1>3

LEMMA HistReceiveEffect ==
  ASSUME hreqs \in [Slots -> HReq], NEW s \in Slots, NEW kind \in Private,
         NEW user \in Nat, HistReceive(s, kind, user)
  PROVE  /\ hreqs' \in [Slots -> HReq]
         /\ hreqs[s].pc = "free"
         /\ \A t \in Slots \ {s} : hreqs'[t] = hreqs[t]
         /\ hreqs'[s].pc = "recv" /\ hreqs'[s].open
         /\ hreqs'[s].kind = kind /\ hreqs'[s].user = user
         /\ hreqs'[s].status = 0
  <1> DEFINE r == [pc |-> "recv", open |-> TRUE, kind |-> kind, user |-> user,
                   rows |-> {}, status |-> 0]
  <1>1. r \in HReq
    BY DEF HReq, Private
  <1>2. hreqs' = [hreqs EXCEPT ![s] = r] /\ hreqs[s].pc = "free"
    BY DEF HistReceive
  <1>3. /\ r.pc = "recv" /\ r.open /\ r.kind = kind /\ r.user = user
        /\ r.status = 0
    OBVIOUS
  <1> HIDE DEF r
  <1> QED
    BY <1>1, <1>2, <1>3

(* The accounts of a table that the credentials in r fit. *)
Fits(table, r) ==
    {u \in table : u.email.text = r.email.text /\ u.hash = r.password.text}

(* The user in a token stays a natural number. *)
LEMMA UserIDTyped ==
  ASSUME GatewayTyped, NEW c \in Clients
  PROVE  ExtractUserID(held[c]) \in Nat
  <1>1. held[c].user \in Nat
    BY DEF GatewayTyped, Token
  <1>2. \A n \in Nat : Float64(n) \in Nat
    <2> TAKE n \in Nat
    <2>1. n % 4 = 1 => n - 1 \in Nat
      BY SMT
    <2> QED
      BY <2>1 DEF Float64
  <1> QED
    BY <1>1, <1>2 DEF ExtractUserID

(* What a request leaves with the gateway. *)
LEMMA AskedEffect ==
  ASSUME TypesInv, NEW c \in Clients, NEW route \in AllRoutes, NEW typed,
         typed.email \in Email, typed.password \in Password,
         NEW s \in Slots \cup {None}, NEW status \in Nat,
         Asked(c, route, typed, s, status)
  PROVE  /\ greqs' \in [Clients -> GReq] /\ held' = held /\ load' = load
         /\ greqs[c].pc = "free"
         /\ \A d \in Clients \ {c} : greqs'[d] = greqs[d]
         /\ greqs'[c].pc = IF status = 0 THEN "wait" ELSE "done"
         /\ greqs'[c].route = route
         /\ greqs'[c].email = typed.email
         /\ greqs'[c].password = typed.password
         /\ greqs'[c].up = s /\ greqs'[c].status = status
         /\ route = "login" => greqs'[c].known = Fits(users, typed)
         /\ route \in Private => greqs'[c].known = Table(route)
  <1> DEFINE user == IF route \in Private THEN ExtractUserID(held[c]) ELSE 0
             known == CASE route = "login" -> Fitting(typed.email, typed.password)
                        [] route \in Private -> Table(route)
                        [] OTHER -> {}
             r == [pc |-> IF status = 0 THEN "wait" ELSE "done", route |-> route,
                   email |-> typed.email, password |-> typed.password,
                   user |-> user, up |-> s, status |-> status, rows |-> {},
                   known |-> known]
  <1>1. user \in Nat
    BY UserIDTyped DEF TypesInv
  <1>2. /\ route = "login" => known = Fits(users, typed)
        /\ route \in Private => known = Table(route)
        /\ route \notin Private \cup {"login"} => known = {}
    BY DEF Fitting, Fits, Private
  <1>3. known \in (SUBSET User) \cup (SUBSET HRow)
    <2>1. Fits(users, typed) \subseteq User
      BY DEF TypesInv, UsersInv, AccountsInv, Fits
    <2>2. Table(route) \subseteq HRow
      BY DEF TypesInv, HistoryInv, HistoryTypeOK, Table
    <2>3. known \subseteq User \/ known \subseteq HRow
      BY <1>2, <2>1, <2>2
    <2> HIDE DEF known
    <2>4. CASE known \subseteq User
      <3>1. known \in SUBSET User
        BY <2>4
      <3> QED
        BY <3>1
    <2>5. CASE known \subseteq HRow
      <3>1. known \in SUBSET HRow
        BY <2>5
      <3> QED
        BY <3>1
    <2> QED
      BY <2>3, <2>4, <2>5
  <1>4. greqs' = [greqs EXCEPT ![c] = r] /\ greqs[c].pc = "free"
    BY DEF Asked
  <1>5. held' = held /\ load' = load
    BY DEF Asked
  <1> HIDE DEF known, user
  <1>6. r \in GReq
    BY <1>1, <1>3 DEF GReq
  <1>7. /\ r.pc = IF status = 0 THEN "wait" ELSE "done"
        /\ r.route = route /\ r.email = typed.email
        /\ r.password = typed.password
        /\ r.up = s /\ r.status = status /\ r.known = known
    OBVIOUS
  <1> HIDE DEF r
  <1>8. greqs \in [Clients -> GReq]
    BY DEF TypesInv, GatewayTyped
  <1>9. /\ greqs' \in [Clients -> GReq] /\ greqs'[c] = r
        /\ \A d \in Clients \ {c} : greqs'[d] = greqs[d]
    BY <1>4, <1>6, <1>8
  <1> QED
    BY <1>2, <1>4, <1>5, <1>7, <1>9

(* What an answer leaves with the gateway. *)
LEMMA DoneEffect ==
  ASSUME greqs \in [Clients -> GReq], NEW c \in Clients, NEW status \in Nat,
         NEW user \in Nat, NEW rows \in SUBSET HRow,
         Done(c, status, user, rows)
  PROVE  /\ greqs' \in [Clients -> GReq]
         /\ \A d \in Clients \ {c} : greqs'[d] = greqs[d]
         /\ greqs'[c].pc = "done"
         /\ greqs'[c].route = greqs[c].route
         /\ greqs'[c].email = greqs[c].email
         /\ greqs'[c].password = greqs[c].password
         /\ greqs'[c].known = greqs[c].known
         /\ greqs'[c].user = user /\ greqs'[c].status = status
         /\ greqs'[c].rows = rows
  <1> DEFINE g == greqs[c]
             r == [pc |-> "done", route |-> g.route, email |-> g.email,
                   password |-> g.password, user |-> user, up |-> None,
                   status |-> status, rows |-> rows, known |-> g.known]
  <1>1. g \in GReq
    OBVIOUS
  <1>2. r \in GReq
    BY <1>1 DEF GReq
  <1>3. greqs' = [greqs EXCEPT ![c] = r]
    <2> DEFINE a == [g EXCEPT !.pc = "done"]
               b == [a EXCEPT !.status = status]
               d == [b EXCEPT !.user = user]
               e == [d EXCEPT !.rows = rows]
               f == [e EXCEPT !.up = None]
    <2>1. greqs' = [greqs EXCEPT ![c] = f]
      BY DEF Done
    <2>2. a = [g EXCEPT !.pc = "done"] /\ a \in GReq
      BY <1>1 DEF GReq
    <2>3. b = [a EXCEPT !.status = status] /\ b \in GReq
      <3> HIDE DEF a
      <3> QED
        BY <2>2 DEF GReq
    <2>4. d = [b EXCEPT !.user = user] /\ d \in GReq
      <3> HIDE DEF b
      <3> QED
        BY <2>3 DEF GReq
    <2>5. e = [d EXCEPT !.rows = rows] /\ e \in GReq
      <3> HIDE DEF d
      <3> QED
        BY <2>4 DEF GReq
    <2>6. f = [e EXCEPT !.up = None] /\ f \in GReq
      <3> HIDE DEF e
      <3> QED
        BY <2>5 DEF GReq
    <2> HIDE DEF a, b, d, e, f
    <2>7. f = r
      BY <2>2, <2>3, <2>4, <2>5, <2>6 DEF GReq
    <2> QED
      BY <2>1, <2>7
  <1>4. /\ r.pc = "done" /\ r.route = g.route /\ r.email = g.email
        /\ r.password = g.password /\ r.known = g.known
        /\ r.user = user /\ r.status = status /\ r.rows = rows
    OBVIOUS
  <1> HIDE DEF r
  <1>5. /\ greqs' \in [Clients -> GReq] /\ greqs'[c] = r
        /\ \A d \in Clients \ {c} : greqs'[d] = greqs[d]
    BY <1>2, <1>3
  <1> QED
    BY <1>4, <1>5

(* A client that asks: which call that is, and that it is typed. *)
LEMMA AskingTyped ==
  ASSUME TypesInv, NEW c \in Clients, ClientAsks(c)
  PROVE  HistoryInv' /\ GatewayTyped'
  <1>1. PICK route \in load.routes :
          \/ Unauthorized(c, route)
          \/ Unreachable(c, route)
          \/ StationsCall(c, route)
          \/ \E s \in Slots : \/ HistoryCall(c, route, s)
                              \/ \E t \in load.typed : AuthCall(c, route, t, s)
    BY DEF ClientAsks
  <1>2. /\ load.routes \subseteq AllRoutes /\ route \in AllRoutes
        /\ \A t \in load.typed : t.email \in Email /\ t.password \in Password
    BY GatewayAssumption DEF TypesInv, UsersInv, Load
  <1>3. Nothing.email \in Email /\ Nothing.password \in Password
    BY DEF Nothing, NoEmail, NoPassword, Email, Password
  <1>4. UNCHANGED historyVars => HistoryInv'
    BY DEF TypesInv, HistoryInv, HistoryTypeOK, historyVars
  <1>5. CASE Unauthorized(c, route)
    <2>1. Asked(c, route, Nothing, None, 401) /\ UNCHANGED historyVars
      BY <1>5 DEF Unauthorized
    <2>2. greqs' \in [Clients -> GReq] /\ held' = held
      BY <1>2, <1>3, <2>1, AskedEffect
    <2> QED
      BY <1>4, <2>1, <2>2 DEF GatewayTyped, TypesInv
  <1>6. CASE Unreachable(c, route)
    BY <1>2, <1>3, <1>4, <1>6, AskedEffect
       DEF Unreachable, GatewayTyped, TypesInv
  <1>7. CASE StationsCall(c, route)
    BY <1>2, <1>3, <1>4, <1>7, AskedEffect
       DEF StationsCall, GatewayTyped, TypesInv
  <1>8. CASE \E s \in Slots : HistoryCall(c, route, s)
    <2>1. PICK s \in Slots : HistoryCall(c, route, s)
      BY <1>8
    <2>2. GatewayTyped'
      BY <1>2, <1>3, <2>1, AskedEffect DEF HistoryCall, GatewayTyped, TypesInv
    <2>3. UNCHANGED <<charged, billed, clock>>
      BY <2>1 DEF HistoryCall, HistReceive
    <2>4. ExtractUserID(held[c]) \in Nat
      BY UserIDTyped DEF TypesInv
    <2>5. hreqs' \in [Slots -> HReq]
      <3>1. hreqs \in [Slots -> HReq]
        BY DEF TypesInv, HistoryInv, HistoryTypeOK
      <3>2. route \in Private /\ HistReceive(s, route, ExtractUserID(held[c]))
        BY <2>1 DEF HistoryCall
      <3> QED
        BY <2>4, <3>1, <3>2, HistReceiveEffect
    <2> QED
      BY <2>2, <2>3, <2>5 DEF TypesInv, HistoryInv, HistoryTypeOK
  <1>9. CASE \E s \in Slots, t \in load.typed : AuthCall(c, route, t, s)
    <2>1. PICK s \in Slots, t \in load.typed : AuthCall(c, route, t, s)
      BY <1>9
    <2> QED
      BY <1>2, <1>4, <2>1, AskedEffect DEF AuthCall, GatewayTyped, TypesInv
  <1> QED
    BY <1>1, <1>5, <1>6, <1>7, <1>8, <1>9

(* A call that is given up, or answered, leaves the reads typed. *)
LEMMA CallEndsTyped ==
  ASSUME HistoryInv,
         \/ \E c \in Clients : DropCall(c)
         \/ \E s \in Slots : HistReply(s)
  PROVE  HistoryInv'
  <1> USE DEF HistoryInv, HistoryTypeOK
  <1>1. CASE UNCHANGED historyVars
    BY <1>1 DEF historyVars
  <1>2. CASE \E s \in Slots : HistAbandon(s)
    <2>1. UNCHANGED <<charged, billed, clock>>
      BY <1>2 DEF HistAbandon
    <2>2. hreqs' \in [Slots -> HReq]
      BY <1>2, HistAbandonEffect
    <2> QED
      BY <2>1, <2>2
  <1>3. CASE \E s \in Slots : HistReply(s)
    <2>1. PICK s \in Slots : hreqs' = [hreqs EXCEPT ![s] = FreeHReq]
      BY <1>3 DEF HistReply
    <2>2. UNCHANGED <<charged, billed, clock>>
      BY <1>3 DEF HistReply
    <2> QED
      BY <2>1, <2>2, FreeHTyped
  <1> QED
    BY <1>1, <1>2, <1>3 DEF DropCall

(* An answer that is passed on is typed. *)
LEMMA ReturnTyped ==
  ASSUME GatewayTyped, NEW c \in Clients, NEW status \in Nat,
         NEW user \in Nat, NEW rows \in SUBSET HRow,
         GwReturn(c, status, user, rows) \/ GwFails(c)
  PROVE  GatewayTyped'
  <1>1. held' = held
    BY DEF GwReturn, GwFails
  <1>2. \/ Done(c, 502, 0, {})
        \/ Done(c, status, user, rows)
    BY DEF GwReturn, GwFails
  <1>3. {} \in SUBSET HRow
    OBVIOUS
  <1> QED
    BY <1>1, <1>2, <1>3, DoneEffect DEF GatewayTyped

(* Every step preserves the types. *)
LEMMA NextTyped ==
  ASSUME TypesInv, [Next]_vars
  PROVE  TypesInv'
  <1>1. UsersInv'
    BY NextKeepsUsersInv DEF TypesInv
  <1>2. UNCHANGED historyVars => HistoryInv'
    BY DEF TypesInv, HistoryInv, HistoryTypeOK, historyVars
  <1>3. UNCHANGED gatewayVars => GatewayTyped'
    BY DEF TypesInv, GatewayTyped, gatewayVars
  <1> SUFFICES HistoryInv' /\ GatewayTyped'
    BY <1>1 DEF TypesInv
  <1>4. ASSUME NEW c \in Clients, ClientReads(c)
        PROVE  HistoryInv' /\ GatewayTyped'
    <2>1. UNCHANGED historyVars
      BY <1>4 DEF ClientReads
    <2>2. greqs' = [greqs EXCEPT ![c] = FreeGReq]
      BY <1>4 DEF ClientReads
    <2>3. \/ held' = held
          \/ held' = [held EXCEPT ![c] =
                        [user |-> greqs[c].user, live |-> TRUE]]
      BY <1>4 DEF ClientReads
    <2>4. [user |-> greqs[c].user, live |-> TRUE] \in Token
      BY DEF TypesInv, GatewayTyped, GReq, Token
    <2> QED
      BY <1>2, <2>1, <2>2, <2>3, <2>4, FreeGTyped DEF TypesInv, GatewayTyped
  <1>5. ASSUME NEW c \in Clients, ClientLeaves(c)
        PROVE  HistoryInv' /\ GatewayTyped'
    <2>1. greqs' = [greqs EXCEPT ![c] = FreeGReq] /\ held' = held
      BY <1>5 DEF ClientLeaves
    <2>2. HistoryInv'
      BY <1>5, CallEndsTyped DEF ClientLeaves, TypesInv
    <2> QED
      BY <2>1, <2>2, FreeGTyped DEF TypesInv, GatewayTyped
  <1>6. ASSUME NEW c \in Clients, TokenExpires(c)
        PROVE  HistoryInv' /\ GatewayTyped'
    <2>1. UNCHANGED historyVars /\ greqs' = greqs
      BY <1>6 DEF TokenExpires
    <2>2. held \in [Clients -> Token]
      BY DEF TypesInv, GatewayTyped
    <2> DEFINE t == [held[c] EXCEPT !.live = FALSE]
    <2>3. t \in Token
      BY <2>2 DEF Token
    <2>4. held' = [held EXCEPT ![c] = t]
      BY <1>6 DEF TokenExpires
    <2> HIDE DEF t
    <2> QED
      BY <1>2, <2>1, <2>2, <2>3, <2>4 DEF TypesInv, GatewayTyped
  <1>7. ASSUME NEW c \in Clients, AuthReturns(c)
        PROVE  HistoryInv' /\ GatewayTyped'
    <2> DEFINE s == greqs[c].up
    <2>1. /\ UNCHANGED historyVars /\ s \in Slots
          /\ GwReturn(c, areqs[s].status, areqs[s].user, {})
      BY <1>7 DEF AuthReturns
    <2>2. areqs[s].status \in Nat /\ areqs[s].user \in Nat
      BY <2>1 DEF TypesInv, UsersInv, RequestsInv, AReq
    <2>3. {} \in SUBSET HRow
      OBVIOUS
    <2> QED
      BY <1>2, <2>1, <2>2, <2>3, ReturnTyped DEF TypesInv
  <1>8. ASSUME NEW c \in Clients, HistoryReturns(c)
        PROVE  HistoryInv' /\ GatewayTyped'
    <2> DEFINE s == greqs[c].up
    <2>1. /\ s \in Slots /\ HistReply(s)
          /\ GwReturn(c, hreqs[s].status, greqs[c].user, hreqs[s].rows)
      BY <1>8 DEF HistoryReturns
    <2>2. hreqs[s].status \in Nat /\ hreqs[s].rows \in SUBSET HRow
      BY <2>1 DEF TypesInv, HistoryInv, HistoryTypeOK, HReq
    <2>3. greqs[c].user \in Nat
      BY DEF TypesInv, GatewayTyped, GReq
    <2>4. HistoryInv'
      BY <2>1, CallEndsTyped DEF TypesInv
    <2> QED
      BY <2>1, <2>2, <2>3, <2>4, ReturnTyped DEF TypesInv
  <1>9. ASSUME NEW c \in Clients, StationsReturns(c)
        PROVE  HistoryInv' /\ GatewayTyped'
    <2>1. GwReturn(c, 200, 0, {}) /\ UNCHANGED historyVars
      BY <1>9 DEF StationsReturns
    <2>2. {} \in SUBSET HRow
      OBVIOUS
    <2> QED
      BY <1>2, <2>1, <2>2, ReturnTyped DEF TypesInv
  <1>10. ASSUME NEW c \in Clients, GwTimeout(c)
         PROVE  HistoryInv' /\ GatewayTyped'
    <2>1. {} \in SUBSET HRow /\ GwFails(c) /\ DropCall(c)
      BY <1>10 DEF GwTimeout
    <2>2. HistoryInv'
      BY <2>1, CallEndsTyped DEF TypesInv
    <2>3. GatewayTyped'
      BY <2>1, ReturnTyped DEF TypesInv
    <2> QED
      BY <2>2, <2>3
  <1>11. ASSUME NEW s \in Slots, AuthWorks(s) \/ HistoryWorks(s)
         PROVE  HistoryInv' /\ GatewayTyped'
    BY <1>2, <1>3, <1>11, HistStepTyped DEF AuthWorks, HistoryWorks, TypesInv
  <1>12. CASE StationsCharge
    BY <1>3, <1>12, StationsChargeTyped DEF StationsCharge, TypesInv
  <1>13. CASE ServiceDies
    <2>1. UNCHANGED gatewayVars
      BY <1>13 DEF ServiceDies
    <2>2. CASE HistCrash
      <3>1. UNCHANGED <<charged, billed, clock>>
        BY <2>2 DEF HistCrash
      <3>2. hreqs' \in [Slots -> HReq]
        BY <2>2, HistCrashEffect DEF TypesInv, HistoryInv, HistoryTypeOK
      <3> QED
        BY <1>3, <2>1, <3>1, <3>2 DEF TypesInv, HistoryInv, HistoryTypeOK
    <2> QED
      BY <1>2, <1>3, <1>13, <2>1, <2>2 DEF ServiceDies
  <1>14. CASE UNCHANGED vars
    BY <1>2, <1>3, <1>14 DEF vars
  <1>15. ASSUME NEW c \in Clients, ClientAsks(c)
         PROVE  HistoryInv' /\ GatewayTyped'
    BY <1>15, AskingTyped
  <1> QED
    BY <1>4, <1>5, <1>6, <1>7, <1>8, <1>9, <1>10, <1>11, <1>12, <1>13, <1>14,
       <1>15 DEF Next

LEMMA InitTyped == Init => TypesInv
  <1> SUFFICES ASSUME Init PROVE TypesInv
    OBVIOUS
  <1>1. UsersInv
    BY InitUsers
  <1>2. HistoryInv
    BY FreeHTyped, FS_EmptySet
       DEF Init, HistoryInit, HistoryInv, HistoryTypeOK
  <1>3. NoToken \in Token
    BY DEF NoToken, Token
  <1>4. GatewayTyped
    BY <1>3, FreeGTyped DEF Init, GatewayTyped
  <1> QED
    BY <1>1, <1>2, <1>4 DEF TypesInv

LEMMA AlwaysTyped == Spec => []TypesInv
  BY InitTyped, NextTyped, PTL DEF Spec

(* The gateway's requests, the tokens, the users table and the histories keep
   their types, and no row of a history is from the future. *)
THEOREM GatewayTypes == Spec => []TypeOK
  <1>1. TypesInv => TypeOK
    BY DEF TypesInv, UsersInv, RequestsInv, AccountsInv, AuthTypeOK,
           HistoryInv, GatewayTyped, TypeOK
  <1> QED
    BY <1>1, AlwaysTyped, PTL

-----------------------------------------------------------------------------
(* What auth-service does to its slots. *)

(* The accounts with an address are those that have its text. *)
LEMMA AddressFound ==
  ASSUME AccountsInv, NEW email \in Email, NEW u \in users
  PROVE  u \in GetByEmail(email) <=> u.email.text = email.text
  <1>1. /\ u.email \in Email /\ u.email.pad = FALSE /\ u.email.upper = FALSE
    BY DEF AccountsInv, AddressesCanonical, User, Email
  <1>2. u.email = [text |-> u.email.text, pad |-> FALSE, upper |-> FALSE]
    BY <1>1 DEF Email
  <1>3. Canonical(email) = [text |-> email.text, pad |-> FALSE, upper |-> FALSE]
    BY CanonicalKeepsText
  <1>4. u \in GetByEmail(email) <=> u.email = Canonical(email)
    BY DEF GetByEmail
  <1>5. Canonical(email).text = email.text
    BY <1>3
  <1> QED
    BY <1>2, <1>3, <1>4, <1>5

LEMMA AnswerEffect ==
  ASSUME areqs \in [Slots -> AReq], NEW s \in Slots, NEW status \in Nat,
         NEW id \in Nat, Answer(s, status, id)
  PROVE  /\ \A t \in Slots \ {s} : areqs'[t] = areqs[t]
         /\ areqs[s].open =>
              /\ Answered(areqs'[s]) /\ areqs'[s].open
              /\ areqs'[s].kind = areqs[s].kind
              /\ areqs'[s].email = areqs[s].email
              /\ areqs'[s].password = areqs[s].password
              /\ areqs'[s].user = id /\ areqs'[s].status = status
         /\ ~areqs[s].open => areqs'[s] = FreeAReq
  <1> DEFINE outcome == IF status \in {200, 201} THEN "ok" ELSE "err"
             answered == [areqs[s] EXCEPT !.status = status, !.user = id]
             r == Finish(answered, outcome, FreeAReq)
  <1>1. areqs' = [areqs EXCEPT ![s] = r]
    BY DEF Answer
  <1>2. areqs[s] \in AReq
    OBVIOUS
  <1>3. /\ answered \in AReq
        /\ answered.open = areqs[s].open /\ answered.kind = areqs[s].kind
        /\ answered.email = areqs[s].email
        /\ answered.password = areqs[s].password
        /\ answered.status = status /\ answered.user = id
    BY <1>2 DEF AReq
  <1>4. outcome \in {"ok", "err"}
    OBVIOUS
  <1> HIDE DEF answered, outcome
  <1>5. CASE areqs[s].open
    <2> DEFINE done == [answered EXCEPT !.pc = outcome]
    <2>1. r = done
      BY <1>3, <1>5 DEF Finish
    <2>2. /\ done \in AReq /\ done.pc = outcome
          /\ done.open = answered.open /\ done.kind = answered.kind
          /\ done.email = answered.email /\ done.user = answered.user
          /\ done.password = answered.password
          /\ done.status = answered.status
      BY <1>3, <1>4 DEF AReq
    <2> HIDE DEF done
    <2>3. areqs' = [areqs EXCEPT ![s] = done]
      BY <1>1, <2>1
    <2> QED
      BY <1>3, <1>4, <1>5, <2>2, <2>3 DEF Answered
  <1>6. CASE ~areqs[s].open
    <2>1. r = FreeAReq
      BY <1>3, <1>6 DEF Finish
    <2> QED
      BY <1>1, <1>6, <2>1
  <1> QED
    BY <1>5, <1>6, <1>2 DEF AReq

LEMMA AuthAbandonEffect ==
  ASSUME areqs \in [Slots -> AReq], NEW s \in Slots, AuthAbandon(s)
  PROVE  /\ UNCHANGED <<users, nextUser>>
         /\ \A t \in Slots \ {s} : areqs'[t] = areqs[t]
         /\ ~Answered(areqs'[s])
         /\ areqs'[s].pc \in {"free", areqs[s].pc}
         /\ areqs'[s].pc # "free" => areqs'[s].kind = areqs[s].kind
  <1>1. /\ areqs' = [areqs EXCEPT ![s] = Abandon(areqs[s], FreeAReq)]
        /\ UNCHANGED <<users, nextUser>>
    BY DEF AuthAbandon
  <1>2. CASE Answered(areqs[s])
    <2>1. areqs' = [areqs EXCEPT ![s] = FreeAReq]
      BY <1>1, <1>2 DEF Abandon
    <2> QED
      BY <1>1, <2>1 DEF FreeAReq, Answered
  <1>3. CASE ~Answered(areqs[s])
    <2> DEFINE left == [areqs[s] EXCEPT !.open = FALSE]
    <2>1. left.pc = areqs[s].pc /\ left.kind = areqs[s].kind
      BY DEF AReq
    <2>2. areqs' = [areqs EXCEPT ![s] = left]
      BY <1>1, <1>3 DEF Abandon
    <2> HIDE DEF left
    <2> QED
      BY <1>1, <1>3, <2>1, <2>2 DEF Answered
  <1> QED
    BY <1>2, <1>3

LEMMA AuthCrashEffect ==
  ASSUME areqs \in [Slots -> AReq], AuthCrash, NEW s \in Slots
  PROVE  /\ UNCHANGED <<users, nextUser>>
         /\ \/ areqs'[s] = FreeAReq /\ ~areqs[s].open
            \/ /\ areqs'[s].open /\ areqs'[s].pc = "err"
               /\ areqs'[s].status = 0
               /\ areqs'[s].kind = areqs[s].kind
               /\ areqs'[s].email = areqs[s].email
               /\ areqs'[s].password = areqs[s].password
  <1> DEFINE zero == [areqs[s] EXCEPT !.status = 0]
             broken == [zero EXCEPT !.pc = "err"]
  <1>1. areqs'[s] = Broken(zero, FreeAReq) /\ UNCHANGED <<users, nextUser>>
    BY DEF AuthCrash
  <1>2. areqs[s] \in AReq
    OBVIOUS
  <1>3. /\ zero \in AReq /\ zero.open = areqs[s].open
        /\ zero.kind = areqs[s].kind /\ zero.email = areqs[s].email
        /\ zero.password = areqs[s].password /\ zero.status = 0
    BY <1>2 DEF AReq
  <1> HIDE DEF zero
  <1>4. /\ broken.pc = "err" /\ broken.open = zero.open
        /\ broken.kind = zero.kind /\ broken.email = zero.email
        /\ broken.password = zero.password /\ broken.status = zero.status
    BY <1>3 DEF AReq
  <1>5. Broken(zero, FreeAReq) = IF zero.open THEN broken ELSE FreeAReq
    BY DEF Broken
  <1> HIDE DEF broken
  <1> QED
    BY <1>1, <1>3, <1>4, <1>5

LEMMA AuthReceiveEffect ==
  ASSUME areqs \in [Slots -> AReq], NEW s \in Slots,
         NEW kind \in {"signup", "login"}, NEW email \in Email,
         NEW password \in Password, AuthReceive(s, kind, email, password)
  PROVE  /\ UNCHANGED <<users, nextUser>>
         /\ areqs[s].pc = "free"
         /\ \A t \in Slots \ {s} : areqs'[t] = areqs[t]
         /\ areqs'[s].pc \in {"recv", "err"} /\ areqs'[s].open
         /\ areqs'[s].kind = kind
         /\ areqs'[s].email.text = email.text
         /\ areqs'[s].password.text = password.text
         /\ areqs'[s].status \in {0, 400}
  <1> DEFINE blank == None \in {email.text, password.text}
             r == [pc |-> IF blank THEN "err" ELSE "recv", open |-> TRUE,
                   kind |-> kind, email |-> TrimSpace(email),
                   password |-> TrimSpace(password), user |-> 0,
                   status |-> IF blank THEN 400 ELSE 0]
  <1>1. TrimSpace(email).text = email.text
    BY DEF TrimSpace, Email
  <1>2. TrimSpace(password).text = password.text
    BY DEF TrimSpace, Password
  <1>3. /\ r.pc \in {"recv", "err"} /\ r.open /\ r.kind = kind
        /\ r.email = TrimSpace(email) /\ r.password = TrimSpace(password)
        /\ r.status \in {0, 400}
    OBVIOUS
  <1>4. /\ areqs[s].pc = "free" /\ areqs' = [areqs EXCEPT ![s] = r]
        /\ UNCHANGED <<users, nextUser>>
    BY DEF AuthReceive
  <1> HIDE DEF r
  <1> QED
    BY <1>1, <1>2, <1>3, <1>4

(* An answer of this kind with the record r is so, given the accounts. *)
AnswerTrue(table, kind, r) ==
    /\ kind = "signup" =>
         /\ r.status = 201 => \E u \in Fits(table, r) : u.id = r.user
         /\ r.status = 409 => \E u \in table : u.email.text = r.email.text
    /\ kind = "login" /\ r.status = 200 => \E u \in Fits(table, r) : u.id = r.user

(* Accounts are never removed, so what is so stays so. *)
LEMMA AnswerStaysTrue ==
  ASSUME NEW table, NEW larger, table \subseteq larger, NEW kind, NEW r,
         AnswerTrue(table, kind, r)
  PROVE  AnswerTrue(larger, kind, r)
  BY DEF AnswerTrue, Fits

(* A true answer to a request is a true answer to the client that typed the
   credentials. *)
LEMMA AnswerPassedOn ==
  ASSUME NEW table, NEW kind, NEW r, NEW g, AnswerTrue(table, kind, r),
         g.email.text = r.email.text, g.password.text = r.password.text,
         g.user = r.user, g.status = r.status
  PROVE  AnswerTrue(table, kind, g)
  BY DEF AnswerTrue, Fits

(* A step of a handler ends its request with a true answer, or goes on. *)
LEMMA AuthStepEffect ==
  ASSUME RequestsInv, AccountsInv, NEW s \in Slots, AuthStep(s)
  PROVE  LET r == areqs[s]
             n == areqs'[s]
         IN  /\ r.pc \in {"recv", "checked"}
             /\ users \subseteq users'
             /\ \A t \in Slots \ {s} : areqs'[t] = areqs[t]
             /\ \/ ~r.open /\ n = FreeAReq
                \/ /\ n.open = r.open /\ n.kind = r.kind
                   /\ n.email = r.email /\ n.password = r.password
                   /\ \/ n.pc = "checked" /\ n.kind = "signup"
                      \/ /\ Answered(n) /\ AnswerTrue(users', n.kind, n)
                         /\ n.kind = "signup" /\ n.status = 201 =>
                              \A u \in users : u.email.text # n.email.text
                         /\ n.kind = "login" /\ n.status = 401 =>
                              Fits(users, n) = {}
  <1> DEFINE r == areqs[s]
             n == areqs'[s]
             Others == \A t \in Slots \ {s} : areqs'[t] = areqs[t]
             Same == /\ n.open = r.open /\ n.kind = r.kind
                     /\ n.email = r.email /\ n.password = r.password
             Told(status, id) ==
               /\ Others
               /\ \/ ~r.open /\ n = FreeAReq
                  \/ Same /\ Answered(n) /\ n.status = status /\ n.user = id
  <1>1. areqs \in [Slots -> AReq] /\ r \in AReq /\ r.email \in Email
    BY DEF RequestsInv, AReq
  <1>2. \A status, id \in Nat : Answer(s, status, id) => Told(status, id)
    <2> SUFFICES ASSUME NEW status \in Nat, NEW id \in Nat,
                        Answer(s, status, id)
                 PROVE  Told(status, id)
      OBVIOUS
    <2>1. /\ \A t \in Slots \ {s} : areqs'[t] = areqs[t]
          /\ areqs[s].open =>
               /\ Answered(areqs'[s]) /\ areqs'[s].open
               /\ areqs'[s].kind = areqs[s].kind
               /\ areqs'[s].email = areqs[s].email
               /\ areqs'[s].password = areqs[s].password
               /\ areqs'[s].user = id /\ areqs'[s].status = status
          /\ ~areqs[s].open => areqs'[s] = FreeAReq
      BY <1>1, AnswerEffect
    <2>2. areqs[s].open \in BOOLEAN
      BY <1>1 DEF AReq
    <2> QED
      BY <2>1, <2>2
  <1>3. \A u \in users : u \in GetByEmail(r.email) <=> u.email.text = r.email.text
    BY <1>1, AddressFound
  <1>4. nextUser \in Nat /\ \A u \in users : u.id \in Nat
    BY DEF AccountsInv, User
  <1>5. CASE CheckEmail(s)
    <2>1. r.pc = "recv" /\ r.kind = "signup" /\ users' = users
      BY <1>5 DEF CheckEmail
    <2>2. CASE GetByEmail(r.email) # {} /\ Answer(s, 409, 0)
      <3>1. Told(409, 0)
        BY <1>2, <2>2
      <3>2. \E u \in users : u.email.text = r.email.text
        BY <1>3, <2>2 DEF GetByEmail
      <3> HIDE DEF r, n
      <3> QED
        BY <2>1, <3>1, <3>2 DEF AnswerTrue, r, n
    <2>3. CASE areqs' = [areqs EXCEPT ![s].pc = "checked"]
      <3>1. Others
        BY <2>3
      <3>2. Same /\ n.pc = "checked"
        BY <1>1, <2>3 DEF AReq
      <3> QED
        BY <2>1, <3>1, <3>2
    <2>4. CASE Answer(s, 500, 0)
      <3>1. Told(500, 0)
        BY <1>2, <2>4
      <3> QED
        BY <2>1, <3>1 DEF AnswerTrue
    <2> QED
      BY <1>5, <2>2, <2>3, <2>4 DEF CheckEmail
  <1>6. CASE \E acked \in BOOLEAN : Create(s, acked)
    <2>1. PICK acked \in BOOLEAN : Create(s, acked)
      BY <1>6
    <2> DEFINE new == [id |-> nextUser, email |-> Canonical(r.email),
                       hash |-> r.password.text]
    <2>2. /\ r.pc = "checked" /\ users' = users \cup {new}
          /\ Answer(s, 201, nextUser) \/ Answer(s, 500, 0)
          /\ GetByEmail(r.email) = {}
      BY <2>1 DEF Create, Insert
    <2>3. /\ new.id = nextUser /\ new.hash = r.password.text
          /\ new.email.text = r.email.text
      BY <1>1, CanonicalKeepsText
    <2> HIDE DEF new
    <2>4. \A u \in users : u.email.text # r.email.text
      BY <1>3, <2>2
    <2>5. new \in Fits(users', r)
      BY <2>2, <2>3 DEF Fits
    <2>6. CASE Answer(s, 201, nextUser)
      <3>1. Told(201, nextUser)
        BY <1>2, <1>4, <2>6
      <3>2. CASE ~r.open /\ n = FreeAReq
        BY <2>2, <3>1, <3>2
      <3>3. CASE Same /\ Answered(n) /\ n.status = 201 /\ n.user = nextUser
        <4>1. new \in Fits(users', n)
          BY <2>5, <3>3 DEF Fits
        <4>2. AnswerTrue(users', n.kind, n)
          BY <2>3, <3>3, <4>1 DEF AnswerTrue
        <4> QED
          BY <2>2, <2>4, <3>1, <3>3, <4>2
      <3> QED
        BY <3>1, <3>2, <3>3
    <2>7. CASE Answer(s, 500, 0)
      <3>1. Told(500, 0)
        BY <1>2, <2>7
      <3> QED
        BY <2>2, <3>1 DEF AnswerTrue
    <2> QED
      BY <2>2, <2>6, <2>7
  <1>7. CASE CreateRefused(s) \/ AuthDbError(s)
    <2>1. /\ r.pc \in {"recv", "checked"} /\ users' = users
          /\ Answer(s, 500, 0)
      <3>1. CASE CreateRefused(s)
        BY <3>1 DEF CreateRefused
      <3>2. CASE AuthDbError(s)
        BY <3>2 DEF AuthDbError
      <3> QED
        BY <1>7, <3>1, <3>2
    <2>2. Told(500, 0)
      <3>1. Answer(s, 500, 0)
        BY <2>1
      <3> HIDE DEF Told
      <3> QED
        BY <1>2, <3>1
    <2> QED
      BY <2>1, <2>2 DEF AnswerTrue
  <1>8. CASE Login(s)
    <2>1. r.pc = "recv" /\ r.kind = "login" /\ users' = users
      BY <1>8 DEF Login
    <2>2. CASE /\ ~\E u \in GetByEmail(r.email) : Compare(u.hash, r.password)
               /\ Answer(s, 401, 0)
      <3>1. Told(401, 0)
        BY <1>2, <2>2
      <3>2. Fits(users, r) = {}
        BY <1>3, <2>2 DEF Fits, Compare
      <3>3. Same => Fits(users, n) = Fits(users, r)
        BY DEF Fits
      <3> QED
        BY <2>1, <3>1, <3>2, <3>3 DEF AnswerTrue
    <2>3. CASE \E u \in GetByEmail(r.email) :
                 Compare(u.hash, r.password) /\ GenerateToken(s, u.id)
      <3>1. PICK u \in GetByEmail(r.email) :
              Compare(u.hash, r.password) /\ GenerateToken(s, u.id)
        BY <2>3
      <3>2. u \in users
        BY <3>1 DEF GetByEmail
      <3>3. u \in Fits(users, r)
        BY <1>3, <3>1, <3>2 DEF Fits, Compare
      <3>4. Told(500, 0) \/ Told(200, u.id)
        BY <1>2, <1>4, <3>1, <3>2 DEF GenerateToken
      <3>5. Same => Fits(users, n) = Fits(users, r)
        BY DEF Fits
      <3>6. Told(500, 0) => Others /\ (\/ ~r.open /\ n = FreeAReq
                                       \/ Same /\ Answered(n) /\ n.status = 500)
        OBVIOUS
      <3>7. CASE Told(500, 0)
        BY <2>1, <3>6, <3>7 DEF AnswerTrue
      <3>8. CASE Told(200, u.id)
        BY <2>1, <3>3, <3>5, <3>8 DEF AnswerTrue
      <3> QED
        BY <3>4, <3>7, <3>8
    <2> QED
      BY <1>8, <2>2, <2>3 DEF Login
  <1> QED
    BY <1>5, <1>6, <1>7, <1>8 DEF AuthStep

-----------------------------------------------------------------------------
(* Signups and logins between the gateway and auth-service. *)

AuthRoutes == {"signup", "login"}

(* The clients whose request is with auth-service. *)
AuthCallers ==
    {c \in Clients : greqs[c].pc = "wait" /\ greqs[c].route \in AuthRoutes}

(* Each of them has a slot of its own, which holds what it typed; a call to
   the stations has none. *)
AuthCalls ==
    /\ \A c \in AuthCallers :
         /\ greqs[c].up \in Slots
         /\ areqs[greqs[c].up].pc # "free" /\ areqs[greqs[c].up].open
         /\ areqs[greqs[c].up].kind = greqs[c].route
         /\ areqs[greqs[c].up].email.text = greqs[c].email.text
         /\ areqs[greqs[c].up].password.text = greqs[c].password.text
    /\ \A c, d \in AuthCallers : greqs[c].up = greqs[d].up => c = d
    /\ \A c \in Clients :
         greqs[c].pc = "wait" /\ greqs[c].route = "stations" =>
           greqs[c].up = None

(* The answers of auth-service, on their way and arrived, are so. *)
SlotsTrue ==
    \A s \in Slots :
      Answered(areqs[s]) => AnswerTrue(users, areqs[s].kind, areqs[s])

ClientsTrue ==
    \A c \in Clients :
      greqs[c].pc = "done" => AnswerTrue(users, greqs[c].route, greqs[c])

(* Who is told, or will be, that its account was made. *)
SlotsTold ==
    {s \in Slots : /\ Answered(areqs[s]) /\ areqs[s].kind = "signup"
                   /\ areqs[s].status = 201}

ClientsTold ==
    {c \in Clients : /\ greqs[c].pc = "done" /\ greqs[c].route = "signup"
                     /\ greqs[c].status = 201}

(* No two of them are told so of one address. *)
ToldOnce ==
    /\ \A s, t \in SlotsTold :
         areqs[s].email.text = areqs[t].email.text => s = t
    /\ \A s \in SlotsTold, c \in ClientsTold :
         areqs[s].email.text # greqs[c].email.text
    /\ \A c, d \in ClientsTold :
         greqs[c].email.text = greqs[d].email.text => c = d

(* What fitted when a login arrived fits still, and its refusal says that
   there was nothing. *)
LoginKnown ==
    \A c \in Clients :
      greqs[c].route = "login" =>
        /\ greqs[c].pc = "wait" =>
             /\ greqs[c].known \subseteq Fits(users, greqs[c])
             /\ /\ Answered(areqs[greqs[c].up])
                /\ areqs[greqs[c].up].status = 401
                => greqs[c].known = {}
        /\ greqs[c].pc = "done" /\ greqs[c].status = 401 => greqs[c].known = {}

AuthInv == AuthCalls /\ SlotsTrue /\ ClientsTrue /\ ToldOnce /\ LoginKnown

(* The gateway's request of client c changes, and no other; c neither waits
   for auth-service nor has an answer of it. *)
Quiet(c) ==
    /\ \A d \in Clients \ {c} : greqs'[d] = greqs[d]
    /\ greqs'[c].route \in AuthRoutes =>
         greqs'[c].pc = "done" /\ greqs'[c].status = 502
    /\ greqs'[c].pc = "wait" /\ greqs'[c].route = "stations" =>
         greqs'[c].up = None

(* A step of a handler. *)
LEMMA AuthStepKeepsAnswers ==
  ASSUME TypesInv, AuthInv, NEW s \in Slots, AuthStep(s), greqs' = greqs
  PROVE  AuthInv'
  <1> DEFINE r == areqs[s]
             n == areqs'[s]
  <1>1. /\ r.pc \in {"recv", "checked"}
        /\ users \subseteq users'
        /\ \A t \in Slots \ {s} : areqs'[t] = areqs[t]
        /\ \/ ~r.open /\ n = FreeAReq
           \/ /\ n.open = r.open /\ n.kind = r.kind
              /\ n.email = r.email /\ n.password = r.password
              /\ \/ n.pc = "checked" /\ n.kind = "signup"
                 \/ /\ Answered(n) /\ AnswerTrue(users', n.kind, n)
                    /\ n.kind = "signup" /\ n.status = 201 =>
                         \A u \in users : u.email.text # n.email.text
                    /\ n.kind = "login" /\ n.status = 401 =>
                         Fits(users, n) = {}
    BY AuthStepEffect DEF TypesInv, UsersInv
  <1> HIDE DEF r, n
  <1>2. ~Answered(FreeAReq)
    BY DEF Answered, FreeAReq
  <1>3. ~Answered(r)
    BY <1>1 DEF Answered
  <1>4. AuthCallers' = AuthCallers /\ ClientsTold' = ClientsTold
    BY DEF AuthCallers, ClientsTold
  <1>5. AuthCalls'
    <2>1. ASSUME NEW c \in AuthCallers
          PROVE  /\ areqs'[greqs[c].up].pc # "free" /\ areqs'[greqs[c].up].open
                 /\ areqs'[greqs[c].up].kind = greqs[c].route
                 /\ areqs'[greqs[c].up].email.text = greqs[c].email.text
                 /\ areqs'[greqs[c].up].password.text = greqs[c].password.text
      <3>1. CASE greqs[c].up = s
        BY <1>1, <3>1 DEF AuthInv, AuthCalls, Answered, r, n
      <3>2. CASE greqs[c].up # s
        BY <1>1, <3>2 DEF AuthInv, AuthCalls
      <3> QED
        BY <3>1, <3>2
    <2> QED
      BY <1>4, <2>1 DEF AuthInv, AuthCalls
  <1>6. SlotsTrue'
    <2> SUFFICES ASSUME NEW t \in Slots, Answered(areqs'[t])
                 PROVE  AnswerTrue(users', areqs'[t].kind, areqs'[t])
      BY DEF SlotsTrue
    <2>1. CASE t = s
      BY <1>1, <1>2, <2>1 DEF Answered, n
    <2>2. CASE t # s
      BY <1>1, <2>2, AnswerStaysTrue DEF AuthInv, SlotsTrue
    <2> QED
      BY <2>1, <2>2
  <1>7. ClientsTrue'
    BY <1>1, AnswerStaysTrue DEF AuthInv, ClientsTrue
  <1>8. ToldOnce'
    <2>1. \A t \in SlotsTold' : t # s => t \in SlotsTold /\ areqs'[t] = areqs[t]
      BY <1>1 DEF SlotsTold
    <2>2. \A t \in SlotsTold : \E u \in users : u.email.text = areqs[t].email.text
      BY DEF AuthInv, SlotsTrue, SlotsTold, AnswerTrue, Fits
    <2>3. \A c \in ClientsTold : \E u \in users : u.email.text = greqs[c].email.text
      BY DEF AuthInv, ClientsTrue, ClientsTold, AnswerTrue, Fits
    <2>4. s \in SlotsTold' => \A u \in users : u.email.text # areqs'[s].email.text
      BY <1>1, <1>2 DEF SlotsTold, Answered, n
    <2> QED
      BY <1>4, <2>1, <2>2, <2>3, <2>4 DEF AuthInv, ToldOnce
  <1>9. LoginKnown'
    <2> SUFFICES ASSUME NEW c \in Clients, greqs[c].route = "login",
                        greqs[c].pc = "wait"
                 PROVE  /\ greqs[c].known \subseteq Fits(users', greqs[c])
                        /\ /\ Answered(areqs'[greqs[c].up])
                           /\ areqs'[greqs[c].up].status = 401
                           => greqs[c].known = {}
      BY DEF AuthInv, LoginKnown
    <2>1. greqs[c].known \subseteq Fits(users, greqs[c])
      BY DEF AuthInv, LoginKnown
    <2>2. Fits(users, greqs[c]) \subseteq Fits(users', greqs[c])
      BY <1>1 DEF Fits
    <2>3. c \in AuthCallers
      BY DEF AuthCallers, AuthRoutes
    <2>4. ASSUME greqs[c].up = s, Answered(n), n.status = 401
          PROVE  greqs[c].known = {}
      <3>1. /\ r.open /\ r.kind = "login"
            /\ r.email.text = greqs[c].email.text
            /\ r.password.text = greqs[c].password.text
        BY <2>3, <2>4 DEF AuthInv, AuthCalls, r
      <3>2. n.email = r.email /\ n.password = r.password /\ Fits(users, n) = {}
        BY <1>1, <2>4, <3>1 DEF Answered
      <3>3. Fits(users, greqs[c]) = Fits(users, n)
        BY <3>1, <3>2 DEF Fits
      <3> QED
        BY <2>1, <3>2, <3>3
    <2>5. ASSUME greqs[c].up # s
          PROVE  areqs'[greqs[c].up] = areqs[greqs[c].up]
      BY <1>1, <2>3, <2>5 DEF AuthInv, AuthCalls
    <2> QED
      BY <2>1, <2>2, <2>4, <2>5 DEF n, AuthInv, LoginKnown
  <1> QED
    BY <1>5, <1>6, <1>7, <1>8, <1>9 DEF AuthInv

(* The process dies: what was open is answered with a broken connection. *)
LEMMA AuthCrashKeepsAnswers ==
  ASSUME TypesInv, AuthInv, AuthCrash, greqs' = greqs
  PROVE  AuthInv'
  <1>1. /\ users' = users
        /\ \A s \in Slots :
             \/ areqs'[s] = FreeAReq /\ ~areqs[s].open
             \/ /\ areqs'[s].open /\ areqs'[s].pc = "err"
                /\ areqs'[s].status = 0
                /\ areqs'[s].kind = areqs[s].kind
                /\ areqs'[s].email = areqs[s].email
                /\ areqs'[s].password = areqs[s].password
    BY AuthCrashEffect DEF TypesInv, UsersInv, RequestsInv, AuthCrash
  <1>2. ~Answered(FreeAReq)
    BY DEF Answered, FreeAReq
  <1>3. AuthCallers' = AuthCallers /\ ClientsTold' = ClientsTold
    BY DEF AuthCallers, ClientsTold
  <1>4. SlotsTold' = {}
    BY <1>1, <1>2 DEF SlotsTold
  <1>5. AuthCalls'
    BY <1>1, <1>3 DEF AuthInv, AuthCalls
  <1>6. SlotsTrue' /\ ClientsTrue'
    BY <1>1, <1>2 DEF AuthInv, SlotsTrue, ClientsTrue, AnswerTrue
  <1>7. ToldOnce'
    BY <1>3, <1>4 DEF AuthInv, ToldOnce
  <1>8. LoginKnown'
    <2>1. \A c \in AuthCallers : areqs'[greqs[c].up].status = 0
      BY <1>1 DEF AuthInv, AuthCalls
    <2>2. \A c \in Clients : greqs[c].pc = "wait" /\ greqs[c].route = "login"
                               => c \in AuthCallers
      BY DEF AuthCallers, AuthRoutes
    <2> QED
      BY <1>1, <2>1, <2>2 DEF AuthInv, LoginKnown
  <1> QED
    BY <1>5, <1>6, <1>7, <1>8 DEF AuthInv

(* Another request changes, or the one of c is given up: the slot of c, if it
   has one, is no longer answered. *)
LEMMA QuietKeepsAnswers ==
  ASSUME TypesInv, TypesInv', AuthInv, users' = users, NEW c \in Clients, Quiet(c),
         \/ areqs' = areqs
         \/ /\ c \in AuthCallers
            /\ \A t \in Slots \ {greqs[c].up} : areqs'[t] = areqs[t]
            /\ ~Answered(areqs'[greqs[c].up])
  PROVE  AuthInv'
  <1>1. AuthCallers' \subseteq AuthCallers \ {c}
    BY DEF AuthCallers, Quiet
  <1>2. \A d \in AuthCallers' :
          /\ greqs'[d] = greqs[d] /\ greqs[d].up \in Slots
          /\ areqs'[greqs[d].up] = areqs[greqs[d].up]
    BY <1>1 DEF AuthInv, AuthCalls, Quiet, AuthCallers
  <1>3. ClientsTold' \subseteq ClientsTold
    BY DEF ClientsTold, Quiet, AuthRoutes
  <1>4. \A d \in ClientsTold' : d # c /\ greqs'[d] = greqs[d]
    BY DEF ClientsTold, Quiet, AuthRoutes
  <1>5. \A s \in Slots : Answered(areqs'[s]) => areqs'[s] = areqs[s]
    OBVIOUS
  <1>6. SlotsTold' \subseteq SlotsTold /\ \A s \in SlotsTold' : areqs'[s] = areqs[s]
    BY <1>5 DEF SlotsTold
  <1>7. AuthCalls'
    BY <1>1, <1>2 DEF AuthInv, AuthCalls, Quiet
  <1>8. SlotsTrue'
    BY <1>5 DEF AuthInv, SlotsTrue
  <1>9. ClientsTrue'
    <2> SUFFICES ASSUME NEW d \in Clients, greqs'[d].pc = "done"
                 PROVE  AnswerTrue(users, greqs'[d].route, greqs'[d])
      BY DEF ClientsTrue
    <2>1. CASE d = c
      BY <2>1 DEF Quiet, AuthRoutes, AnswerTrue
    <2>2. CASE d # c
      BY <2>2 DEF Quiet, AuthInv, ClientsTrue
    <2> QED
      BY <2>1, <2>2
  <1>10. ToldOnce'
    BY <1>3, <1>4, <1>6 DEF AuthInv, ToldOnce
  <1>11. LoginKnown'
    <2> SUFFICES ASSUME NEW d \in Clients, greqs'[d].route = "login"
                 PROVE  /\ greqs'[d].pc = "wait" =>
                             /\ greqs'[d].known \subseteq Fits(users, greqs'[d])
                             /\ /\ Answered(areqs'[greqs'[d].up])
                                /\ areqs'[greqs'[d].up].status = 401
                                => greqs'[d].known = {}
                        /\ greqs'[d].pc = "done" /\ greqs'[d].status = 401
                             => greqs'[d].known = {}
      BY DEF LoginKnown
    <2>1. CASE d = c
      BY <2>1 DEF Quiet, AuthRoutes
    <2>2. CASE d # c
      <3>1. greqs'[d] = greqs[d]
        BY <2>2 DEF Quiet
      <3>2. greqs[d].pc = "wait" => d \in AuthCallers'
        BY <3>1 DEF AuthCallers, AuthRoutes
      <3> QED
        BY <1>2, <3>1, <3>2 DEF AuthInv, LoginKnown
    <2> QED
      BY <2>1, <2>2
  <1> QED
    BY <1>7, <1>8, <1>9, <1>10, <1>11 DEF AuthInv

(* The answer of auth-service reaches the gateway. *)
LEMMA AuthReturnKeepsAnswers ==
  ASSUME TypesInv, TypesInv', AuthInv, NEW c \in AuthCallers, AuthReturns(c)
  PROVE  AuthInv'
  <1> DEFINE s == greqs[c].up
             r == areqs[s]
             n == greqs'[c]
  <1>1. /\ s \in Slots /\ AuthReply(s)
        /\ GwReturn(c, r.status, r.user, {})
    BY DEF AuthReturns
  <1>2. /\ c \in Clients /\ greqs \in [Clients -> GReq]
        /\ greqs[c].route \in AuthRoutes
        /\ r.status \in Nat /\ r.user \in Nat
    BY <1>1 DEF AuthCallers, TypesInv, GatewayTyped, UsersInv, RequestsInv, AReq
  <1>3. /\ users' = users /\ Answered(r)
        /\ \A t \in Slots \ {s} : areqs'[t] = areqs[t]
        /\ areqs'[s] = FreeAReq
    BY <1>1 DEF AuthReply, TypesInv, UsersInv, RequestsInv
  <1>4. ~Answered(FreeAReq)
    BY DEF Answered, FreeAReq
  <1>5. {} \in SUBSET HRow
    OBVIOUS
  <1>6. CASE r.status = 0
    <2>1. Done(c, 502, 0, {})
      BY <1>1, <1>6 DEF GwReturn
    <2>2. /\ \A d \in Clients \ {c} : greqs'[d] = greqs[d]
          /\ n.pc = "done" /\ n.status = 502
      BY <1>2, <1>5, <2>1, DoneEffect
    <2>3. Quiet(c)
      BY <2>2 DEF Quiet
    <2> QED
      BY <1>2, <1>3, <1>4, <2>3, QuietKeepsAnswers
  <1>7. CASE r.status # 0
    <2>1. Done(c, r.status, r.user, {})
      BY <1>1, <1>7 DEF GwReturn
    <2>2. /\ \A d \in Clients \ {c} : greqs'[d] = greqs[d]
          /\ n.pc = "done" /\ n.route = greqs[c].route
          /\ n.email = greqs[c].email /\ n.password = greqs[c].password
          /\ n.known = greqs[c].known
          /\ n.user = r.user /\ n.status = r.status
      BY <1>2, <1>5, <2>1, DoneEffect
    <2>3. /\ r.kind = n.route
          /\ r.email.text = n.email.text /\ r.password.text = n.password.text
      BY <2>2 DEF AuthInv, AuthCalls
    <2> HIDE DEF r, n
    <2>4. AuthCallers' \subseteq AuthCallers \ {c}
      BY <2>2 DEF AuthCallers, n
    <2>5. \A d \in AuthCallers' :
            /\ d \in AuthCallers
            /\ greqs'[d] = greqs[d] /\ greqs[d].up \in Slots
            /\ greqs[d].up # s
            /\ areqs'[greqs[d].up] = areqs[greqs[d].up]
      BY <1>3, <2>2, <2>4 DEF AuthInv, AuthCalls, AuthCallers
    <2>6. \A t \in Slots : Answered(areqs'[t]) => t # s /\ areqs'[t] = areqs[t]
      BY <1>3, <1>4
    <2>7. \A t \in SlotsTold' : t \in SlotsTold /\ t # s /\ areqs'[t] = areqs[t]
      BY <2>6 DEF SlotsTold
    <2>8. \A d \in ClientsTold' : d # c => d \in ClientsTold /\ greqs'[d] = greqs[d]
      BY <2>2 DEF ClientsTold
    <2>9. c \in ClientsTold' => s \in SlotsTold /\ areqs[s].email.text = n.email.text
      BY <1>1, <1>3, <2>2, <2>3 DEF ClientsTold, SlotsTold, n, r
    <2>10. AuthCalls'
      <3>1. \A d \in Clients :
              greqs'[d].pc = "wait" /\ greqs'[d].route = "stations" =>
                greqs'[d].up = None
        BY <2>2 DEF AuthInv, AuthCalls, n
      <3> QED
        BY <2>4, <2>5, <3>1 DEF AuthInv, AuthCalls
    <2>11. SlotsTrue'
      BY <1>3, <2>6 DEF AuthInv, SlotsTrue
    <2>12. ClientsTrue'
      <3>1. AnswerTrue(users, r.kind, r)
        BY <1>1, <1>3 DEF AuthInv, SlotsTrue, r
      <3>2. AnswerTrue(users, n.route, n)
        BY <2>2, <2>3, <3>1, AnswerPassedOn
      <3> QED
        BY <1>3, <2>2, <3>2 DEF AuthInv, ClientsTrue, n
    <2>13. ToldOnce'
      <3>1. \A d \in ClientsTold' \ {c} :
              s \in SlotsTold => areqs[s].email.text # greqs'[d].email.text
        BY <2>8 DEF AuthInv, ToldOnce
      <3>2. \A t \in SlotsTold' :
              s \in SlotsTold => areqs[s].email.text # areqs'[t].email.text
        BY <2>7 DEF AuthInv, ToldOnce
      <3>3. \A d \in ClientsTold' \ {c} :
              c \in ClientsTold' => greqs'[c].email.text # greqs'[d].email.text
        BY <2>9, <3>1 DEF n
      <3>4. \A t \in SlotsTold' :
              c \in ClientsTold' => greqs'[c].email.text # areqs'[t].email.text
        BY <2>9, <3>2 DEF n
      <3> QED
        BY <2>7, <2>8, <3>3, <3>4 DEF AuthInv, ToldOnce
    <2>14. LoginKnown'
      <3> SUFFICES ASSUME NEW d \in Clients, greqs'[d].route = "login"
                   PROVE  /\ greqs'[d].pc = "wait" =>
                               /\ greqs'[d].known \subseteq Fits(users, greqs'[d])
                               /\ /\ Answered(areqs'[greqs'[d].up])
                                  /\ areqs'[greqs'[d].up].status = 401
                                  => greqs'[d].known = {}
                          /\ greqs'[d].pc = "done" /\ greqs'[d].status = 401
                               => greqs'[d].known = {}
        BY <1>3 DEF LoginKnown
      <3>1. CASE d = c
        <4>1. n.route = "login" /\ greqs[c].route = "login" /\ n.pc = "done"
          BY <2>2, <3>1 DEF n
        <4>2. greqs[c].pc = "wait"
          BY DEF AuthCallers
        <4>3. r.status = 401 => greqs[c].known = {}
          BY <1>2, <1>3, <4>1, <4>2 DEF AuthInv, LoginKnown, r
        <4> QED
          BY <2>2, <3>1, <4>1, <4>3 DEF n
      <3>2. CASE d # c
        <4>1. greqs'[d] = greqs[d]
          BY <2>2, <3>2
        <4>2. greqs[d].pc = "wait" => d \in AuthCallers'
          BY <4>1 DEF AuthCallers, AuthRoutes
        <4> QED
          BY <2>5, <4>1, <4>2 DEF AuthInv, LoginKnown
      <3> QED
        BY <3>1, <3>2
    <2> QED
      BY <2>10, <2>11, <2>12, <2>13, <2>14 DEF AuthInv
  <1> QED
    BY <1>6, <1>7

(* A signup or a login reaches auth-service. *)
LEMMA AuthCallKeepsAnswers ==
  ASSUME TypesInv, TypesInv', AuthInv, NEW c \in Clients, NEW route \in AuthRoutes,
         NEW t \in load.typed, NEW s \in Slots, AuthCall(c, route, t, s)
  PROVE  AuthInv'
  <1> DEFINE r == areqs'[s]
             n == greqs'[c]
  <1>1. t.email \in Email /\ t.password \in Password /\ route \in AllRoutes
    BY GatewayAssumption DEF TypesInv, UsersInv, Load, AuthRoutes, AllRoutes
  <1>2. /\ Asked(c, route, t, s, 0)
        /\ AuthReceive(s, route, t.email, t.password)
    BY DEF AuthCall
  <1>3. /\ greqs[c].pc = "free"
        /\ \A d \in Clients \ {c} : greqs'[d] = greqs[d]
        /\ n.pc = "wait" /\ n.route = route /\ n.email = t.email
        /\ n.password = t.password /\ n.up = s
        /\ route = "login" => n.known = Fits(users, t)
    BY <1>1, <1>2, AskedEffect
  <1>4. /\ users' = users /\ areqs[s].pc = "free"
        /\ \A q \in Slots \ {s} : areqs'[q] = areqs[q]
        /\ r.pc \in {"recv", "err"} /\ r.open /\ r.kind = route
        /\ r.email.text = t.email.text /\ r.password.text = t.password.text
        /\ r.status \in {0, 400}
    BY <1>1, <1>2, AuthReceiveEffect
       DEF AuthRoutes, TypesInv, UsersInv, RequestsInv
  <1> HIDE DEF r, n
  <1>5. \A d \in AuthCallers :
          /\ d # c /\ greqs'[d] = greqs[d] /\ greqs[d].up \in Slots \ {s}
          /\ areqs'[greqs[d].up] = areqs[greqs[d].up]
    BY <1>3, <1>4 DEF AuthInv, AuthCalls, AuthCallers
  <1>6. AuthCallers' = AuthCallers \cup {c}
    BY <1>3 DEF AuthCallers, n
  <1>7. ClientsTold' = ClientsTold /\ c \notin ClientsTold
    BY <1>3 DEF ClientsTold, n
  <1>8. SlotsTold' = SlotsTold /\ s \notin SlotsTold
    BY <1>4 DEF SlotsTold, Answered, r
  <1>9. AuthCalls'
    <2>1. \A d \in AuthCallers' :
            /\ greqs'[d].up \in Slots
            /\ areqs'[greqs'[d].up].pc # "free" /\ areqs'[greqs'[d].up].open
            /\ areqs'[greqs'[d].up].kind = greqs'[d].route
            /\ areqs'[greqs'[d].up].email.text = greqs'[d].email.text
            /\ areqs'[greqs'[d].up].password.text = greqs'[d].password.text
      BY <1>3, <1>4, <1>5, <1>6 DEF AuthInv, AuthCalls, n, r
    <2>2. \A d, e \in AuthCallers' : greqs'[d].up = greqs'[e].up => d = e
      BY <1>3, <1>5, <1>6 DEF AuthInv, AuthCalls, n
    <2>3. \A d \in Clients :
            greqs'[d].pc = "wait" /\ greqs'[d].route = "stations" =>
              greqs'[d].up = None
      BY <1>3 DEF AuthInv, AuthCalls, AuthRoutes, n
    <2> QED
      BY <2>1, <2>2, <2>3 DEF AuthCalls
  <1>10. SlotsTrue'
    <2>1. AnswerTrue(users, r.kind, r)
      BY <1>4 DEF AnswerTrue
    <2> QED
      BY <1>4, <2>1 DEF AuthInv, SlotsTrue, r
  <1>11. ClientsTrue'
    BY <1>3, <1>4 DEF AuthInv, ClientsTrue, n
  <1>12. ToldOnce'
    <2>1. \A q \in SlotsTold : areqs'[q] = areqs[q]
      BY <1>4, <1>8 DEF SlotsTold
    <2>2. \A d \in ClientsTold : greqs'[d] = greqs[d]
      BY <1>3, <1>7 DEF ClientsTold
    <2> QED
      BY <1>7, <1>8, <2>1, <2>2 DEF AuthInv, ToldOnce
  <1>13. LoginKnown'
    <2> SUFFICES ASSUME NEW d \in Clients, greqs'[d].route = "login"
                 PROVE  /\ greqs'[d].pc = "wait" =>
                             /\ greqs'[d].known \subseteq Fits(users, greqs'[d])
                             /\ /\ Answered(areqs'[greqs'[d].up])
                                /\ areqs'[greqs'[d].up].status = 401
                                => greqs'[d].known = {}
                        /\ greqs'[d].pc = "done" /\ greqs'[d].status = 401
                             => greqs'[d].known = {}
      BY <1>4 DEF LoginKnown
    <2>1. CASE d = c
      <3>1. Fits(users, n) = Fits(users, t)
        BY <1>3 DEF Fits
      <3> QED
        BY <1>3, <1>4, <2>1, <3>1 DEF n, r
    <2>2. CASE d # c
      <3>1. greqs'[d] = greqs[d]
        BY <1>3, <2>2
      <3>2. greqs[d].pc = "wait" => d \in AuthCallers
        BY <3>1 DEF AuthCallers, AuthRoutes
      <3> QED
        BY <1>5, <3>1, <3>2 DEF AuthInv, LoginKnown
    <2> QED
      BY <2>1, <2>2
  <1> QED
    BY <1>9, <1>10, <1>11, <1>12, <1>13 DEF AuthInv

(* A request whose call is given up, or fails. *)
LEMMA DropKeepsAnswers ==
  ASSUME TypesInv, TypesInv', AuthInv, NEW c \in Clients, greqs[c].pc = "wait",
         DropCall(c), Quiet(c)
  PROVE  AuthInv'
  <1>1. CASE UNCHANGED authVars
    BY <1>1, QuietKeepsAnswers DEF authVars
  <1>2. CASE /\ greqs[c].up \in Slots /\ greqs[c].route \notin Private
             /\ AuthAbandon(greqs[c].up)
    <2>1. greqs[c].route \in AllRoutes
      BY DEF TypesInv, GatewayTyped, GReq
    <2>2. greqs[c].route # "stations"
      BY <1>2, RequestsAssumption DEF AuthInv, AuthCalls
    <2>3. c \in AuthCallers
      BY <1>2, <2>1, <2>2 DEF AuthCallers, AuthRoutes, AllRoutes, Private
    <2>4. /\ users' = users
          /\ \A t \in Slots \ {greqs[c].up} : areqs'[t] = areqs[t]
          /\ ~Answered(areqs'[greqs[c].up])
      BY <1>2, AuthAbandonEffect DEF TypesInv, UsersInv, RequestsInv
    <2> QED
      BY <2>3, <2>4, QuietKeepsAnswers
  <1> QED
    BY <1>1, <1>2 DEF DropCall

(* Every step preserves the invariant. *)
LEMMA NextKeepsAnswers ==
  ASSUME TypesInv, TypesInv', AuthInv, [Next]_vars
  PROVE  AuthInv'
  <1>1. ASSUME UNCHANGED <<users, areqs, greqs>>
        PROVE  AuthInv'
    BY <1>1
       DEF AuthInv, AuthCalls, AuthCallers, SlotsTrue, ClientsTrue, ToldOnce,
           SlotsTold, ClientsTold, LoginKnown
  <1>2. greqs \in [Clients -> GReq] /\ {} \in SUBSET HRow
    BY DEF TypesInv, GatewayTyped
  <1>3. ASSUME NEW c \in Clients, greqs' = [greqs EXCEPT ![c] = FreeGReq]
        PROVE  Quiet(c)
    <2>1. greqs'[c] = FreeGReq /\ \A d \in Clients \ {c} : greqs'[d] = greqs[d]
      BY <1>2, <1>3
    <2> QED
      BY <2>1 DEF Quiet, FreeGReq, AuthRoutes
  <1>4. ASSUME NEW c \in Clients, ClientAsks(c)
        PROVE  AuthInv'
    <2>1. PICK route \in load.routes :
            \/ Unauthorized(c, route)
            \/ Unreachable(c, route)
            \/ StationsCall(c, route)
            \/ \E s \in Slots : \/ HistoryCall(c, route, s)
                                \/ \E t \in load.typed : AuthCall(c, route, t, s)
      BY <1>4 DEF ClientAsks
    <2>2. route \in AllRoutes
      BY GatewayAssumption DEF TypesInv, UsersInv, Load
    <2>3. Nothing.email \in Email /\ Nothing.password \in Password
      BY DEF Nothing, NoEmail, NoPassword, Email, Password
    <2>4. ASSUME NEW s \in Slots \cup {None}, NEW status \in Nat,
                 Asked(c, route, Nothing, s, status),
                 status = 502 \/ route \notin AuthRoutes,
                 route = "stations" => s = None
          PROVE  Quiet(c)
      <3>1. /\ \A d \in Clients \ {c} : greqs'[d] = greqs[d]
            /\ greqs'[c].pc = IF status = 0 THEN "wait" ELSE "done"
            /\ greqs'[c].route = route /\ greqs'[c].status = status
            /\ greqs'[c].up = s
        BY <2>2, <2>3, <2>4, AskedEffect
      <3> QED
        BY <2>4, <3>1 DEF Quiet
    <2>5. CASE Unauthorized(c, route)
      <3>1. Asked(c, route, Nothing, None, 401) /\ route \in Private
        BY <2>5 DEF Unauthorized
      <3>2. Quiet(c)
        BY <2>4, <3>1 DEF Private, AuthRoutes
      <3> QED
        BY <2>5, <3>2, QuietKeepsAnswers DEF Unauthorized, authVars
    <2>6. CASE Unreachable(c, route)
      <3>1. Asked(c, route, Nothing, None, 502)
        BY <2>6 DEF Unreachable
      <3>2. Quiet(c)
        BY <2>4, <3>1
      <3> QED
        BY <2>6, <3>2, QuietKeepsAnswers DEF Unreachable, authVars
    <2>7. CASE StationsCall(c, route)
      <3>1. Asked(c, route, Nothing, None, 0) /\ route = "stations"
        BY <2>7 DEF StationsCall
      <3>2. Quiet(c)
        BY <2>4, <3>1 DEF AuthRoutes
      <3> QED
        BY <2>7, <3>2, QuietKeepsAnswers DEF StationsCall, authVars
    <2>8. CASE \E s \in Slots : HistoryCall(c, route, s)
      <3>1. PICK s \in Slots : HistoryCall(c, route, s)
        BY <2>8
      <3>2. Asked(c, route, Nothing, s, 0) /\ route \in Private
        BY <3>1 DEF HistoryCall
      <3>3. Quiet(c)
        BY <2>4, <3>2 DEF Private, AuthRoutes
      <3> QED
        BY <3>1, <3>3, QuietKeepsAnswers DEF HistoryCall, authVars
    <2>9. CASE \E s \in Slots, t \in load.typed : AuthCall(c, route, t, s)
      <3>1. PICK s \in Slots, t \in load.typed : AuthCall(c, route, t, s)
        BY <2>9
      <3>2. route \in AuthRoutes
        BY <3>1 DEF AuthCall, AuthRoutes
      <3> QED
        BY <3>1, <3>2, AuthCallKeepsAnswers
    <2> QED
      BY <2>1, <2>5, <2>6, <2>7, <2>8, <2>9
  <1>5. ASSUME NEW c \in Clients, ClientReads(c)
        PROVE  AuthInv'
    BY <1>3, <1>5, QuietKeepsAnswers DEF ClientReads, authVars
  <1>6. ASSUME NEW c \in Clients, ClientLeaves(c)
        PROVE  AuthInv'
    BY <1>3, <1>6, DropKeepsAnswers DEF ClientLeaves
  <1>7. ASSUME NEW c \in Clients, TokenExpires(c)
        PROVE  AuthInv'
    BY <1>1, <1>7 DEF TokenExpires, authVars
  <1>8. ASSUME NEW c \in Clients, AuthReturns(c)
        PROVE  AuthInv'
    <2>1. greqs[c].route \in AllRoutes
      BY <1>2 DEF GReq
    <2>2. /\ greqs[c].pc = "wait" /\ greqs[c].up \in Slots
          /\ greqs[c].route \notin Private
      BY <1>8 DEF AuthReturns, GwReturn
    <2>3. greqs[c].route # "stations"
      BY <2>2, RequestsAssumption DEF AuthInv, AuthCalls
    <2>4. c \in AuthCallers
      BY <2>1, <2>2, <2>3 DEF AuthCallers, AuthRoutes, AllRoutes, Private
    <2> QED
      BY <1>8, <2>4, AuthReturnKeepsAnswers
  <1>9. ASSUME NEW c \in Clients, NEW status \in Nat, NEW user \in Nat,
               NEW rows \in SUBSET HRow, greqs[c].route \notin AuthRoutes,
               GwReturn(c, status, user, rows), UNCHANGED authVars
        PROVE  AuthInv'
    <2>1. \/ Done(c, 502, 0, {}) \/ Done(c, status, user, rows)
      BY <1>9 DEF GwReturn
    <2>2. /\ \A d \in Clients \ {c} : greqs'[d] = greqs[d]
          /\ greqs'[c].pc = "done" /\ greqs'[c].route = greqs[c].route
      BY <1>2, <2>1, DoneEffect
    <2>3. Quiet(c)
      BY <1>9, <2>2 DEF Quiet
    <2> QED
      BY <1>9, <2>3, QuietKeepsAnswers DEF authVars
  <1>10. ASSUME NEW c \in Clients, HistoryReturns(c)
         PROVE  AuthInv'
    <2>1. /\ greqs[c].up \in Slots /\ greqs[c].route \in Private
          /\ GwReturn(c, hreqs[greqs[c].up].status, greqs[c].user,
                      hreqs[greqs[c].up].rows)
          /\ UNCHANGED authVars
      BY <1>10 DEF HistoryReturns
    <2>2. /\ hreqs[greqs[c].up].status \in Nat
          /\ hreqs[greqs[c].up].rows \in SUBSET HRow
      BY <2>1 DEF TypesInv, HistoryInv, HistoryTypeOK, HReq
    <2>3. greqs[c].user \in Nat
      BY <1>2 DEF GReq
    <2> QED
      BY <1>9, <2>1, <2>2, <2>3 DEF Private, AuthRoutes
  <1>11. ASSUME NEW c \in Clients, StationsReturns(c)
         PROVE  AuthInv'
    <2>1. /\ GwReturn(c, 200, 0, {}) /\ greqs[c].route = "stations"
          /\ UNCHANGED authVars
      BY <1>11 DEF StationsReturns
    <2> QED
      BY <1>2, <1>9, <2>1 DEF AuthRoutes
  <1>12. ASSUME NEW c \in Clients, GwTimeout(c)
         PROVE  AuthInv'
    <2>1. Done(c, 502, 0, {}) /\ DropCall(c) /\ greqs[c].pc = "wait"
      BY <1>12 DEF GwTimeout, GwFails
    <2>2. /\ \A d \in Clients \ {c} : greqs'[d] = greqs[d]
          /\ greqs'[c].pc = "done" /\ greqs'[c].status = 502
      BY <1>2, <2>1, DoneEffect
    <2>3. Quiet(c)
      BY <2>2 DEF Quiet
    <2> QED
      BY <2>1, <2>3, DropKeepsAnswers
  <1>13. ASSUME NEW s \in Slots, AuthWorks(s) \/ HistoryWorks(s)
         PROVE  AuthInv'
    BY <1>1, <1>13, AuthStepKeepsAnswers
       DEF AuthWorks, HistoryWorks, gatewayVars, authVars
  <1>14. CASE StationsCharge
    BY <1>1, <1>14 DEF StationsCharge, gatewayVars, authVars
  <1>15. CASE ServiceDies
    BY <1>1, <1>15, AuthCrashKeepsAnswers DEF ServiceDies, gatewayVars, authVars
  <1>16. CASE UNCHANGED vars
    BY <1>1, <1>16 DEF vars, gatewayVars, authVars
  <1> QED
    BY <1>4, <1>5, <1>6, <1>7, <1>8, <1>10, <1>11, <1>12, <1>13, <1>14, <1>15,
       <1>16 DEF Next

LEMMA AnswersAlways == Spec => []AuthInv
  <1>1. Init => AuthInv
    <2> SUFFICES ASSUME Init PROVE AuthInv
      OBVIOUS
    <2>1. /\ \A s \in Slots : areqs[s].pc = "free"
          /\ \A c \in Clients : greqs[c].pc = "free"
      BY DEF Init, AuthInit, FreeAReq, FreeGReq
    <2> QED
      BY <2>1
         DEF AuthInv, AuthCalls, AuthCallers, SlotsTrue, ClientsTrue, ToldOnce,
             SlotsTold, ClientsTold, LoginKnown, Answered
  <1>2. TypesInv /\ TypesInv' /\ AuthInv /\ [Next]_vars => AuthInv'
    BY NextKeepsAnswers
  <1> QED
    BY <1>1, <1>2, AlwaysTyped, PTL DEF Spec

(* What a signup is told of its account is so, whatever other signups,
   timeouts, lost answers, database errors and crashes come between. *)
THEOREM SignupsTrue == Spec => []SignupAnswersTrue
  <1>1. ASSUME AuthInv PROVE SignupAnswersTrue
    <2> SUFFICES ASSUME NEW c \in Clients, greqs[c].pc = "done",
                        greqs[c].route = "signup"
                 PROVE  LET g == greqs[c]
                        IN  /\ g.status = 201 =>
                                 /\ \E u \in Fitting(g.email, g.password) :
                                      u.id = g.user
                                 /\ \A d \in Clients \ {c} :
                                      greqs[d].pc = "done"
                                      /\ greqs[d].route = "signup"
                                      /\ greqs[d].status = 201 =>
                                        greqs[d].email.text # g.email.text
                            /\ g.status = 409 =>
                                 \E u \in users : u.email.text = g.email.text
      BY DEF SignupAnswersTrue
    <2>1. AnswerTrue(users, "signup", greqs[c])
      BY <1>1 DEF AuthInv, ClientsTrue
    <2>2. Fits(users, greqs[c]) = Fitting(greqs[c].email, greqs[c].password)
      BY DEF Fits, Fitting
    <2>3. greqs[c].status = 201 =>
            \A d \in Clients \ {c} :
              greqs[d].pc = "done" /\ greqs[d].route = "signup"
              /\ greqs[d].status = 201 =>
                greqs[d].email.text # greqs[c].email.text
      BY <1>1 DEF AuthInv, ToldOnce, ClientsTold
    <2> QED
      BY <2>1, <2>2, <2>3 DEF AnswerTrue
  <1> QED
    BY <1>1, AnswersAlways, PTL

(* A login is answered with the account that its credentials fit, and refused
   only if there was none when it arrived. *)
THEOREM LoginsTrue == Spec => []LoginAnswersTrue
  <1>1. ASSUME AuthInv PROVE LoginAnswersTrue
    <2> SUFFICES ASSUME NEW c \in Clients, greqs[c].pc = "done",
                        greqs[c].route = "login"
                 PROVE  LET g == greqs[c]
                        IN  /\ g.status = 200 =>
                                 \E u \in Fitting(g.email, g.password) :
                                   u.id = g.user
                            /\ g.status = 401 => g.known = {}
      BY DEF LoginAnswersTrue
    <2>1. AnswerTrue(users, "login", greqs[c])
      BY <1>1 DEF AuthInv, ClientsTrue
    <2>2. Fits(users, greqs[c]) = Fitting(greqs[c].email, greqs[c].password)
      BY DEF Fits, Fitting
    <2>3. greqs[c].status = 401 => greqs[c].known = {}
      BY <1>1 DEF AuthInv, LoginKnown
    <2> QED
      BY <2>1, <2>2, <2>3 DEF AnswerTrue
  <1> QED
    BY <1>1, AnswersAlways, PTL

-----------------------------------------------------------------------------
(* The keys of accounts, and what float64 makes of them. *)

(* A request that passed the lookup is a signup, and every signup under way
   has a key left of those that the load allows. *)
PendingInv ==
    /\ \A s \in Slots : areqs[s].pc = "checked" => areqs[s].kind = "signup"
    /\ IsFiniteSet(PendingSignups)
    /\ nextUser + Cardinality(PendingSignups) <= load.ids + 1

LEMMA FewerPending ==
  ASSUME TypesInv, PendingInv, load' = load,
         PendingSignups' \subseteq PendingSignups,
         \A s \in Slots : areqs'[s].pc = "checked" => areqs'[s].kind = "signup",
         \/ nextUser' = nextUser
         \/ /\ nextUser' = nextUser + 1
            /\ \E s \in PendingSignups : s \notin PendingSignups'
  PROVE  PendingInv'
  <1>1. /\ nextUser \in Nat /\ load.ids \in Nat /\ IsFiniteSet(PendingSignups)
        /\ nextUser + Cardinality(PendingSignups) <= load.ids + 1
    BY GatewayAssumption DEF TypesInv, UsersInv, AccountsInv, Load, PendingInv
  <1>2. /\ IsFiniteSet(PendingSignups') /\ Cardinality(PendingSignups') \in Nat
        /\ Cardinality(PendingSignups) \in Nat
        /\ Cardinality(PendingSignups') <= Cardinality(PendingSignups)
        /\ Cardinality(PendingSignups') = Cardinality(PendingSignups)
             => PendingSignups' = PendingSignups
    <2>1. PendingSignups' \in SUBSET PendingSignups
      OBVIOUS
    <2>2. IsFiniteSet(PendingSignups')
      BY <1>1, <2>1, FS_Subset
    <2> HIDE DEF PendingSignups
    <2>3. Cardinality(PendingSignups') \in Nat
      BY <2>2, FS_CardinalityType
    <2>4. Cardinality(PendingSignups) \in Nat
      BY <1>1, FS_CardinalityType
    <2>5. /\ Cardinality(PendingSignups') <= Cardinality(PendingSignups)
          /\ Cardinality(PendingSignups') = Cardinality(PendingSignups)
               => PendingSignups' = PendingSignups
      BY <1>1, <2>1, FS_Subset
    <2> QED
      BY <2>2, <2>3, <2>4, <2>5
  <1>3. nextUser' + Cardinality(PendingSignups') <= load.ids + 1
    BY <1>1, <1>2
  <1> QED
    BY <1>2, <1>3 DEF PendingInv

(* A step of a handler keeps the pending signups, or ends the one it is of;
   and only a signup takes a key. *)
LEMMA AuthStepKeepsPending ==
  ASSUME TypesInv, PendingInv, load' = load, NEW s \in Slots, AuthStep(s)
  PROVE  PendingInv'
  <1> DEFINE r == areqs[s]
             n == areqs'[s]
  <1>1. /\ r.pc \in {"recv", "checked"}
        /\ \A t \in Slots \ {s} : areqs'[t] = areqs[t]
        /\ \/ ~r.open /\ n = FreeAReq
           \/ /\ n.kind = r.kind
              /\ (n.pc = "checked" /\ n.kind = "signup") \/ Answered(n)
    BY AuthStepEffect DEF TypesInv, UsersInv
  <1> HIDE DEF r, n
  <1>2. n.pc \in {"free", "ok", "err"} \/ /\ n.pc = "checked" /\ n.kind = r.kind
                                          /\ n.kind = "signup"
    BY <1>1 DEF FreeAReq, Answered
  <1>3. PendingSignups' \subseteq PendingSignups
    BY <1>1, <1>2 DEF PendingSignups, r, n
  <1>4. \A t \in Slots : areqs'[t].pc = "checked" => areqs'[t].kind = "signup"
    BY <1>1, <1>2 DEF PendingInv, n
  <1>5. CASE nextUser' = nextUser
    BY <1>3, <1>4, <1>5, FewerPending
  <1>6. CASE nextUser' # nextUser
    <2>1. CreateRefused(s) \/ \E acked \in BOOLEAN : Create(s, acked)
      BY <1>6 DEF AuthStep, CheckEmail, Login, AuthDbError
    <2>2. r.pc = "checked" /\ nextUser' = nextUser + 1
      BY <2>1 DEF CreateRefused, Create, Insert, r
    <2>3. Answer(s, 201, nextUser) \/ Answer(s, 500, 0)
      BY <2>1 DEF CreateRefused, Create, Insert
    <2>4. n.pc # "checked"
      <3>1. areqs \in [Slots -> AReq] /\ nextUser \in Nat
        BY DEF TypesInv, UsersInv, RequestsInv, AccountsInv
      <3>2. areqs[s].open \in BOOLEAN
        BY <3>1 DEF AReq
      <3>3. Answered(n) \/ n = FreeAReq
        <4>1. CASE Answer(s, 201, nextUser)
          BY <3>1, <3>2, <4>1, AnswerEffect DEF n
        <4>2. CASE Answer(s, 500, 0)
          BY <3>1, <3>2, <4>2, AnswerEffect DEF n
        <4> QED
          BY <2>3, <4>1, <4>2
      <3> QED
        BY <3>3 DEF Answered, FreeAReq
    <2>5. s \in PendingSignups /\ s \notin PendingSignups'
      BY <1>2, <2>2, <2>4 DEF PendingSignups, PendingInv, r, n
    <2> QED
      BY <1>3, <1>4, <2>2, <2>5, FewerPending
  <1> QED
    BY <1>5, <1>6

LEMMA NextKeepsPending ==
  ASSUME TypesInv, PendingInv, [Next]_vars
  PROVE  PendingInv'
  <1>1. load' = load
    BY NextMoves
  <1>2. areqs \in [Slots -> AReq]
    BY DEF TypesInv, UsersInv, RequestsInv
  <1>3. ASSUME UNCHANGED authVars
        PROVE  PendingInv'
    BY <1>1, <1>3 DEF authVars, PendingInv, PendingSignups
  <1>4. ASSUME NEW s \in Slots, AuthAbandon(s)
        PROVE  PendingInv'
    <2>1. /\ nextUser' = nextUser
          /\ \A t \in Slots \ {s} : areqs'[t] = areqs[t]
          /\ areqs'[s].pc \in {"free", areqs[s].pc}
          /\ areqs'[s].pc # "free" => areqs'[s].kind = areqs[s].kind
      BY <1>2, <1>4, AuthAbandonEffect
    <2>2. PendingSignups' \subseteq PendingSignups
      BY <2>1 DEF PendingSignups
    <2>3. \A t \in Slots : areqs'[t].pc = "checked" => areqs'[t].kind = "signup"
      BY <2>1 DEF PendingInv
    <2> QED
      BY <1>1, <2>1, <2>2, <2>3, FewerPending
  <1>5. ASSUME NEW s \in Slots, AuthReply(s)
        PROVE  PendingInv'
    <2>1. /\ nextUser' = nextUser
          /\ \A t \in Slots \ {s} : areqs'[t] = areqs[t]
          /\ areqs'[s].pc = "free"
      BY <1>2, <1>5 DEF AuthReply, FreeAReq
    <2>2. PendingSignups' \subseteq PendingSignups
      BY <2>1 DEF PendingSignups
    <2>3. \A t \in Slots : areqs'[t].pc = "checked" => areqs'[t].kind = "signup"
      BY <2>1 DEF PendingInv
    <2> QED
      BY <1>1, <2>1, <2>2, <2>3, FewerPending
  <1>6. ASSUME NEW c \in Clients, ClientAsks(c)
        PROVE  PendingInv'
    <2>1. PICK route \in load.routes :
            \/ Unauthorized(c, route)
            \/ Unreachable(c, route)
            \/ StationsCall(c, route)
            \/ \E s \in Slots : \/ HistoryCall(c, route, s)
                                \/ \E t \in load.typed : AuthCall(c, route, t, s)
      BY <1>6 DEF ClientAsks
    <2>2. CASE \/ Unauthorized(c, route) \/ Unreachable(c, route)
               \/ StationsCall(c, route)
               \/ \E s \in Slots : HistoryCall(c, route, s)
      BY <1>3, <2>2 DEF Unauthorized, Unreachable, StationsCall, HistoryCall
    <2>3. CASE \E s \in Slots, t \in load.typed : AuthCall(c, route, t, s)
      <3>1. PICK s \in Slots, t \in load.typed : AuthCall(c, route, t, s)
        BY <2>3
      <3>2. /\ t.email \in Email /\ t.password \in Password
            /\ route \in {"signup", "login"}
            /\ AuthReceive(s, route, t.email, t.password)
            /\ route = "signup" =>
                 nextUser + Cardinality(PendingSignups) <= load.ids
        BY <3>1, GatewayAssumption DEF AuthCall, TypesInv, UsersInv, Load
      <3>3. /\ nextUser' = nextUser /\ areqs[s].pc = "free"
            /\ \A q \in Slots \ {s} : areqs'[q] = areqs[q]
            /\ areqs'[s].pc \in {"recv", "err"} /\ areqs'[s].kind = route
        BY <1>2, <3>2, AuthReceiveEffect
      <3>4. \A q \in Slots : areqs'[q].pc = "checked" => areqs'[q].kind = "signup"
        BY <3>3 DEF PendingInv
      <3>5. CASE s \notin PendingSignups'
        <4>1. PendingSignups' \subseteq PendingSignups
          BY <3>3, <3>5 DEF PendingSignups
        <4> QED
          BY <1>1, <3>3, <3>4, <4>1, FewerPending
      <3>6. CASE s \in PendingSignups'
        <4>1. /\ route = "signup" /\ PendingSignups' = PendingSignups \cup {s}
              /\ s \notin PendingSignups
          BY <3>3, <3>6 DEF PendingSignups
        <4>2. /\ IsFiniteSet(PendingSignups)
              /\ Cardinality(PendingSignups) \in Nat
              /\ nextUser \in Nat /\ load.ids \in Nat
          BY FS_CardinalityType, GatewayAssumption
             DEF PendingInv, TypesInv, UsersInv, AccountsInv, Load
        <4>3. /\ IsFiniteSet(PendingSignups')
              /\ Cardinality(PendingSignups') = Cardinality(PendingSignups) + 1
          BY <4>1, <4>2, FS_AddElement
        <4>4. nextUser' + Cardinality(PendingSignups') <= load.ids + 1
          BY <3>2, <3>3, <4>1, <4>2, <4>3
        <4> QED
          BY <1>1, <3>4, <4>3, <4>4 DEF PendingInv
      <3> QED
        BY <3>5, <3>6
    <2> QED
      BY <2>1, <2>2, <2>3
  <1>7. ASSUME NEW c \in Clients, ClientReads(c) \/ TokenExpires(c)
        PROVE  PendingInv'
    BY <1>3, <1>7 DEF ClientReads, TokenExpires
  <1>8. ASSUME NEW c \in Clients, ClientLeaves(c) \/ GwTimeout(c)
        PROVE  PendingInv'
    BY <1>3, <1>4, <1>8 DEF ClientLeaves, GwTimeout, DropCall
  <1>9. ASSUME NEW c \in Clients,
               AuthReturns(c) \/ HistoryReturns(c) \/ StationsReturns(c)
        PROVE  PendingInv'
    BY <1>3, <1>5, <1>9 DEF AuthReturns, HistoryReturns, StationsReturns
  <1>10. ASSUME NEW s \in Slots, AuthWorks(s) \/ HistoryWorks(s)
         PROVE  PendingInv'
    BY <1>1, <1>3, <1>10, AuthStepKeepsPending DEF AuthWorks, HistoryWorks
  <1>11. CASE AuthCrash
    <2>1. \A s \in Slots : areqs'[s].pc \in {"free", "err"}
      BY <1>2, <1>11, AuthCrashEffect DEF FreeAReq
    <2>2. nextUser' = nextUser
      BY <1>11 DEF AuthCrash
    <2>3. PendingSignups' \subseteq PendingSignups
      BY <2>1 DEF PendingSignups
    <2> QED
      BY <1>1, <2>1, <2>2, <2>3, FewerPending
  <1>12. CASE StationsCharge \/ ServiceDies
    BY <1>3, <1>11, <1>12 DEF StationsCharge, ServiceDies
  <1>13. CASE UNCHANGED vars
    BY <1>3, <1>13 DEF vars
  <1> QED
    BY <1>6, <1>7, <1>8, <1>9, <1>10, <1>12, <1>13 DEF Next

(* A token is for an account that has a key the load allows. *)
KeysInv ==
    /\ PendingInv
    /\ \A c \in Clients : held[c].user <= load.ids

(* What becomes of tokens: only a client that reads an answer gets one. *)
LEMMA HeldChanges ==
  ASSUME TypesInv, [Next]_vars, NEW c \in Clients
  PROVE  \/ held'[c].user = held[c].user
         \/ /\ greqs[c].pc = "done" /\ greqs[c].route = "login"
            /\ greqs[c].status = 200
            /\ held'[c].user = greqs[c].user /\ greqs'[c].pc = "free"
  <1>1. held \in [Clients -> Token] /\ greqs \in [Clients -> GReq]
    BY DEF TypesInv, GatewayTyped
  <1>2. ASSUME NEW d \in Clients, ClientReads(d)
        PROVE  \/ held'[c].user = held[c].user
               \/ /\ greqs[c].pc = "done" /\ greqs[c].route = "login"
                  /\ greqs[c].status = 200
                  /\ held'[c].user = greqs[c].user /\ greqs'[c].pc = "free"
    <2>1. /\ greqs[d].pc = "done"
          /\ greqs' = [greqs EXCEPT ![d] = FreeGReq]
          /\ \/ held' = held
             \/ /\ greqs[d].route = "login" /\ greqs[d].status = 200
                /\ held' = [held EXCEPT ![d] =
                              [user |-> greqs[d].user, live |-> TRUE]]
      BY <1>2 DEF ClientReads
    <2>2. FreeGReq.pc = "free"
      BY DEF FreeGReq
    <2> QED
      BY <1>1, <2>1, <2>2
  <1>3. ASSUME NEW d \in Clients, TokenExpires(d)
        PROVE  held'[c].user = held[c].user
    <2>1. held' = [held EXCEPT ![d].live = FALSE]
      BY <1>3 DEF TokenExpires
    <2>2. [held[d] EXCEPT !.live = FALSE].user = held[d].user
      BY <1>1 DEF Token
    <2> QED
      BY <1>1, <2>1, <2>2
  <1>4. ASSUME NEW d \in Clients, ClientAsks(d)
        PROVE  held' = held
    BY <1>4 DEF ClientAsks, Unauthorized, Unreachable, StationsCall,
                HistoryCall, AuthCall, Asked
  <1>5. ASSUME NEW d \in Clients,
               \/ ClientLeaves(d) \/ GwTimeout(d) \/ AuthReturns(d)
               \/ HistoryReturns(d) \/ StationsReturns(d)
        PROVE  held' = held
    BY <1>5 DEF ClientLeaves, GwTimeout, GwFails, AuthReturns, HistoryReturns,
                StationsReturns, GwReturn
  <1>6. ASSUME \/ \E s \in Slots : AuthWorks(s) \/ HistoryWorks(s)
               \/ StationsCharge \/ ServiceDies \/ UNCHANGED vars
        PROVE  held' = held
    BY <1>6 DEF AuthWorks, HistoryWorks, StationsCharge, ServiceDies, vars,
                gatewayVars
  <1> QED
    BY <1>2, <1>3, <1>4, <1>5, <1>6 DEF Next

LEMMA NextKeepsKeys ==
  ASSUME TypesInv, TypesInv', AuthInv, KeysInv, [Next]_vars
  PROVE  KeysInv'
  <1>1. PendingInv'
    BY NextKeepsPending DEF KeysInv
  <1>2. load' = load
    BY NextMoves
  <1>3. ASSUME NEW c \in Clients
        PROVE  held'[c].user <= load.ids
    <2>1. CASE held'[c].user = held[c].user
      BY <2>1 DEF KeysInv
    <2>2. CASE /\ greqs[c].pc = "done" /\ greqs[c].route = "login"
               /\ greqs[c].status = 200 /\ held'[c].user = greqs[c].user
      <3>1. PICK u \in users : u.id = greqs[c].user
        BY <2>2 DEF AuthInv, ClientsTrue, AnswerTrue, Fits
      <3>2. /\ u.id \in Nat /\ u.id < nextUser /\ nextUser \in Nat
            /\ load.ids \in Nat
        BY GatewayAssumption DEF TypesInv, UsersInv, AccountsInv, User, Load
      <3>3. /\ Cardinality(PendingSignups) \in Nat
            /\ nextUser + Cardinality(PendingSignups) <= load.ids + 1
        BY FS_CardinalityType DEF KeysInv, PendingInv
      <3> QED
        BY <2>2, <3>1, <3>2, <3>3
    <2> QED
      BY <2>1, <2>2, HeldChanges
  <1> QED
    BY <1>1, <1>2, <1>3 DEF KeysInv

LEMMA KeysAlways == Spec => []KeysInv
  <1>1. Init => KeysInv
    <2> SUFFICES ASSUME Init PROVE KeysInv
      OBVIOUS
    <2>1. PendingSignups = {}
      BY DEF Init, AuthInit, PendingSignups, FreeAReq
    <2>2. \A s \in Slots : areqs[s].pc # "checked"
      BY DEF Init, AuthInit, FreeAReq
    <2>3. nextUser = 1 /\ load.ids \in Nat
      BY GatewayAssumption DEF Init, AuthInit, Load
    <2>4. \A c \in Clients : held[c].user = 0
      BY DEF Init, NoToken
    <2> QED
      BY <2>1, <2>2, <2>3, <2>4, FS_EmptySet DEF KeysInv, PendingInv
  <1>2. TypesInv /\ TypesInv' /\ AuthInv /\ KeysInv /\ [Next]_vars => KeysInv'
    BY NextKeepsKeys
  <1> QED
    BY <1>1, <1>2, AlwaysTyped, AnswersAlways, PTL DEF Spec

-----------------------------------------------------------------------------
(* The histories between the gateway and the services that keep them. *)

(* The clients whose request is with one of these services, and those that
   are shown a history. *)
HistCallers ==
    {c \in Clients : greqs[c].pc = "wait" /\ greqs[c].route \in Private}

Shown ==
    {c \in Clients : /\ greqs[c].pc = "done" /\ greqs[c].route \in Private
                     /\ greqs[c].status = 200}

(* The table of the two that a read of this kind is about. *)
TableOf(kind, sessions, bills) == IF kind = "billing" THEN bills ELSE sessions

(* Of the user's rows in the table only older ones are missing, and only if
   the answer is full. *)
OnlyOlderMissing(table, user, rows) ==
    \A r \in table \ rows :
      r.user = user =>
        /\ Cardinality(rows) = Limit
        /\ \A q \in rows : q.at >= r.at

HistCalls ==
    /\ \A c \in HistCallers :
         /\ greqs[c].up \in Slots
         /\ hreqs[greqs[c].up].pc # "free" /\ hreqs[greqs[c].up].open
         /\ hreqs[greqs[c].up].kind = greqs[c].route
         /\ hreqs[greqs[c].up].user = held[c].user
    /\ \A c, d \in HistCallers : greqs[c].up = greqs[d].up => c = d

(* What is answered is the rows of the user that the service was told. *)
OwnRows ==
    \A s \in Slots :
      Answered(hreqs[s]) /\ hreqs[s].status = 200 =>
        \A r \in hreqs[s].rows : r.user = hreqs[s].user

(* A request knows of no row that is written after it arrived. *)
KnownOld ==
    \A c \in HistCallers \cup Shown :
      greqs[c].known \subseteq HRow /\ \A r \in greqs[c].known : r.rev <= clock

(* Answers, on their way and arrived, leave out nothing else that was known. *)
CompleteCalls ==
    \A c \in HistCallers :
      Answered(hreqs[greqs[c].up]) /\ hreqs[greqs[c].up].status = 200 =>
        OnlyOlderMissing(
          greqs[c].known \cap TableOf(greqs[c].route, charged, billed),
          held[c].user, hreqs[greqs[c].up].rows)

CompleteShown ==
    \A c \in Shown :
      /\ \A r \in greqs[c].rows : r.user = held[c].user
      /\ OnlyOlderMissing(
           greqs[c].known \cap TableOf(greqs[c].route, charged, billed),
           held[c].user, greqs[c].rows)

ReadsInv ==
    HistCalls /\ OwnRows /\ KnownOld /\ CompleteCalls /\ CompleteShown

(* With fewer rows to be missing, no more are missing. *)
LEMMA FewerMissing ==
  ASSUME NEW table, NEW smaller, smaller \subseteq table, NEW user, NEW rows,
         OnlyOlderMissing(table, user, rows)
  PROVE  OnlyOlderMissing(smaller, user, rows)
  BY DEF OnlyOlderMissing

(* The newest rows of a user, up to the limit: what they leave out. *)
LEMMA NewestComplete ==
  ASSUME NEW table, IsFiniteSet(table), NEW user, NEW rows,
         Newest({r \in table : r.user = user}, rows)
  PROVE  /\ \A r \in rows : r.user = user
         /\ OnlyOlderMissing(table, user, rows)
  <1> DEFINE all == {r \in table : r.user = user}
  <1>1. /\ rows \subseteq all
        /\ Cardinality(rows) = Min({Limit, Cardinality(all)})
        /\ \A r \in rows, q \in all \ rows : r.at >= q.at
    BY DEF Newest
  <1>2. all \in SUBSET table
    OBVIOUS
  <1>3. IsFiniteSet(all)
    BY <1>2, FS_Subset
  <1> SUFFICES ASSUME NEW r \in table \ rows, r.user = user
               PROVE  /\ Cardinality(rows) = Limit
                      /\ \A q \in rows : q.at >= r.at
    BY <1>1 DEF OnlyOlderMissing
  <1>4. r \in all \ rows
    OBVIOUS
  <1> HIDE DEF all
  <1>5. Cardinality(rows) # Cardinality(all)
    <2>1. rows \in SUBSET all
      BY <1>1
    <2>2. Cardinality(all) = Cardinality(rows) => all = rows
      BY <1>3, <2>1, FS_Subset
    <2> QED
      BY <1>4, <2>2
  <1>6. Limit \in Nat /\ Cardinality(all) \in Nat
    BY <1>3, FS_CardinalityType, HistoryAssumption
  <1>7. Min({Limit, Cardinality(all)}) \in {Limit, Cardinality(all)}
    <2>1. \E x \in {Limit, Cardinality(all)} :
            \A y \in {Limit, Cardinality(all)} : x =< y
      BY <1>6
    <2> QED
      BY <2>1 DEF Min
  <1> QED
    BY <1>1, <1>4, <1>5, <1>7

(* A step of a read's handler: the read ends, with what the query selected. *)
LEMMA HistStepEffect ==
  ASSUME HistoryInv, NEW s \in Slots, HistStep(s)
  PROVE  LET r == hreqs[s]
             n == hreqs'[s]
         IN  /\ UNCHANGED <<charged, billed, clock>>
             /\ r.pc = "recv"
             /\ \A t \in Slots \ {s} : hreqs'[t] = hreqs[t]
             /\ \/ ~r.open /\ n = FreeHReq
                \/ /\ Answered(n) /\ n.open
                   /\ n.kind = r.kind /\ n.user = r.user
                   /\ n.status = 200 =>
                        /\ \A row \in n.rows : row.user = n.user
                        /\ OnlyOlderMissing(TableOf(n.kind, charged, billed),
                                            n.user, n.rows)
  <1> DEFINE r == hreqs[s]
             n == hreqs'[s]
             Others == \A t \in Slots \ {s} : hreqs'[t] = hreqs[t]
             Ended(status, rows) ==
               /\ Others
               /\ \/ ~r.open /\ n = FreeHReq
                  \/ /\ Answered(n) /\ n.open /\ n.kind = r.kind
                     /\ n.user = r.user /\ n.rows = rows /\ n.status = status
  <1>1. hreqs \in [Slots -> HReq] /\ r.open \in BOOLEAN
    BY DEF HistoryInv, HistoryTypeOK, HReq
  <1>2. ASSUME NEW status \in Nat, NEW rows \in SUBSET HRow,
               HistAnswer(s, status, rows)
        PROVE  Ended(status, rows)
    <2>1. /\ \A t \in Slots \ {s} : hreqs'[t] = hreqs[t]
          /\ hreqs[s].open =>
               /\ hreqs'[s].pc = IF status = 200 THEN "ok" ELSE "err"
               /\ hreqs'[s].open
               /\ hreqs'[s].kind = hreqs[s].kind
               /\ hreqs'[s].user = hreqs[s].user
               /\ hreqs'[s].rows = rows
               /\ hreqs'[s].status = status
          /\ ~hreqs[s].open => hreqs'[s] = FreeHReq
      BY <1>1, <1>2, HistAnswerEffect
    <2> QED
      BY <1>1, <2>1 DEF Answered
  <1>3. UNCHANGED <<charged, billed, clock>> /\ r.pc = "recv"
    BY DEF HistStep, GetSessionsByUser, ListByUser, HistDbError
  <1>4. /\ charged \subseteq HRow /\ billed \subseteq HRow
        /\ IsFiniteSet(charged) /\ IsFiniteSet(billed)
    BY DEF HistoryInv, HistoryTypeOK
  <1>5. ASSUME NEW rows, NEW table, TableOf(r.kind, charged, billed) = table,
               IsFiniteSet(table), table \subseteq HRow,
               Newest({row \in table : row.user = r.user}, rows)
        PROVE  /\ rows \in SUBSET HRow
               /\ \A row \in rows : row.user = r.user
               /\ OnlyOlderMissing(TableOf(r.kind, charged, billed), r.user, rows)
    <2>1. rows \subseteq table
      BY <1>5 DEF Newest
    <2> HIDE DEF r
    <2>2. /\ \A row \in rows : row.user = r.user
          /\ OnlyOlderMissing(table, r.user, rows)
      BY <1>5, NewestComplete
    <2>3. rows \in SUBSET HRow
      BY <1>5, <2>1
    <2> QED
      BY <1>5, <2>2, <2>3
  <1>6. CASE HistAnswer(s, 500, {})
    <2>1. 500 \in Nat /\ {} \in SUBSET HRow
      OBVIOUS
    <2>2. Ended(500, {})
      <3> HIDE DEF Ended
      <3> QED
        BY <1>2, <1>6, <2>1
    <2> QED
      BY <1>3, <2>2
  <1>7. ASSUME NEW rows \in SUBSET HRow, HistAnswer(s, 200, rows),
               \A row \in rows : row.user = r.user,
               OnlyOlderMissing(TableOf(r.kind, charged, billed), r.user, rows)
        PROVE  /\ Others
               /\ \/ ~r.open /\ n = FreeHReq
                  \/ /\ Answered(n) /\ n.open
                     /\ n.kind = r.kind /\ n.user = r.user
                     /\ n.status = 200 =>
                          /\ \A row \in n.rows : row.user = n.user
                          /\ OnlyOlderMissing(TableOf(n.kind, charged, billed),
                                              n.user, n.rows)
    <2>1. Ended(200, rows)
      <3> HIDE DEF Ended
      <3>1. 200 \in Nat
        OBVIOUS
      <3> QED
        BY <1>2, <1>7, <3>1
    <2> QED
      BY <1>7, <2>1
  <1>8. CASE GetSessionsByUser(s)
    <2>1. PICK rows \in SUBSET charged :
            /\ Newest({row \in charged : row.user = r.user}, rows)
            /\ ScanSessions(s, rows)
      BY <1>8 DEF GetSessionsByUser
    <2>2. TableOf(r.kind, charged, billed) = charged
      BY <1>8 DEF GetSessionsByUser, TableOf
    <2>3. HistAnswer(s, 200, rows) \/ HistAnswer(s, 500, {})
      BY <2>1 DEF ScanSessions
    <2>4. CASE HistAnswer(s, 200, rows)
      <3>1. /\ rows \in SUBSET HRow
            /\ \A row \in rows : row.user = r.user
            /\ OnlyOlderMissing(TableOf(r.kind, charged, billed), r.user, rows)
        BY <1>4, <1>5, <2>1, <2>2
      <3> HIDE DEF r, n
      <3> QED
        BY <1>3, <1>7, <2>4, <3>1 DEF r, n
    <2> QED
      BY <1>6, <2>3, <2>4
  <1>9. CASE ListByUser(s)
    <2>1. PICK rows \in SUBSET billed :
            /\ Newest({row \in billed : row.user = r.user}, rows)
            /\ HistAnswer(s, 200, rows)
      BY <1>9 DEF ListByUser
    <2>2. TableOf(r.kind, charged, billed) = billed
      BY <1>9 DEF ListByUser, TableOf
    <2>3. /\ rows \in SUBSET HRow
          /\ \A row \in rows : row.user = r.user
          /\ OnlyOlderMissing(TableOf(r.kind, charged, billed), r.user, rows)
      BY <1>4, <1>5, <2>1, <2>2
    <2> HIDE DEF r, n
    <2> QED
      BY <1>3, <1>7, <2>1, <2>3 DEF r, n
  <1>10. CASE HistDbError(s)
    BY <1>6, <1>10 DEF HistDbError
  <1> QED
    BY <1>8, <1>9, <1>10 DEF HistStep

(* A table that changes has new rows, which no request that is under way
   knew of when it arrived. *)
LEMMA TablesOnlyNew ==
  ASSUME HistoryInv, StationsCharge, NEW kind, NEW r,
         r \in TableOf(kind, charged', billed'), r.rev <= clock
  PROVE  r \in TableOf(kind, charged, billed)
  <1>1. /\ clock \in Nat /\ IsFiniteSet(charged) /\ IsFiniteSet(billed)
        /\ charged \subseteq HRow /\ billed \subseteq HRow
        /\ \A q \in charged \cup billed : q.rev \in 1 .. clock /\ q.at <= clock
    BY DEF HistoryInv, HistoryTypeOK
  <1>2. r \in charged' => r \in charged
    <2>1. CASE Writes(charged, charged')
      BY <1>1, <2>1, WriteKeepsTable
    <2> QED
      BY <2>1, StationsChargeEffect
  <1>3. r \in billed' => r \in billed
    <2>1. CASE Writes(billed, billed')
      BY <1>1, <2>1, WriteKeepsTable
    <2> QED
      BY <2>1, StationsChargeEffect
  <1> QED
    BY <1>2, <1>3 DEF TableOf

(* The request of client c changes and no other, and c neither waits for a
   history nor is shown one. *)
QuietRead(c) ==
    /\ \A d \in Clients \ {c} : greqs'[d] = greqs[d]
    /\ greqs'[c].route \in Private =>
         greqs'[c].pc = "done" /\ greqs'[c].status # 200

(* Tokens of those that wait for a history, or are shown one, stay. *)
LEMMA TokensStay ==
  ASSUME TypesInv, [Next]_vars, NEW c \in HistCallers' \cup Shown'
  PROVE  c \in Clients /\ held'[c].user = held[c].user
  <1>1. c \in Clients /\ greqs'[c].pc # "free"
    BY DEF HistCallers, Shown
  <1> QED
    BY <1>1, HeldChanges

(* Another request changes, or the read of c is given up. *)
LEMMA QuietKeepsReads ==
  ASSUME TypesInv, ReadsInv, [Next]_vars, UNCHANGED <<charged, billed, clock>>,
         NEW c \in Clients, QuietRead(c),
         \/ hreqs' = hreqs
         \/ /\ c \in HistCallers
            /\ \A t \in Slots \ {greqs[c].up} : hreqs'[t] = hreqs[t]
            /\ ~Answered(hreqs'[greqs[c].up])
  PROVE  ReadsInv'
  <1>1. \A d \in HistCallers' :
          /\ d \in HistCallers /\ d # c /\ greqs'[d] = greqs[d]
          /\ held'[d].user = held[d].user
          /\ greqs[d].up \in Slots
          /\ hreqs'[greqs[d].up] = hreqs[greqs[d].up]
    <2> SUFFICES ASSUME NEW d \in HistCallers'
                 PROVE  /\ d \in HistCallers /\ d # c /\ greqs'[d] = greqs[d]
                        /\ held'[d].user = held[d].user
                        /\ greqs[d].up \in Slots
                        /\ hreqs'[greqs[d].up] = hreqs[greqs[d].up]
      OBVIOUS
    <2>1. d \in HistCallers /\ d # c /\ greqs'[d] = greqs[d]
      BY DEF HistCallers, QuietRead
    <2>2. held'[d].user = held[d].user
      BY TokensStay
    <2>3. greqs[d].up \in Slots /\ (c \in HistCallers => greqs[d].up # greqs[c].up)
      BY <2>1 DEF ReadsInv, HistCalls
    <2> QED
      BY <2>1, <2>2, <2>3
  <1>2. \A d \in Shown' :
          /\ d \in Shown /\ greqs'[d] = greqs[d]
          /\ held'[d].user = held[d].user
    <2> SUFFICES ASSUME NEW d \in Shown'
                 PROVE  /\ d \in Shown /\ greqs'[d] = greqs[d]
                        /\ held'[d].user = held[d].user
      OBVIOUS
    <2>1. d \in Shown /\ greqs'[d] = greqs[d]
      BY DEF Shown, QuietRead
    <2> QED
      BY <2>1, TokensStay
  <1>3. HistCalls'
    BY <1>1 DEF ReadsInv, HistCalls
  <1>4. OwnRows'
    BY DEF ReadsInv, OwnRows
  <1>5. KnownOld'
    BY <1>1, <1>2 DEF ReadsInv, KnownOld
  <1>6. CompleteCalls'
    <2> SUFFICES ASSUME NEW d \in HistCallers', Answered(hreqs'[greqs'[d].up]),
                        hreqs'[greqs'[d].up].status = 200
                 PROVE  OnlyOlderMissing(
                          greqs'[d].known
                            \cap TableOf(greqs'[d].route, charged, billed),
                          held'[d].user, hreqs'[greqs'[d].up].rows)
      BY DEF CompleteCalls
    <2> QED
      BY <1>1 DEF ReadsInv, CompleteCalls
  <1>7. CompleteShown'
    <2> SUFFICES ASSUME NEW d \in Shown'
                 PROVE  /\ \A r \in greqs'[d].rows : r.user = held'[d].user
                        /\ OnlyOlderMissing(
                             greqs'[d].known
                               \cap TableOf(greqs'[d].route, charged, billed),
                             held'[d].user, greqs'[d].rows)
      BY DEF CompleteShown
    <2> QED
      BY <1>2 DEF ReadsInv, CompleteShown
  <1> QED
    BY <1>3, <1>4, <1>5, <1>6, <1>7 DEF ReadsInv

(* Only slots change: of a read's handler, or by a crash. *)
LEMMA SlotsKeepReads ==
  ASSUME TypesInv, ReadsInv, [Next]_vars, greqs' = greqs,
         UNCHANGED <<charged, billed, clock>>,
         \A s \in Slots :
           \/ hreqs'[s] = hreqs[s]
           \/ ~hreqs[s].open /\ hreqs'[s] = FreeHReq
           \/ /\ Answered(hreqs'[s]) /\ hreqs'[s].open
              /\ hreqs'[s].kind = hreqs[s].kind
              /\ hreqs'[s].user = hreqs[s].user
              /\ hreqs'[s].status = 200 =>
                   /\ \A row \in hreqs'[s].rows : row.user = hreqs'[s].user
                   /\ OnlyOlderMissing(
                        TableOf(hreqs'[s].kind, charged, billed),
                        hreqs'[s].user, hreqs'[s].rows)
  PROVE  ReadsInv'
  <1>1. HistCallers' = HistCallers /\ Shown' = Shown
    BY DEF HistCallers, Shown
  <1>2. \A c \in HistCallers \cup Shown : held'[c].user = held[c].user
    BY <1>1, TokensStay
  <1>3. HistCalls'
    <2>1. ASSUME NEW c \in HistCallers
          PROVE  /\ hreqs'[greqs[c].up].pc # "free"
                 /\ hreqs'[greqs[c].up].open
                 /\ hreqs'[greqs[c].up].kind = greqs[c].route
                 /\ hreqs'[greqs[c].up].user = held[c].user
      <3> DEFINE s == greqs[c].up
      <3>1. s \in Slots /\ hreqs[s].open /\ hreqs[s].pc # "free"
            /\ hreqs[s].kind = greqs[c].route /\ hreqs[s].user = held[c].user
        BY DEF ReadsInv, HistCalls
      <3> QED
        BY <3>1 DEF Answered
    <2> QED
      BY <1>1, <1>2, <2>1 DEF ReadsInv, HistCalls
  <1>4. OwnRows'
    <2>1. ~Answered(FreeHReq)
      BY DEF FreeHReq, Answered
    <2> SUFFICES ASSUME NEW s \in Slots, Answered(hreqs'[s]),
                        hreqs'[s].status = 200
                 PROVE  \A r \in hreqs'[s].rows : r.user = hreqs'[s].user
      BY DEF OwnRows
    <2>2. CASE hreqs'[s] = hreqs[s]
      BY <2>2 DEF ReadsInv, OwnRows
    <2> QED
      BY <2>1, <2>2
  <1>5. KnownOld'
    BY <1>1 DEF ReadsInv, KnownOld
  <1>6. CompleteCalls'
    <2>1. ASSUME NEW c \in HistCallers, Answered(hreqs'[greqs[c].up]),
                 hreqs'[greqs[c].up].status = 200
          PROVE  OnlyOlderMissing(
                   greqs[c].known \cap TableOf(greqs[c].route, charged, billed),
                   held[c].user, hreqs'[greqs[c].up].rows)
      <3> DEFINE s == greqs[c].up
      <3>1. s \in Slots /\ hreqs[s].open
            /\ hreqs[s].kind = greqs[c].route /\ hreqs[s].user = held[c].user
        BY DEF ReadsInv, HistCalls
      <3>2. CASE hreqs'[s] = hreqs[s]
        BY <2>1, <3>2 DEF ReadsInv, CompleteCalls
      <3>3. CASE OnlyOlderMissing(TableOf(greqs[c].route, charged, billed),
                                  held[c].user, hreqs'[s].rows)
        BY <3>3, FewerMissing
      <3> QED
        BY <2>1, <3>1, <3>2, <3>3
    <2> SUFFICES ASSUME NEW c \in HistCallers, Answered(hreqs'[greqs[c].up]),
                        hreqs'[greqs[c].up].status = 200
                 PROVE  OnlyOlderMissing(
                          greqs[c].known
                            \cap TableOf(greqs[c].route, charged, billed),
                          held'[c].user, hreqs'[greqs[c].up].rows)
      BY <1>1 DEF CompleteCalls
    <2> QED
      BY <1>2, <2>1
  <1>7. CompleteShown'
    <2> SUFFICES ASSUME NEW c \in Shown
                 PROVE  /\ \A r \in greqs[c].rows : r.user = held'[c].user
                        /\ OnlyOlderMissing(
                             greqs[c].known
                               \cap TableOf(greqs[c].route, charged, billed),
                             held'[c].user, greqs[c].rows)
      BY <1>1 DEF CompleteShown
    <2> QED
      BY <1>2 DEF ReadsInv, CompleteShown
  <1> QED
    BY <1>3, <1>4, <1>5, <1>6, <1>7 DEF ReadsInv

(* The stations charge: requests under way know nothing of what is new. *)
LEMMA ChargingKeepsReads ==
  ASSUME TypesInv, ReadsInv, [Next]_vars, StationsCharge
  PROVE  ReadsInv'
  <1>1. /\ greqs' = greqs /\ hreqs' = hreqs /\ clock' = clock + 1
        /\ clock \in Nat
    BY StationsChargeEffect
       DEF StationsCharge, gatewayVars, TypesInv, HistoryInv, HistoryTypeOK
  <1>2. HistCallers' = HistCallers /\ Shown' = Shown
    BY <1>1 DEF HistCallers, Shown
  <1>3. \A c \in HistCallers \cup Shown : held'[c].user = held[c].user
    BY <1>2, TokensStay
  <1>4. \A c \in HistCallers \cup Shown :
          greqs[c].known \cap TableOf(greqs[c].route, charged', billed')
            \subseteq greqs[c].known \cap TableOf(greqs[c].route, charged, billed)
    <2> SUFFICES ASSUME NEW c \in HistCallers \cup Shown,
                        NEW r \in greqs[c].known,
                        r \in TableOf(greqs[c].route, charged', billed')
                 PROVE  r \in TableOf(greqs[c].route, charged, billed)
      OBVIOUS
    <2>1. r.rev <= clock
      BY DEF ReadsInv, KnownOld
    <2> QED
      BY <2>1, TablesOnlyNew DEF TypesInv
  <1>5. HistCalls'
    BY <1>1, <1>2, <1>3 DEF ReadsInv, HistCalls
  <1>6. OwnRows'
    BY <1>1 DEF ReadsInv, OwnRows
  <1>7. KnownOld'
    <2>1. \A r \in HRow : r.rev <= clock => r.rev <= clock + 1
      BY <1>1 DEF HRow
    <2> QED
      BY <1>1, <1>2, <2>1 DEF ReadsInv, KnownOld
  <1>8. CompleteCalls'
    <2> SUFFICES ASSUME NEW c \in HistCallers, Answered(hreqs[greqs[c].up]),
                        hreqs[greqs[c].up].status = 200
                 PROVE  OnlyOlderMissing(
                          greqs[c].known
                            \cap TableOf(greqs[c].route, charged', billed'),
                          held'[c].user, hreqs[greqs[c].up].rows)
      BY <1>1, <1>2 DEF CompleteCalls
    <2>1. OnlyOlderMissing(
            greqs[c].known \cap TableOf(greqs[c].route, charged, billed),
            held[c].user, hreqs[greqs[c].up].rows)
      BY DEF ReadsInv, CompleteCalls
    <2>2. OnlyOlderMissing(
            greqs[c].known \cap TableOf(greqs[c].route, charged', billed'),
            held[c].user, hreqs[greqs[c].up].rows)
      BY <1>4, <2>1, FewerMissing
    <2> QED
      BY <1>3, <2>2
  <1>9. CompleteShown'
    <2> SUFFICES ASSUME NEW c \in Shown
                 PROVE  /\ \A r \in greqs[c].rows : r.user = held'[c].user
                        /\ OnlyOlderMissing(
                             greqs[c].known
                               \cap TableOf(greqs[c].route, charged', billed'),
                             held'[c].user, greqs[c].rows)
      BY <1>1, <1>2 DEF CompleteShown
    <2>1. /\ \A r \in greqs[c].rows : r.user = held[c].user
          /\ OnlyOlderMissing(
               greqs[c].known \cap TableOf(greqs[c].route, charged, billed),
               held[c].user, greqs[c].rows)
      BY DEF ReadsInv, CompleteShown
    <2>2. OnlyOlderMissing(
            greqs[c].known \cap TableOf(greqs[c].route, charged', billed'),
            held[c].user, greqs[c].rows)
      BY <1>4, <2>1, FewerMissing
    <2> QED
      BY <1>3, <2>1, <2>2
  <1> QED
    BY <1>5, <1>6, <1>7, <1>8, <1>9 DEF ReadsInv

(* A history is asked for: the token's user goes through float64 unharmed. *)
LEMMA HistoryCallKeepsReads ==
  ASSUME TypesInv, KeysInv, ReadsInv, [Next]_vars, NEW c \in Clients,
         NEW route \in AllRoutes, NEW s \in Slots, HistoryCall(c, route, s)
  PROVE  ReadsInv'
  <1> DEFINE r == hreqs'[s]
             n == greqs'[c]
  <1>1. Nothing.email \in Email /\ Nothing.password \in Password
    BY DEF Nothing, NoEmail, NoPassword, Email, Password
  <1>2. /\ Asked(c, route, Nothing, s, 0) /\ route \in Private
        /\ HistReceive(s, route, ExtractUserID(held[c]))
    BY DEF HistoryCall
  <1>3. /\ held' = held /\ greqs[c].pc = "free"
        /\ \A d \in Clients \ {c} : greqs'[d] = greqs[d]
        /\ n.pc = "wait" /\ n.route = route /\ n.up = s
        /\ n.known = Table(route)
    BY <1>1, <1>2, AskedEffect
  <1>4. ExtractUserID(held[c]) = held[c].user /\ held[c].user \in Nat
    <2>1. held[c].user \in Nat /\ held[c].user <= load.ids
      BY DEF TypesInv, GatewayTyped, Token, KeysInv
    <2>2. load.ids \in Nat /\ Exact \in Nat /\ load.ids <= Exact
      BY GatewayAssumption DEF TypesInv, UsersInv, Load
    <2>3. held[c].user <= Exact
      BY <2>1, <2>2
    <2> QED
      BY <2>1, <2>3 DEF ExtractUserID, Float64
  <1>5. /\ hreqs[s].pc = "free"
        /\ \A t \in Slots \ {s} : hreqs'[t] = hreqs[t]
        /\ r.pc = "recv" /\ r.open /\ r.kind = route
        /\ r.user = held[c].user
    BY <1>2, <1>4, HistReceiveEffect DEF TypesInv, HistoryInv, HistoryTypeOK
  <1>6. UNCHANGED <<charged, billed, clock>>
    BY <1>2 DEF HistReceive
  <1>7. /\ Table(route) \subseteq HRow
        /\ \A row \in Table(route) : row.rev <= clock
    BY DEF Table, TypesInv, HistoryInv, HistoryTypeOK
  <1> HIDE DEF r, n
  <1>8. HistCallers' = HistCallers \cup {c} /\ Shown' = Shown /\ c \notin Shown
    BY <1>2, <1>3 DEF HistCallers, Shown, n
  <1>9. \A d \in HistCallers :
          /\ d # c /\ greqs'[d] = greqs[d] /\ greqs[d].up \in Slots \ {s}
          /\ hreqs'[greqs[d].up] = hreqs[greqs[d].up]
    BY <1>3, <1>5 DEF ReadsInv, HistCalls, HistCallers
  <1>10. \A d \in Shown : greqs'[d] = greqs[d]
    BY <1>3, <1>8 DEF Shown
  <1>11. HistCalls'
    <2>1. \A d \in HistCallers' :
            /\ greqs'[d].up \in Slots
            /\ hreqs'[greqs'[d].up].pc # "free" /\ hreqs'[greqs'[d].up].open
            /\ hreqs'[greqs'[d].up].kind = greqs'[d].route
            /\ hreqs'[greqs'[d].up].user = held[d].user
      BY <1>3, <1>5, <1>8, <1>9 DEF ReadsInv, HistCalls, n, r
    <2>2. \A d, e \in HistCallers' : greqs'[d].up = greqs'[e].up => d = e
      BY <1>3, <1>8, <1>9 DEF ReadsInv, HistCalls, n
    <2> QED
      BY <1>3, <2>1, <2>2 DEF HistCalls
  <1>12. OwnRows'
    BY <1>5 DEF ReadsInv, OwnRows, Answered, r
  <1>13. KnownOld'
    BY <1>3, <1>6, <1>7, <1>8, <1>9, <1>10 DEF ReadsInv, KnownOld, n
  <1>14. CompleteCalls'
    <2> SUFFICES ASSUME NEW d \in HistCallers', Answered(hreqs'[greqs'[d].up]),
                        hreqs'[greqs'[d].up].status = 200
                 PROVE  OnlyOlderMissing(
                          greqs'[d].known
                            \cap TableOf(greqs'[d].route, charged, billed),
                          held[d].user, hreqs'[greqs'[d].up].rows)
      BY <1>3, <1>6 DEF CompleteCalls
    <2>1. d \in HistCallers
      BY <1>3, <1>5, <1>8 DEF Answered, n, r
    <2> QED
      BY <1>9, <2>1 DEF ReadsInv, CompleteCalls
  <1>15. CompleteShown'
    <2> SUFFICES ASSUME NEW d \in Shown
                 PROVE  /\ \A row \in greqs'[d].rows : row.user = held[d].user
                        /\ OnlyOlderMissing(
                             greqs'[d].known
                               \cap TableOf(greqs'[d].route, charged, billed),
                             held[d].user, greqs'[d].rows)
      BY <1>3, <1>6, <1>8 DEF CompleteShown
    <2> QED
      BY <1>10 DEF ReadsInv, CompleteShown
  <1> QED
    BY <1>11, <1>12, <1>13, <1>14, <1>15 DEF ReadsInv

(* The answer of the service reaches the gateway. *)
LEMMA HistoryReturnKeepsReads ==
  ASSUME TypesInv, ReadsInv, [Next]_vars, NEW c \in Clients, HistoryReturns(c)
  PROVE  ReadsInv'
  <1> DEFINE s == greqs[c].up
             r == hreqs[s]
             n == greqs'[c]
  <1>1. /\ s \in Slots /\ HistReply(s) /\ greqs[c].route \in Private
        /\ GwReturn(c, r.status, greqs[c].user, r.rows)
    BY DEF HistoryReturns
  <1>2. /\ greqs \in [Clients -> GReq] /\ greqs[c].user \in Nat
        /\ r.status \in Nat /\ r.rows \in SUBSET HRow
    BY <1>1 DEF TypesInv, GatewayTyped, GReq, HistoryInv, HistoryTypeOK, HReq
  <1>3. /\ UNCHANGED <<charged, billed, clock>> /\ Answered(r)
        /\ \A t \in Slots \ {s} : hreqs'[t] = hreqs[t]
        /\ hreqs'[s] = FreeHReq
    BY <1>1 DEF HistReply, TypesInv, HistoryInv, HistoryTypeOK
  <1>4. ~Answered(FreeHReq)
    BY DEF Answered, FreeHReq
  <1>5. c \in HistCallers /\ {} \in SUBSET HRow
    BY <1>1 DEF GwReturn, HistCallers
  <1>6. CASE r.status = 0 \/ r.status # 200
    <2>1. \/ Done(c, 502, 0, {}) /\ r.status = 0
          \/ Done(c, r.status, greqs[c].user, r.rows)
      BY <1>1 DEF GwReturn
    <2>2. /\ \A d \in Clients \ {c} : greqs'[d] = greqs[d]
          /\ n.pc = "done" /\ n.status \in {502, r.status}
      BY <1>2, <1>5, <2>1, DoneEffect
    <2>3. QuietRead(c)
      BY <1>6, <2>2 DEF QuietRead
    <2> QED
      BY <1>3, <1>4, <1>5, <2>3, QuietKeepsReads
  <1>7. CASE r.status = 200
    <2>1. Done(c, r.status, greqs[c].user, r.rows)
      BY <1>1, <1>7 DEF GwReturn
    <2>2. /\ \A d \in Clients \ {c} : greqs'[d] = greqs[d]
          /\ n.pc = "done" /\ n.route = greqs[c].route
          /\ n.known = greqs[c].known
          /\ n.rows = r.rows /\ n.status = 200
      BY <1>2, <1>7, <2>1, DoneEffect
    <2>3. held'[c].user = held[c].user /\ r.user = held[c].user
      <3>1. c \in Shown'
        BY <1>1, <2>2 DEF Shown
      <3> QED
        BY <1>5, <3>1, TokensStay DEF ReadsInv, HistCalls
    <2> HIDE DEF r, n
    <2>4. HistCallers' = HistCallers \ {c} /\ Shown' = Shown \cup {c}
      BY <1>1, <2>2 DEF HistCallers, Shown, n
    <2>5. \A d \in HistCallers' :
            /\ d \in HistCallers /\ greqs'[d] = greqs[d]
            /\ held'[d].user = held[d].user
            /\ greqs[d].up \in Slots
            /\ hreqs'[greqs[d].up] = hreqs[greqs[d].up]
      <3> SUFFICES ASSUME NEW d \in HistCallers'
                   PROVE  /\ d \in HistCallers /\ greqs'[d] = greqs[d]
                          /\ held'[d].user = held[d].user
                          /\ greqs[d].up \in Slots
                          /\ hreqs'[greqs[d].up] = hreqs[greqs[d].up]
        OBVIOUS
      <3>1. d \in HistCallers /\ d # c /\ greqs'[d] = greqs[d]
        BY <2>2, <2>4 DEF HistCallers
      <3>2. greqs[d].up \in Slots \ {s}
        BY <1>5, <3>1 DEF ReadsInv, HistCalls
      <3> QED
        BY <1>3, <3>1, <3>2, TokensStay
    <2>6. \A d \in Shown' \ {c} :
            /\ d \in Shown /\ greqs'[d] = greqs[d]
            /\ held'[d].user = held[d].user
      <3> SUFFICES ASSUME NEW d \in Shown' \ {c}
                   PROVE  /\ d \in Shown /\ greqs'[d] = greqs[d]
                          /\ held'[d].user = held[d].user
        OBVIOUS
      <3>1. d \in Shown /\ greqs'[d] = greqs[d]
        BY <2>2, <2>4 DEF Shown
      <3> QED
        BY <3>1, TokensStay
    <2>7. HistCalls'
      BY <2>5 DEF ReadsInv, HistCalls
    <2>8. OwnRows'
      BY <1>3, <1>4 DEF ReadsInv, OwnRows
    <2>9. KnownOld'
      <3>1. \A d \in HistCallers' \cup Shown' :
              /\ d \in HistCallers \cup Shown
              /\ greqs'[d].known = greqs[d].known
        BY <1>5, <2>2, <2>5, <2>6 DEF n
      <3> QED
        BY <1>3, <3>1 DEF ReadsInv, KnownOld
    <2>10. CompleteCalls'
      <3> SUFFICES ASSUME NEW d \in HistCallers',
                          Answered(hreqs'[greqs'[d].up]),
                          hreqs'[greqs'[d].up].status = 200
                   PROVE  OnlyOlderMissing(
                            greqs'[d].known
                              \cap TableOf(greqs'[d].route, charged, billed),
                            held'[d].user, hreqs'[greqs'[d].up].rows)
        BY <1>3 DEF CompleteCalls
      <3> QED
        BY <2>5 DEF ReadsInv, CompleteCalls
    <2>11. CompleteShown'
      <3> SUFFICES ASSUME NEW d \in Shown'
                   PROVE  /\ \A row \in greqs'[d].rows : row.user = held'[d].user
                          /\ OnlyOlderMissing(
                               greqs'[d].known
                                 \cap TableOf(greqs'[d].route, charged, billed),
                               held'[d].user, greqs'[d].rows)
        BY <1>3 DEF CompleteShown
      <3>1. CASE d = c
        <4>1. \A row \in r.rows : row.user = held[c].user
          BY <1>1, <1>3, <1>7, <2>3 DEF ReadsInv, OwnRows, r
        <4>2. OnlyOlderMissing(
                greqs[c].known \cap TableOf(greqs[c].route, charged, billed),
                held[c].user, r.rows)
          BY <1>3, <1>5, <1>7 DEF ReadsInv, CompleteCalls, r
        <4> QED
          BY <2>2, <2>3, <3>1, <4>1, <4>2 DEF n
      <3>2. CASE d # c
        <4>1. /\ d \in Shown /\ greqs'[d] = greqs[d]
              /\ held'[d].user = held[d].user
          BY <2>6, <3>2
        <4> QED
          BY <4>1 DEF ReadsInv, CompleteShown
      <3> QED
        BY <3>1, <3>2
    <2> QED
      BY <2>7, <2>8, <2>9, <2>10, <2>11 DEF ReadsInv
  <1> QED
    BY <1>6, <1>7

(* A request whose call is given up, or fails. *)
LEMMA DropKeepsReads ==
  ASSUME TypesInv, ReadsInv, [Next]_vars, NEW c \in Clients,
         greqs[c].pc = "wait", DropCall(c), QuietRead(c)
  PROVE  ReadsInv'
  <1>1. CASE UNCHANGED historyVars
    BY <1>1, QuietKeepsReads DEF historyVars
  <1>2. CASE /\ greqs[c].up \in Slots /\ greqs[c].route \in Private
             /\ HistAbandon(greqs[c].up)
    <2>1. c \in HistCallers
      BY <1>2 DEF HistCallers
    <2>2. /\ UNCHANGED <<charged, billed, clock>>
          /\ \A t \in Slots \ {greqs[c].up} : hreqs'[t] = hreqs[t]
          /\ ~Answered(hreqs'[greqs[c].up])
      BY <1>2, HistAbandonEffect
         DEF HistAbandon, TypesInv, HistoryInv, HistoryTypeOK
    <2> QED
      BY <2>1, <2>2, QuietKeepsReads
  <1> QED
    BY <1>1, <1>2 DEF DropCall

(* Every step preserves the invariant. *)
LEMMA NextKeepsReads ==
  ASSUME TypesInv, KeysInv, ReadsInv, [Next]_vars
  PROVE  ReadsInv'
  <1>1. ASSUME UNCHANGED historyVars, greqs' = greqs
        PROVE  ReadsInv'
    BY <1>1, SlotsKeepReads DEF historyVars
  <1>2. greqs \in [Clients -> GReq] /\ {} \in SUBSET HRow
    BY DEF TypesInv, GatewayTyped
  <1>3. ASSUME NEW c \in Clients, greqs' = [greqs EXCEPT ![c] = FreeGReq]
        PROVE  QuietRead(c)
    <2>1. greqs'[c] = FreeGReq /\ \A d \in Clients \ {c} : greqs'[d] = greqs[d]
      BY <1>2, <1>3
    <2> QED
      BY <2>1 DEF QuietRead, FreeGReq, Private
  <1>4. ASSUME NEW c \in Clients, ClientAsks(c)
        PROVE  ReadsInv'
    <2>1. PICK route \in load.routes :
            \/ Unauthorized(c, route)
            \/ Unreachable(c, route)
            \/ StationsCall(c, route)
            \/ \E s \in Slots : \/ HistoryCall(c, route, s)
                                \/ \E t \in load.typed : AuthCall(c, route, t, s)
      BY <1>4 DEF ClientAsks
    <2>2. /\ route \in AllRoutes
          /\ \A t \in load.typed : t.email \in Email /\ t.password \in Password
      BY GatewayAssumption DEF TypesInv, UsersInv, Load
    <2>3. Nothing.email \in Email /\ Nothing.password \in Password
      BY DEF Nothing, NoEmail, NoPassword, Email, Password
    <2>4. ASSUME NEW s \in Slots \cup {None}, NEW status \in Nat, NEW typed,
                 typed.email \in Email, typed.password \in Password,
                 Asked(c, route, typed, s, status),
                 status \in {401, 502} \/ route \notin Private
          PROVE  QuietRead(c)
      <3>1. /\ \A d \in Clients \ {c} : greqs'[d] = greqs[d]
            /\ greqs'[c].pc = IF status = 0 THEN "wait" ELSE "done"
            /\ greqs'[c].route = route /\ greqs'[c].status = status
        BY <2>2, <2>4, AskedEffect
      <3> QED
        BY <2>4, <3>1 DEF QuietRead
    <2>5. CASE Unauthorized(c, route)
      <3>1. Asked(c, route, Nothing, None, 401) /\ UNCHANGED historyVars
        BY <2>5 DEF Unauthorized
      <3>2. QuietRead(c)
        BY <2>3, <2>4, <3>1
      <3> QED
        BY <3>1, <3>2, QuietKeepsReads DEF historyVars
    <2>6. CASE Unreachable(c, route)
      <3>1. Asked(c, route, Nothing, None, 502) /\ UNCHANGED historyVars
        BY <2>6 DEF Unreachable
      <3>2. QuietRead(c)
        BY <2>3, <2>4, <3>1
      <3> QED
        BY <3>1, <3>2, QuietKeepsReads DEF historyVars
    <2>7. CASE StationsCall(c, route)
      <3>1. /\ Asked(c, route, Nothing, None, 0) /\ route \notin Private
            /\ UNCHANGED historyVars
        BY <2>7 DEF StationsCall, Private
      <3>2. QuietRead(c)
        BY <2>3, <2>4, <3>1
      <3> QED
        BY <3>1, <3>2, QuietKeepsReads DEF historyVars
    <2>8. CASE \E s \in Slots : HistoryCall(c, route, s)
      BY <2>2, <2>8, HistoryCallKeepsReads
    <2>9. CASE \E s \in Slots, t \in load.typed : AuthCall(c, route, t, s)
      <3>1. PICK s \in Slots, t \in load.typed : AuthCall(c, route, t, s)
        BY <2>9
      <3>2. /\ Asked(c, route, t, s, 0) /\ route \notin Private
            /\ UNCHANGED historyVars
        BY <3>1 DEF AuthCall, Private
      <3>3. QuietRead(c)
        BY <2>2, <2>4, <3>2
      <3> QED
        BY <3>2, <3>3, QuietKeepsReads DEF historyVars
    <2> QED
      BY <2>1, <2>5, <2>6, <2>7, <2>8, <2>9
  <1>5. ASSUME NEW c \in Clients, ClientReads(c)
        PROVE  ReadsInv'
    BY <1>3, <1>5, QuietKeepsReads DEF ClientReads, historyVars
  <1>6. ASSUME NEW c \in Clients, ClientLeaves(c)
        PROVE  ReadsInv'
    BY <1>3, <1>6, DropKeepsReads DEF ClientLeaves
  <1>7. ASSUME NEW c \in Clients, TokenExpires(c)
        PROVE  ReadsInv'
    BY <1>1, <1>7 DEF TokenExpires
  <1>8. ASSUME NEW c \in Clients, NEW status \in Nat, NEW user \in Nat,
               NEW rows \in SUBSET HRow, greqs[c].route \notin Private,
               GwReturn(c, status, user, rows), UNCHANGED historyVars
        PROVE  ReadsInv'
    <2>1. \/ Done(c, 502, 0, {}) \/ Done(c, status, user, rows)
      BY <1>8 DEF GwReturn
    <2>2. /\ \A d \in Clients \ {c} : greqs'[d] = greqs[d]
          /\ greqs'[c].route = greqs[c].route
      BY <1>2, <2>1, DoneEffect
    <2>3. QuietRead(c)
      BY <1>8, <2>2 DEF QuietRead
    <2> QED
      BY <1>8, <2>3, QuietKeepsReads DEF historyVars
  <1>9. ASSUME NEW c \in Clients, AuthReturns(c)
        PROVE  ReadsInv'
    <2>1. /\ greqs[c].up \in Slots /\ greqs[c].route \notin Private
          /\ GwReturn(c, areqs[greqs[c].up].status, areqs[greqs[c].up].user, {})
          /\ UNCHANGED historyVars
      BY <1>9 DEF AuthReturns
    <2>2. /\ areqs[greqs[c].up].status \in Nat
          /\ areqs[greqs[c].up].user \in Nat
      BY <2>1 DEF TypesInv, UsersInv, RequestsInv, AReq
    <2> QED
      BY <1>2, <1>8, <2>1, <2>2
  <1>10. ASSUME NEW c \in Clients, HistoryReturns(c)
         PROVE  ReadsInv'
    BY <1>10, HistoryReturnKeepsReads
  <1>11. ASSUME NEW c \in Clients, StationsReturns(c)
         PROVE  ReadsInv'
    <2>1. /\ GwReturn(c, 200, 0, {}) /\ greqs[c].route \notin Private
          /\ UNCHANGED historyVars
      BY <1>11 DEF StationsReturns, Private
    <2> QED
      BY <1>2, <1>8, <2>1
  <1>12. ASSUME NEW c \in Clients, GwTimeout(c)
         PROVE  ReadsInv'
    <2>1. Done(c, 502, 0, {}) /\ DropCall(c) /\ greqs[c].pc = "wait"
      BY <1>12 DEF GwTimeout, GwFails
    <2>2. /\ \A d \in Clients \ {c} : greqs'[d] = greqs[d]
          /\ greqs'[c].pc = "done" /\ greqs'[c].status = 502
      BY <1>2, <2>1, DoneEffect
    <2>3. QuietRead(c)
      BY <2>2 DEF QuietRead
    <2> QED
      BY <2>1, <2>3, DropKeepsReads
  <1>13. ASSUME NEW s \in Slots, AuthWorks(s)
         PROVE  ReadsInv'
    BY <1>1, <1>13 DEF AuthWorks, gatewayVars
  <1>14. ASSUME NEW s \in Slots, HistoryWorks(s)
         PROVE  ReadsInv'
    <2>1. HistStep(s) /\ greqs' = greqs
      BY <1>14 DEF HistoryWorks, gatewayVars
    <2> QED
      BY <2>1, HistStepEffect, SlotsKeepReads DEF TypesInv
  <1>15. CASE StationsCharge
    BY <1>15, ChargingKeepsReads
  <1>16. CASE ServiceDies
    <2>1. greqs' = greqs
      BY <1>16 DEF ServiceDies, gatewayVars
    <2>2. CASE HistCrash
      <3>1. UNCHANGED <<charged, billed, clock>>
        BY <2>2 DEF HistCrash
      <3>2. \A s \in Slots :
              \/ hreqs'[s] = hreqs[s]
              \/ ~hreqs[s].open /\ hreqs'[s] = FreeHReq
              \/ /\ Answered(hreqs'[s]) /\ hreqs'[s].open
                 /\ hreqs'[s].kind = hreqs[s].kind
                 /\ hreqs'[s].user = hreqs[s].user
                 /\ hreqs'[s].status = 0
        BY <2>2, HistCrashEffect
           DEF Answered, TypesInv, HistoryInv, HistoryTypeOK
      <3> QED
        BY <2>1, <3>1, <3>2, SlotsKeepReads
    <2> QED
      BY <1>1, <1>16, <2>1, <2>2 DEF ServiceDies
  <1>17. CASE UNCHANGED vars
    BY <1>1, <1>17 DEF vars, gatewayVars
  <1> QED
    BY <1>4, <1>5, <1>6, <1>7, <1>9, <1>10, <1>11, <1>12, <1>13, <1>14, <1>15,
       <1>16, <1>17 DEF Next

(* A history is shown to the user whose token asked for it, with that user's
   rows only, and leaves out nothing that the user had when it was asked for
   but what is written since or older than a full answer: for any tables,
   limits, writes, timeouts, database errors and crashes in between. *)
THEOREM HistoriesTrue == Spec => []HistoryAnswersTrue
  <1>1. Init => ReadsInv
    <2> SUFFICES ASSUME Init PROVE ReadsInv
      OBVIOUS
    <2>1. /\ \A s \in Slots : hreqs[s].pc = "free"
          /\ \A c \in Clients : greqs[c].pc = "free"
      BY DEF Init, HistoryInit, FreeHReq, FreeGReq
    <2>2. HistCallers = {} /\ Shown = {}
      BY <2>1 DEF HistCallers, Shown
    <2> QED
      BY <2>1, <2>2
         DEF ReadsInv, HistCalls, OwnRows, KnownOld, CompleteCalls,
             CompleteShown, Answered
  <1>2. TypesInv /\ KeysInv /\ ReadsInv /\ [Next]_vars => ReadsInv'
    BY NextKeepsReads
  <1>3. ReadsInv => HistoryAnswersTrue
    <2> SUFFICES ASSUME ReadsInv, NEW c \in Clients, greqs[c].pc = "done",
                        greqs[c].route \in Private, greqs[c].status = 200
                 PROVE  LET g == greqs[c]
                        IN  /\ \A r \in g.rows : r.user = held[c].user
                            /\ \A r \in (g.known \cap Table(g.route)) \ g.rows :
                                 r.user = held[c].user =>
                                   /\ Cardinality(g.rows) = Limit
                                   /\ \A q \in g.rows : q.at >= r.at
      BY DEF HistoryAnswersTrue
    <2>1. c \in Shown
      BY DEF Shown
    <2>2. /\ \A r \in greqs[c].rows : r.user = held[c].user
          /\ OnlyOlderMissing(
               greqs[c].known \cap TableOf(greqs[c].route, charged, billed),
               held[c].user, greqs[c].rows)
      BY <2>1 DEF ReadsInv, CompleteShown
    <2>3. Table(greqs[c].route) = TableOf(greqs[c].route, charged, billed)
      BY DEF Table, TableOf
    <2> QED
      BY <2>2, <2>3 DEF OnlyOlderMissing
  <1> QED
    BY <1>1, <1>2, <1>3, AlwaysTyped, KeysAlways, PTL DEF Spec

=============================================================================
