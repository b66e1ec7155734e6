--------------------------- MODULE AuthService ---------------------------
(***************************************************************************)
(* auth-service: signing up and logging in, and the users table.  One step *)
(* is one statement against PostgreSQL, so that of two signups for one     *)
(* address either may come between the other's check and its INSERT.       *)
(*                                                                         *)
(* An e-mail address and a password are kept as they were typed: the text  *)
(* without blanks around it, whether there are blanks around it and, for   *)
(* an address, whether it has capitals.  The role is left out (it is       *)
(* copied into the token, where nobody reads it), and bcrypt is taken as   *)
(* collision free: a hash is the word that was hashed.                     *)
(***************************************************************************)
EXTENDS UserRequests

CONSTANTS
    Names,      \* addresses, in lower case
    Words,      \* passwords
    Long        \* the passwords that bcrypt refuses (over 72 bytes)

ASSUME AuthAssumption ==
    /\ None \notin Names \cup Words
    /\ Long \subseteq Words

VARIABLES
    users,      \* the users table, a set of rows
    nextUser,   \* the sequence behind users.id
    areqs       \* the requests being handled, by slot

authVars == <<users, nextUser, areqs>>

Email == [text : Names \cup {None}, pad : BOOLEAN, upper : BOOLEAN]
Password == [text : Words \cup {None}, pad : BOOLEAN]

NoEmail == [text |-> None, pad |-> FALSE, upper |-> FALSE]
NoPassword == [text |-> None, pad |-> FALSE]

User == [id : Nat \ {0}, email : Email, hash : Words]

AReq == [pc : {"free", "recv", "checked", "ok", "err"}, open : BOOLEAN,
         kind : {"signup", "login"}, email : Email, password : Password,
         user : Nat, status : Nat]

FreeAReq == [pc |-> "free", open |-> FALSE, kind |-> "login",
             email |-> NoEmail, password |-> NoPassword, user |-> 0,
             status |-> 0]

TrimSpace(x) == [x EXCEPT !.pad = FALSE]
ToLower(x) == [x EXCEPT !.upper = FALSE]

(* Mutant: addresses are compared as they were typed. *)
CanonicalTrimmed(email) == TrimSpace(email)

(* strings.ToLower(strings.TrimSpace(email)). *)
Canonical(email) == ToLower(TrimSpace(email))

(* SELECT ... WHERE email = $1, as a set of at most one row. *)
GetByEmail(email) == {u \in users : u.email = Canonical(email)}

(* bcrypt accepts the password. *)
Hashable(password) == password.text \notin Long

(* bcrypt tells whether the hash is that of the password. *)
Compare(hash, password) == hash = password.text

AuthInit ==
    /\ users = {}
    /\ nextUser = 1
    /\ areqs = [s \in Slots |-> FreeAReq]

(* The handler of slot s ends with an HTTP status, and the id of the account
   it is about. *)
Answer(s, status, id) ==
    areqs' = [areqs EXCEPT ![s] =
                Finish([@ EXCEPT !.status = status, !.user = id],
                       IF status \in {200, 201} THEN "ok" ELSE "err",
                       FreeAReq)]

-----------------------------------------------------------------------------
(* The handlers. *)

(* NewSignupHandler and NewLoginHandler up to the call of the service: the
   fields are trimmed, and answered with 400 when one of them is empty.  A
   body that is no JSON object has the same answer. *)
AuthReceive(s, kind, email, password) ==
    LET blank == None \in {email.text, password.text}
    IN  /\ areqs[s].pc = "free"
        /\ areqs' = [areqs EXCEPT ![s] =
             [pc |-> IF blank THEN "err" ELSE "recv", open |-> TRUE,
              kind |-> kind, email |-> TrimSpace(email),
              password |-> TrimSpace(password), user |-> 0,
              status |-> IF blank THEN 400 ELSE 0]]
        /\ UNCHANGED <<users, nextUser>>

(* Signup up to the INSERT: 409 when the address is taken, 500 when bcrypt
   refuses the password. *)
CheckEmail(s) ==
    LET r == areqs[s]
    IN  /\ r.pc = "recv" /\ r.kind = "signup"
        /\ \/ /\ GetByEmail(r.email) # {}
              /\ Answer(s, 409, 0)
           \/ /\ GetByEmail(r.email) = {}
              /\ IF Hashable(r.password)
                 THEN areqs' = [areqs EXCEPT ![s].pc = "checked"]
                 ELSE Answer(s, 500, 0)
        /\ UNCHANGED <<users, nextUser>>

(* Mutant: the sequence does not move. *)
InsertNoSequence(s, acked, rows) ==
    /\ areqs[s].pc = "checked" /\ acked
    /\ users' = rows \cup
         {[id |-> nextUser, email |-> Canonical(areqs[s].email),
           hash |-> areqs[s].password.text]}
    /\ Answer(s, 201, nextUser)
    /\ UNCHANGED nextUser

(* The INSERT of slot s takes effect on the table. *)
Insert(s, acked, rows) ==
    LET r == areqs[s]
    IN  /\ r.pc = "checked"
        /\ acked \/ "db" \in Faults
        /\ users' = rows \cup {[id |-> nextUser, email |-> Canonical(r.email),
                                hash |-> r.password.text]}
        /\ nextUser' = nextUser + 1
        /\ IF acked THEN Answer(s, 201, nextUser) ELSE Answer(s, 500, 0)

(* Mutant: the conflicting row is replaced. *)
CreateReplaces(s, acked) ==
    Insert(s, acked, users \ GetByEmail(areqs[s].email))

(* INSERT ... RETURNING id, for an address that is not in the table.  The
   statement may take effect although its result is lost (acked = FALSE). *)
Create(s, acked) ==
    /\ GetByEmail(areqs[s].email) = {}
    /\ Insert(s, acked, users)

(* Another signup was faster: the unique index refuses the row, which the
   handler does not tell from any other error. *)
CreateRefused(s) ==
    /\ areqs[s].pc = "checked"
    /\ GetByEmail(areqs[s].email) # {}
    /\ nextUser' = nextUser + 1
    /\ Answer(s, 500, 0)
    /\ UNCHANGED users

(* Mutant: the error of a lookup is taken for an unknown address. *)
AuthDbErrorUnknown(s) ==
    /\ areqs[s].pc = "recv" /\ areqs[s].kind = "login"
    /\ "db" \in Faults
    /\ Answer(s, 401, 0)
    /\ UNCHANGED <<users, nextUser>>

(* A statement fails without effect: the database is unreachable, or the
   request context was cancelled when the caller went away. *)
AuthDbError(s) ==
    /\ areqs[s].pc \in {"recv", "checked"}
    /\ "db" \in Faults \/ ~areqs[s].open
    /\ Answer(s, 500, 0)
    /\ UNCHANGED <<users, nextUser>>

(* GenerateToken: an account id of zero gets no token. *)
GenerateToken(s, id) == IF id = 0 THEN Answer(s, 500, 0) ELSE Answer(s, 200, id)

(* Login: 401 for an unknown address and for a wrong password. *)
Login(s) ==
    LET r == areqs[s]
    IN  /\ r.pc = "recv" /\ r.kind = "login"
        /\ \/ /\ ~\E u \in GetByEmail(r.email) : Compare(u.hash, r.password)
              /\ Answer(s, 401, 0)
           \/ \E u \in GetByEmail(r.email) :
                Compare(u.hash, r.password) /\ GenerateToken(s, u.id)
        /\ UNCHANGED <<users, nextUser>>

(* The process dies and is started again; the table survives. *)
AuthCrash ==
    /\ "crash" \in Faults
    /\ areqs' = [s \in Slots |->
                   Broken([areqs[s] EXCEPT !.status = 0], FreeAReq)]
    /\ UNCHANGED <<users, nextUser>>

AuthStep(s) ==
    \/ CheckEmail(s)
    \/ \E acked \in BOOLEAN : Create(s, acked)
    \/ CreateRefused(s)
    \/ Login(s)
    \/ AuthDbError(s)

(* The caller reads the answer, or goes away. *)
AuthReply(s) ==
    /\ areqs[s].open /\ Answered(areqs[s])
    /\ areqs' = [areqs EXCEPT ![s] = FreeAReq]
    /\ UNCHANGED <<users, nextUser>>

AuthAbandon(s) ==
    /\ areqs[s].open
    /\ areqs' = [areqs EXCEPT ![s] = Abandon(@, FreeAReq)]
    /\ UNCHANGED <<users, nextUser>>

-----------------------------------------------------------------------------
(* Properties of the table. *)

(* Every variable has its type; keys in use were drawn from the sequence. *)
AuthTypeOK ==
    /\ users \subseteq User
    /\ nextUser \in Nat \ {0}
    /\ \A u \in users : u.id < nextUser
    /\ areqs \in [Slots -> AReq]

(* However an address is typed, and however many signups for it race between
   check and INSERT, it has at most one account, and an id has one too: the
   unique index only sees what ToLower and TrimSpace made of the address. *)
OneAccountPerAddress ==
    \A u, v \in users :
      u.email.text = v.email.text \/ u.id = v.id => u = v

=============================================================================
