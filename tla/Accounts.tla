------------------------------ MODULE Accounts ------------------------------
(***************************************************************************)
(* POST /auth/register and /auth/login, one SQL statement or password      *)
(* verification per action: the users, login_attempts and refresh_tokens   *)
(* tables, the count of failed logins and the lock it sets.  The exchange  *)
(* of POST /auth/refresh is one step: its statements are RefreshTokens.    *)
(* The rate limiter is not modelled.                                       *)
(*                                                                         *)
(* A request is [op, body].  A user's id and a jti are numbers.            *)
(***************************************************************************)
EXTENDS Responses, Sequences

CONSTANTS
    Clients,
    Scenarios,   \* [world, scripts, faults]: the first rows, the requests, the failures
    Limit,       \* failures that lock the account: 10
    LockTime     \* how long it stays locked: 15 minutes

ASSUME LimitAssumption == Limit \in Nat \ {0, 1}
ASSUME LockTimeAssumption == LockTime \in Nat \ {0}

Requests ==
    UNION {UNION {{s.scripts[c][i] : i \in DOMAIN s.scripts[c]} : c \in Clients} : s \in Scenarios}

VARIABLES
    now,
    users,      \* rows [id, email, password_hash]
    attempts,   \* user id -> [failed_count, last_failed_at, locked_until]
    sessions,   \* rows [jti, user] of refresh_tokens
    ids,        \* the last Uuid generated
    todo, pc, req,
    row,        \* the user a login found: {} or one row
    answers,    \* per client: the requests answered, with their answers
    told,       \* history: failures told since the account's last success
    verified,   \* history: per client, passwords verified since the account was locked
    faults      \* bound: failures of statements and lost answers to come

tables == <<users, attempts, sessions, ids>>
vars == <<now, tables, todo, pc, req, row, answers, told, verified, faults>>

Never == 0    \* NULL in locked_until
NoneVerified == [c \in Clients |-> 0]
NoRequest == [op |-> "none", body |-> << >>]

InitWith(world, scripts, failing) ==
    /\ now = 1 /\ ids = 100
    /\ users = world.users /\ attempts = world.attempts /\ sessions = {}
    /\ todo = scripts
    /\ pc = [c \in Clients |-> "idle"] /\ req = [c \in Clients |-> NoRequest]
    /\ row = [c \in Clients |-> {}]
    /\ answers = [c \in Clients |-> << >>]
    /\ told = [u \in world.users |-> 0] /\ verified = [u \in world.users |-> NoneVerified]
    /\ faults = failing

At(c, from) == pc[c] = from
Goto(c, from, to) == At(c, from) /\ pc' = [pc EXCEPT ![c] = to]

Answer(c, answer) ==
    /\ pc' = [pc EXCEPT ![c] = "idle"]
    /\ answers' = [answers EXCEPT
         ![c] = Append(@, [request |-> req[c], answer |-> answer])]

(* The statement has failed, or so it is reported; or nothing is answered. *)
AnswerLost(c) ==
    /\ faults > 0 /\ faults' = faults - 1
    /\ \E lost \in {NoAnswer, AuthError.Internal} : Answer(c, lost)

(* f, changed or extended at one user *)
With(f, u, value) ==
    [v \in DOMAIN f \cup {u} |-> IF v = u THEN value ELSE f[v]]

IsLocked(u) == u.id \in DOMAIN attempts /\ attempts[u.id].locked_until > now

(* NOW() and the clients' waits are the only uses of the clock. *)
Wait(c) ==
    /\ At(c, "idle") /\ todo[c] # << >> /\ Head(todo[c]).op = "wait"
    /\ now' = now + Head(todo[c]).body
    /\ todo' = [todo EXCEPT ![c] = Tail(todo[c])]
    /\ UNCHANGED <<tables, pc, req, row, answers, told, verified, faults>>

-----------------------------------------------------------------------------
(* An email is what precedes its first @, and the rest split at its dots.  *)
(* Mutant: the domain is not looked at. *)
has_local(email) == email.local # ""

is_valid_email(email) == email.local # "" /\ Len(email.domain) > 1

MinPassword == 8

(* A hash tells its salt, and a password only to who has that password. *)
hash_password(password, salt) == [salt |-> salt, hashed |-> password]
verify_password(password, hash) == hash = hash_password(password, hash.salt)

ValidBody(q) ==
    CASE q.op = "register" ->
           is_valid_email(q.body.email) /\ q.body.password.len >= MinPassword
      [] OTHER -> TRUE

First(op) ==
    CASE op = "register" -> "insert_user" [] op = "login" -> "select_user" [] OTHER -> "exchange"

(* What is decided before the first statement: the body of register, the   *)
(* token of refresh                                                        *)
Receive(c) ==
    /\ At(c, "idle") /\ todo[c] # << >> /\ Head(todo[c]).op # "wait"
    /\ LET q == Head(todo[c])
           refused == CASE ~ValidBody(q) -> {AuthError.InvalidInput}
                        [] q.op = "refresh" /\ q.body.kind # "refresh" ->
                             {AuthError.InvalidToken}
                        [] OTHER -> {}
       IN  /\ req' = [req EXCEPT ![c] = q]
           /\ todo' = [todo EXCEPT ![c] = Tail(todo[c])]
           /\ IF refused = {}
                THEN pc' = [pc EXCEPT ![c] = First(q.op)] /\ UNCHANGED answers
                ELSE /\ \E a \in refused : answers' = [answers EXCEPT
                          ![c] = Append(@, [request |-> q, answer |-> a])]
                     /\ UNCHANGED pc
    /\ UNCHANGED <<now, tables, row, told, verified, faults>>

-----------------------------------------------------------------------------
(* register *)
User(c) == [id |-> ids + 1, email |-> req[c].body.email,
            password_hash |-> hash_password(req[c].body.password, ids + 1)]

Insert(c, others) ==
    /\ users' = others \cup {User(c)}
    /\ ids' = ids + 1
    /\ told' = With(told, User(c), 0) /\ verified' = With(verified, User(c), NoneVerified)
    /\ \/ Answer(c, Success(201, {})) /\ UNCHANGED faults
       \/ AnswerLost(c)

(* Mutant: a second registration replaces the first. *)
UpsertUser(c) ==
    /\ At(c, "insert_user")
    /\ Insert(c, {u \in users : u.email # req[c].body.email})
    /\ UNCHANGED <<now, attempts, sessions, todo, req, row>>

(* Mutant: without the unique constraint. *)
InsertAnyUser(c) ==
    /\ At(c, "insert_user")
    /\ Insert(c, users)
    /\ UNCHANGED <<now, attempts, sessions, todo, req, row>>

InsertUser(c) ==
    /\ At(c, "insert_user")
    /\ \/ /\ \E u \in users : u.email = req[c].body.email
          /\ Answer(c, AuthError.EmailTaken)
          /\ UNCHANGED <<users, ids, told, verified, faults>>
       \/ /\ \A u \in users : u.email # req[c].body.email
          /\ Insert(c, users)
    /\ UNCHANGED <<now, attempts, sessions, todo, req, row>>

-----------------------------------------------------------------------------
(* login *)
Reads == UNCHANGED <<now, tables, todo, req, told, faults>>

SelectUser(c) ==
    /\ At(c, "select_user")
    /\ row' = [row EXCEPT ![c] = {u \in users : u.email = req[c].body.email}]
    /\ IF row'[c] = {}
         THEN Answer(c, AuthError.InvalidCredentials)
         ELSE Goto(c, "select_user", "check_lock") /\ UNCHANGED answers
    /\ Reads /\ UNCHANGED verified

(* Mutant: the lock is looked up the wrong way round. *)
CheckExpired(c) ==
    /\ At(c, "check_lock")
    /\ IF \E u \in row[c] : u.id \in DOMAIN attempts /\ attempts[u.id].locked_until \in 1 .. now
         THEN Answer(c, AuthError.InvalidCredentials)
         ELSE Goto(c, "check_lock", "verify") /\ UNCHANGED answers
    /\ Reads /\ UNCHANGED <<row, verified>>

CheckLock(c) ==
    /\ At(c, "check_lock")
    /\ IF \E u \in row[c] : IsLocked(u)
         THEN Answer(c, AuthError.InvalidCredentials)
         ELSE Goto(c, "check_lock", "verify") /\ UNCHANGED answers
    /\ Reads /\ UNCHANGED <<row, verified>>

(* verify_password, in a thread of its own *)
Verify(c) ==
    /\ \E u \in row[c] :
         /\ Goto(c, "verify",
                 IF verify_password(req[c].body.password, u.password_hash) THEN "clear" ELSE "count")
         /\ verified' = [verified EXCEPT ![u][c] = @ + 1]
    /\ Reads /\ UNCHANGED <<row, answers>>

Attempt(count, until) ==
    [failed_count |-> count, last_failed_at |-> now, locked_until |-> until]

(* Mutant: the lock is set by the tenth failure alone, and the CASE has no *)
(* ELSE.                                                                   *)
FailedOnceLocked(u, count) ==
    Attempt(count + 1, IF count + 1 = Limit THEN now + LockTime ELSE Never)

(* The row after one more failure than the count says *)
Failed(u, count) ==
    LET before == IF u.id \in DOMAIN attempts THEN attempts[u.id].locked_until ELSE Never
    IN  Attempt(count + 1, IF count # 0 /\ count + 1 >= Limit THEN now + LockTime ELSE before)

FailureCount(u) == IF u.id \in DOMAIN attempts THEN attempts[u.id].failed_count ELSE 0

Count(c, u, attempt) ==
    /\ attempts' = With(attempts, u.id, attempt)
    /\ verified' = IF attempt.locked_until > now /\ ~IsLocked(u)
                     THEN [verified EXCEPT ![u] = NoneVerified] ELSE verified
    /\ \/ /\ Answer(c, AuthError.InvalidCredentials)
          /\ told' = [told EXCEPT ![u] = @ + 1]
          /\ UNCHANGED faults
       \/ AnswerLost(c) /\ UNCHANGED told
    /\ UNCHANGED <<now, users, sessions, ids, todo, req, row>>

(* Mutant: the count starts again when a lock has expired. *)
CountAfresh(c) ==
    /\ At(c, "count")
    /\ \E u \in row[c] :
         LET ended == FailureCount(u) >= Limit /\ ~IsLocked(u)
         IN  Count(c, u, Failed(u, IF ended THEN 0 ELSE FailureCount(u)))

(* Mutant: the count of the failing login's own row, not the stored one. *)
CountFirst(c) ==
    /\ At(c, "count")
    /\ \E u \in row[c] : Count(c, u, Attempt(1, Never))

(* The upsert: one statement counts the failure and sets the lock. *)
CountFailure(c) ==
    /\ At(c, "count")
    /\ \E u \in row[c] : Count(c, u, Failed(u, FailureCount(u)))

(* DELETE FROM login_attempts *)
ClearFailures(c) ==
    /\ At(c, "clear")
    /\ \E u \in row[c] :
         /\ attempts' = [v \in DOMAIN attempts \ {u.id} |-> attempts[v]]
         /\ told' = [told EXCEPT ![u] = 0]
    /\ \/ Goto(c, "clear", "issue") /\ UNCHANGED <<answers, faults>>
       \/ AnswerLost(c)
    /\ UNCHANGED <<now, users, sessions, ids, todo, req, row, verified>>

(* The INSERT of the refresh token *)
IssueTokens(c) ==
    /\ At(c, "issue")
    /\ sessions' = sessions \cup {[jti |-> ids + 1, user |-> u.id] : u \in row[c]}
    /\ ids' = ids + 1
    /\ \/ Answer(c, Success(200, {[jti |-> ids + 1]})) /\ UNCHANGED faults
       \/ AnswerLost(c)
    /\ UNCHANGED <<now, users, attempts, todo, req, row, told, verified>>

-----------------------------------------------------------------------------
(* refresh, once the token has decoded *)
Exchange(c) ==
    /\ At(c, "exchange")
    /\ LET old == {s \in sessions : s.jti = req[c].body.jti}
       IN  \/ /\ old = {}
              /\ Answer(c, AuthError.InvalidToken)
              /\ UNCHANGED <<sessions, ids, faults>>
           \/ /\ old # {}
              /\ sessions' = (sessions \ old)
                               \cup {[jti |-> ids + 1, user |-> s.user] : s \in old}
              /\ ids' = ids + 1
              /\ \/ Answer(c, Success(200, {[jti |-> ids + 1]})) /\ UNCHANGED faults
                 \/ AnswerLost(c)
    /\ UNCHANGED <<now, users, attempts, todo, req, row, told, verified>>

(* A statement, the hashing or the verifying fails without effect, or the  *)
(* request is dropped where it is.                                         *)
Fails(c) ==
    /\ ~At(c, "idle")
    /\ AnswerLost(c)
    /\ UNCHANGED <<now, tables, todo, req, row, told, verified>>

-----------------------------------------------------------------------------
Handle(c) ==
    \/ InsertUser(c)
    \/ SelectUser(c) \/ CheckLock(c) \/ Verify(c)
    \/ CountFailure(c) \/ ClearFailures(c) \/ IssueTokens(c)
    \/ Exchange(c)

Next == \E c \in Clients : Wait(c) \/ Receive(c) \/ Handle(c) \/ Fails(c)

(* The rows a run begins with are rows the program can have left: what     *)
(* InitWith does not check is checked here.                                *)
PossibleWorld(w) ==
    /\ \A u \in w.users : /\ u.id \in 1 .. 100 /\ is_valid_email(u.email)
                          /\ u.password_hash.hashed.len >= MinPassword
    /\ \A u, v \in w.users : u.id = v.id \/ u.email = v.email => u = v
    /\ \A id \in DOMAIN w.attempts :
         LET a == w.attempts[id]
         IN  /\ \E u \in w.users : u.id = id
             /\ a.failed_count \in Nat \ {0} /\ a.last_failed_at \in 0 .. 1
             /\ a = [failed_count |-> a.failed_count, last_failed_at |-> a.last_failed_at,
                     locked_until |-> IF a.failed_count >= Limit
                                        THEN a.last_failed_at + LockTime ELSE Never]

ASSUME ScenariosAssumption ==
    \A s \in Scenarios :
        /\ PossibleWorld(s.world) /\ s.faults \in Nat
        /\ s.scripts \in [Clients -> Seq(Requests)]

ASSUME RequestsAssumption ==
    \A q \in Requests :
        /\ q.op \in {"register", "login", "refresh", "wait"}
        /\ q.op = "wait" => q.body \in Nat

Init == \E s \in Scenarios : InitWith(s.world, s.scripts, s.faults)

Spec == Init /\ [][Next]_vars

-----------------------------------------------------------------------------
Places ==
    {"idle", "insert_user", "select_user", "check_lock", "verify", "count",
     "clear", "issue", "exchange"}

Answers ==
    [status : Nat, rows : SUBSET [jti : Nat],
     code : {"", "invalid_credentials", "invalid_token", "email_taken", "invalid_input",
             "internal_error"}]

TypeOK ==
    /\ now \in Nat \ {0} /\ ids \in Nat /\ faults \in Nat
    /\ \A u \in users : /\ u.id \in Nat /\ is_valid_email(u.email)
                        /\ u.password_hash.hashed.len >= MinPassword
    /\ \A id \in DOMAIN attempts :
         /\ attempts[id] \in [failed_count : Nat \ {0}, last_failed_at : Nat, locked_until : Nat]
         /\ \E u \in users : u.id = id
    /\ \A s \in sessions : \E u \in users : u.id = s.user
    /\ pc \in [Clients -> Places]
    /\ todo \in [Clients -> Seq(Requests)] /\ req \in [Clients -> Requests \cup {NoRequest}]
    /\ row \in [Clients -> SUBSET users]
    /\ answers \in [Clients -> Seq([request : Requests, answer : Answers])]
    /\ told \in [users -> Nat] /\ verified \in [users -> [Clients -> Nat]]

Owned(q) ==
    \E u \in users : u.email = q.body.email /\ verify_password(q.body.password, u.password_hash)

Granted(entry) ==
    (entry.request.op \in {"register", "login"} /\ entry.answer.status \in {200, 201})
        => Owned(entry.request)

(* An email's account is its first registrant's: of registrations that     *)
(* race one is answered 201, its password is the account's for ever, and   *)
(* every login answered 200 gave that password.                            *)
AccountIsItsCreators ==
    /\ \A u, v \in users : u.email = v.email => u = v
    /\ \A c \in Clients : \A i \in DOMAIN answers[c] : Granted(answers[c][i])

(* Every failed login a client was told of is in the count until a login   *)
(* succeeds: concurrent failures do not overwrite each other, an expired   *)
(* lock does not forget them.                                              *)
CountsEveryFailure ==
    \A u \in users : told[u] <= FailureCount(u)

(* An account with Limit failures has had its lock set by the last of      *)
(* them, and before that many there is none; whoever failed in between.    *)
LockFollowsCount ==
    \A u \in DOMAIN attempts :
        attempts[u].locked_until =
            IF attempts[u].failed_count >= Limit
            THEN attempts[u].last_failed_at + LockTime ELSE Never

(* The lock saves the work of verifying: once an account is locked, no     *)
(* client has more than one more password verified, the one it had in hand *)
(* when the account was locked, however often it then asks.                *)
VerifiedWhileLocked ==
    \A u \in users : IsLocked(u) => \A c \in Clients : verified[u][c] <= 1

(* A lock is neither lifted nor shortened before its time, whatever is     *)
(* counted meanwhile of those who passed the check before it was set, but  *)
(* by a login that gives the account's password and passed it as they did. *)
OnlyThePasswordUnlocks ==
    [][\A u \in users : IsLocked(u) =>
          \/ /\ u.id \in DOMAIN attempts'
             /\ attempts'[u.id].locked_until >= attempts[u.id].locked_until
          \/ \E c \in Clients :
               /\ pc'[c] # pc[c]
               /\ req[c].op = "login" /\ req[c].body.email = u.email
               /\ verify_password(req[c].body.password, u.password_hash)]_vars
=============================================================================
