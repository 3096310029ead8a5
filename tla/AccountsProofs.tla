--------------------------- MODULE AccountsProofs ---------------------------
(***************************************************************************)
(* Theorems about Accounts for any number of clients, any requests, first  *)
(* rows and failures, any limit above one and any time of the lock.        *)
(***************************************************************************)
EXTENDS Accounts, TLAPS

Holding == {"check_lock", "verify", "count", "clear", "issue"}

(* What a request at its place has established *)
Request(c) ==
    /\ pc[c] # "idle" => req[c] \in Requests
    /\ pc[c] = "insert_user" =>
         /\ req[c].op = "register"
         /\ is_valid_email(req[c].body.email) /\ req[c].body.password.len >= MinPassword
    /\ pc[c] = "exchange" => req[c].op = "refresh"
    /\ pc[c] \in {"select_user"} \cup Holding => req[c].op = "login"
    /\ pc[c] \in Holding =>
         /\ row[c] # {}
         /\ \A u \in row[c] : u \in users /\ u.email = req[c].body.email
    /\ pc[c] \in {"clear", "issue"} =>
         \A u \in row[c] : verify_password(req[c].body.password, u.password_hash)

(* Ids are fresh, and name one user. *)
FreshIds ==
    /\ \A u \in users : u.id <= ids
    /\ \A u, v \in users : u.id = v.id => u = v

(* A client that passed the check of the lock before it was set verifies   *)
(* once more, the others no more.                                          *)
LockHolds ==
    \A u \in users : IsLocked(u) => \A c \in Clients :
        /\ verified[u][c] <= 1
        /\ pc[c] = "verify" /\ u \in row[c] => verified[u][c] = 0

LockIsPast == \A id \in DOMAIN attempts : attempts[id].last_failed_at <= now

IInv ==
    /\ TypeOK /\ FreshIds /\ LockIsPast
    /\ \A c \in Clients : Request(c)
    /\ AccountIsItsCreators /\ CountsEveryFailure /\ LockFollowsCount /\ LockHolds

-----------------------------------------------------------------------------
LEMMA AnswerTypes ==
    /\ NoAnswer \in Answers /\ NoAnswer.status = 0
    /\ AuthError.Internal \in Answers /\ AuthError.Internal.status = 500
    /\ AuthError.InvalidCredentials \in Answers /\ AuthError.InvalidCredentials.status = 401
    /\ AuthError.InvalidToken \in Answers /\ AuthError.InvalidToken.status = 401
    /\ AuthError.EmailTaken \in Answers /\ AuthError.EmailTaken.status = 409
    /\ AuthError.InvalidInput \in Answers /\ AuthError.InvalidInput.status = 422
BY DEF NoAnswer, AuthError, Failure, Answers

LEMMA SuccessTypes ==
    /\ Success(201, {}) \in Answers /\ Success(201, {}).status = 201
    /\ \A n \in Nat : /\ Success(200, {[jti |-> n]}) \in Answers
                     /\ Success(200, {[jti |-> n]}).status = 200
<1>1. Success(201, {}) \in Answers /\ Success(201, {}).status = 201
    BY DEF Success, Answers
<1>2. ASSUME NEW n \in Nat
      PROVE  /\ Success(200, {[jti |-> n]}) \in Answers
             /\ Success(200, {[jti |-> n]}).status = 200
  <2>1. [jti |-> n] \in [jti : Nat]
      OBVIOUS
  <2> QED BY <2>1 DEF Success, Answers
<1> QED BY <1>1, <1>2

(* Init: what PossibleWorld asks is enough. *)
LEMMA InitIInv == Init => IInv
<1> SUFFICES ASSUME NEW s \in Scenarios, InitWith(s.world, s.scripts, s.faults)
             PROVE  IInv
    BY DEF Init
<1>0. PossibleWorld(s.world) /\ s.faults \in Nat /\ s.scripts \in [Clients -> Seq(Requests)]
    BY ScenariosAssumption
<1>w. /\ users = s.world.users
      /\ \A u \in users : /\ u.id \in 1 .. 100 /\ is_valid_email(u.email)
                          /\ u.password_hash.hashed.len >= MinPassword
      /\ \A u, v \in users : u.id = v.id \/ u.email = v.email => u = v
  <2> HIDE DEF is_valid_email
  <2>1. users = s.world.users
      BY DEF InitWith
  <2> QED BY <1>0, <2>1, Zenon DEF PossibleWorld
<1> USE DEF InitWith, PossibleWorld, Never
<1>1. LockFollowsCount /\ LockIsPast
  <2>1. ASSUME NEW id \in DOMAIN attempts
        PROVE  /\ attempts[id].last_failed_at \in 0 .. 1
               /\ attempts[id].locked_until = IF attempts[id].failed_count >= Limit
                                      THEN attempts[id].last_failed_at + LockTime ELSE 0
    <3> DEFINE a == s.world.attempts[id]
    <3>1. a = [failed_count |-> a.failed_count, last_failed_at |-> a.last_failed_at,
               locked_until |-> IF a.failed_count >= Limit
                                  THEN a.last_failed_at + LockTime ELSE 0]
          /\ a.last_failed_at \in 0 .. 1
        BY <1>0
    <3> QED BY <3>1
  <2> QED BY <2>1 DEF LockFollowsCount, LockIsPast
<1>2. TypeOK
  <2>1. ASSUME NEW id \in DOMAIN attempts
        PROVE  attempts[id] \in [failed_count : Nat \ {0}, last_failed_at : Nat, locked_until : Nat]
    <3> DEFINE a == s.world.attempts[id]
    <3>1. /\ a = [failed_count |-> a.failed_count, last_failed_at |-> a.last_failed_at,
                  locked_until |-> IF a.failed_count >= Limit
                                     THEN a.last_failed_at + LockTime ELSE 0]
          /\ a.failed_count \in Nat \ {0} /\ a.last_failed_at \in 0 .. 1
        BY <1>0
    <3> QED BY <3>1, LimitAssumption, LockTimeAssumption
  <2>2. now \in Nat \ {0} /\ ids \in Nat /\ faults \in Nat
      BY <1>0
  <2>3. \A u \in users : /\ u.id \in Nat /\ is_valid_email(u.email)
                        /\ u.password_hash.hashed.len >= MinPassword
    <3> HIDE DEF InitWith, PossibleWorld
    <3> QED BY <1>w
  <2>4. pc \in [Clients -> Places] /\ req \in [Clients -> Requests \cup {NoRequest}]
      BY DEF Places
  <2>5. todo \in [Clients -> Seq(Requests)] /\ row \in [Clients -> SUBSET users]
      BY <1>0
  <2>6. answers \in [Clients -> Seq([request : Requests, answer : Answers])]
      OBVIOUS
  <2>7. told \in [users -> Nat] /\ verified \in [users -> [Clients -> Nat]]
      BY DEF NoneVerified
  <2>8. (\A id \in DOMAIN attempts : \E u \in users : u.id = id) /\ sessions = {}
      BY <1>0
  <2> QED BY <2>1, <2>2, <2>3, <2>4, <2>5, <2>6, <2>7, <2>8 DEF TypeOK
<1>3. FreshIds
  <2>1. ids = 100
      OBVIOUS
  <2> HIDE DEF InitWith, PossibleWorld
  <2> QED BY <1>w, <2>1 DEF FreshIds
<1>7. \A c \in Clients : Request(c)
    BY DEF Request, Holding
<1>4. AccountIsItsCreators
  <2>1. \A c \in Clients : answers[c] = << >>
      OBVIOUS
  <2> HIDE DEF InitWith, PossibleWorld
  <2> QED BY <1>w, <2>1 DEF AccountIsItsCreators
<1>5. CountsEveryFailure
    BY <1>2 DEF CountsEveryFailure, FailureCount, TypeOK
<1>6. LockHolds
    BY DEF LockHolds, NoneVerified
<1> QED BY <1>1, <1>2, <1>3, <1>4, <1>5, <1>6, <1>7 DEF IInv

-----------------------------------------------------------------------------
Step(c) == Wait(c) \/ Receive(c) \/ Handle(c) \/ Fails(c)

(* An answer is the last of its client's, and touches no other client. *)
LEMMA AnswerKeeps ==
    ASSUME TypeOK, NEW c \in Clients, NEW a \in Answers, req[c] \in Requests, Answer(c, a)
    PROVE  /\ pc' \in [Clients -> Places] /\ pc'[c] = "idle"
           /\ answers' \in [Clients -> Seq([request : Requests, answer : Answers])]
           /\ answers'[c] = Append(answers[c], [request |-> req[c], answer |-> a])
           /\ \A d \in Clients \ {c} : pc'[d] = pc[d] /\ answers'[d] = answers[d]
<1> DEFINE Entry == [request : Requests, answer : Answers]
<1>1. [request |-> req[c], answer |-> a] \in Entry
    OBVIOUS
<1>2. answers \in [Clients -> Seq(Entry)] /\ pc \in [Clients -> Places]
    BY DEF TypeOK
<1> HIDE DEF Entry
<1>3. Append(answers[c], [request |-> req[c], answer |-> a]) \in Seq(Entry)
    BY <1>1, <1>2
<1> QED BY <1>2, <1>3 DEF Answer, Places, Entry

(* What a lost answer is *)
LEMMA LostAnswer ==
    ASSUME NEW c \in Clients, AnswerLost(c)
    PROVE  \E a \in Answers : Answer(c, a) /\ a.status \notin {200, 201}
BY AnswerTypes DEF AnswerLost

(* Granted, of any set of users *)
GrantedIn(entry, rows) ==
    (entry.request.op \in {"register", "login"} /\ entry.answer.status \in {200, 201})
        => \E u \in rows : /\ u.email = entry.request.body.email
                          /\ verify_password(entry.request.body.password, u.password_hash)

AllGranted(given, rows) ==
    \A c \in Clients : \A i \in DOMAIN given[c] : GrantedIn(given[c][i], rows)

LEMMA AllGrantedIs ==
    AccountIsItsCreators <=>
        (\A u, v \in users : u.email = v.email => u = v) /\ AllGranted(answers, users)
BY DEF AccountIsItsCreators, AllGranted, GrantedIn, Granted, Owned

LEMMA GrantedInMore ==
    ASSUME NEW entry, NEW rows, NEW more, rows \subseteq more, GrantedIn(entry, rows)
    PROVE  GrantedIn(entry, more)
BY DEF GrantedIn

(* A step answers nothing, or one answer; a good one to a login or a        *)
(* registration only where the account is the client's.                     *)
Replies(c) ==
    \E a \in Answers :
        /\ Answer(c, a) /\ req[c] \in Requests
        /\ GrantedIn([request |-> req[c], answer |-> a], users')

LEMMA FailureReplies ==
    ASSUME NEW c \in Clients, NEW a \in Answers, a.status \notin {200, 201},
           req[c] \in Requests, Answer(c, a)
    PROVE  Replies(c)
BY DEF Replies, GrantedIn

LEMMA GrantedKeeps ==
    ASSUME IInv, NEW c \in Clients, users \subseteq users', answers' = answers \/ Replies(c)
    PROVE  AllGranted(answers', users')
<1>2. AllGranted(answers, users)
    BY AllGrantedIs DEF IInv
<1>3. CASE answers' = answers
    BY <1>2, <1>3, GrantedInMore DEF AllGranted
<1>4. CASE Replies(c)
  <2>1. PICK a \in Answers : /\ Answer(c, a) /\ req[c] \in Requests
                             /\ GrantedIn([request |-> req[c], answer |-> a], users')
      BY <1>4 DEF Replies
  <2> DEFINE entry == [request |-> req[c], answer |-> a]
  <2>2. answers'[c] = Append(answers[c], entry)
        /\ \A d \in Clients \ {c} : answers'[d] = answers[d]
      BY <2>1, AnswerKeeps DEF IInv
  <2>3. answers[c] \in Seq([request : Requests, answer : Answers])
      BY DEF IInv, TypeOK
  <2>4. GrantedIn(entry, users')
      BY <2>1
  <2> HIDE DEF entry
  <2>5. \A i \in DOMAIN answers'[c] :
          (i \in DOMAIN answers[c] /\ answers'[c][i] = answers[c][i]) \/ answers'[c][i] = entry
      BY <2>2, <2>3
  <2>6. ASSUME NEW i \in DOMAIN answers'[c] PROVE GrantedIn(answers'[c][i], users')
      BY <1>2, <2>4, <2>5, GrantedInMore DEF AllGranted
  <2> QED BY <1>2, <2>2, <2>6, GrantedInMore DEF AllGranted
<1> QED BY <1>3, <1>4

LEMMA LostReplies ==
    ASSUME NEW c \in Clients, req[c] \in Requests, AnswerLost(c)
    PROVE  Replies(c)
<1>1. PICK a \in Answers : Answer(c, a) /\ a.status \notin {200, 201}
    BY LostAnswer
<1> QED BY <1>1, FailureReplies

(* What a step that answers leaves of its client's place and of the answers *)
LEMMA RepliesKeep ==
    ASSUME IInv, NEW c \in Clients, Replies(c)
    PROVE  /\ pc' \in [Clients -> Places] /\ pc'[c] = "idle"
           /\ answers' \in [Clients -> Seq([request : Requests, answer : Answers])]
           /\ \A d \in Clients \ {c} : pc'[d] = pc[d]
<1>1. PICK a \in Answers : Answer(c, a) /\ req[c] \in Requests
    BY DEF Replies
<1> QED BY <1>1, AnswerKeeps DEF IInv

(* Only the client that acts moves. *)
OthersStand(c) ==
    \A d \in Clients \ {c} : pc'[d] = pc[d] /\ req'[d] = req[d] /\ row'[d] = row[d]

LEMMA OthersRequest ==
    ASSUME IInv, NEW c \in Clients, NEW d \in Clients \ {c}, OthersStand(c), users \subseteq users'
    PROVE  Request(d)'
<1>1. Request(d) /\ pc'[d] = pc[d] /\ req'[d] = req[d] /\ row'[d] = row[d]
    BY DEF IInv, OthersStand
<1> QED BY <1>1 DEF Request, Holding

LEMMA AccountKeeps ==
    ASSUME IInv, users' = users, AllGranted(answers', users')
    PROVE  AccountIsItsCreators'
<1>1. \A u, v \in users' : u.email = v.email => u = v
    BY DEF IInv, AccountIsItsCreators
<1> QED BY <1>1 DEF AccountIsItsCreators, AllGranted, GrantedIn, Granted, Owned

(* A step that leaves the users and their counts alone *)
LEMMA QuietKeeps ==
    ASSUME IInv, NEW c \in Clients, OthersStand(c), TypeOK', Request(c)',
           UNCHANGED <<users, attempts, told, verified>>, ids' >= ids, now' >= now,
           AllGranted(answers', users'),
           pc'[c] = "verify" => \A u \in row'[c] : ~IsLocked(u)
    PROVE  IInv'
<1>1. FreshIds' /\ LockIsPast'
    BY DEF IInv, TypeOK, FreshIds, LockIsPast
<1>2. \A d \in Clients : Request(d)'
    BY OthersRequest
<1>3. AccountIsItsCreators'
    BY AccountKeeps
<1>4. CountsEveryFailure' /\ LockFollowsCount'
    BY DEF IInv, CountsEveryFailure, LockFollowsCount, FailureCount
<1>5. LockHolds'
  <2>1. \A u \in users : IsLocked(u)' => IsLocked(u)
      BY DEF IInv, TypeOK, IsLocked
  <2> QED BY <2>1 DEF IInv, LockHolds, OthersStand
<1> QED BY <1>1, <1>2, <1>3, <1>4, <1>5 DEF IInv

LEMMA Numbers == IInv => ids \in Nat /\ now \in Nat /\ ids >= ids /\ now >= now
BY DEF IInv, TypeOK

(* A request that ends where it is, having done nothing *)
LEMMA EndKeeps ==
    ASSUME IInv, NEW c \in Clients, NEW a \in Answers, a.status \notin {200, 201},
           req[c] \in Requests, Answer(c, a), row'[c] \subseteq users, faults' \in Nat,
           row' = [row EXCEPT ![c] = row'[c]],
           UNCHANGED <<now, tables, todo, req, told, verified>>
    PROVE  IInv'
<1>1. Replies(c)
    BY FailureReplies
<1>2. /\ pc' \in [Clients -> Places] /\ pc'[c] = "idle"
      /\ answers' \in [Clients -> Seq([request : Requests, answer : Answers])]
      /\ \A d \in Clients \ {c} : pc'[d] = pc[d]
    BY AnswerKeeps DEF IInv
<1>3. row' \in [Clients -> SUBSET users]
    BY DEF IInv, TypeOK
<1>4. TypeOK'
    BY <1>2, <1>3 DEF IInv, TypeOK, tables
<1>5. Request(c)' /\ OthersStand(c)
    BY <1>2 DEF IInv, TypeOK, Request, OthersStand, Holding
<1>6. AllGranted(answers', users')
    BY <1>1, GrantedKeeps DEF tables
<1> QED BY <1>2, <1>4, <1>5, <1>6, Numbers, QuietKeeps DEF tables

LEMMA FailsKeeps ==
    ASSUME IInv, NEW c \in Clients, Fails(c)
    PROVE  IInv'
<1>1. PICK a \in Answers : Answer(c, a) /\ a.status \notin {200, 201}
    BY LostAnswer DEF Fails
<1>2. req[c] \in Requests /\ faults' \in Nat
    BY DEF Fails, At, AnswerLost, IInv, TypeOK, Request
<1>3. row'[c] \subseteq users /\ row' = [row EXCEPT ![c] = row'[c]]
    BY DEF Fails, IInv, TypeOK
<1> QED BY <1>1, <1>2, <1>3, EndKeeps DEF Fails

LEMMA WaitKeeps ==
    ASSUME IInv, NEW c \in Clients, Wait(c)
    PROVE  IInv'
<1>1. todo[c] \in Seq(Requests) /\ todo[c] # << >>
    BY DEF IInv, TypeOK, Wait
<1>2. Head(todo[c]) \in Requests /\ Tail(todo[c]) \in Seq(Requests)
    BY <1>1
<1>3. Head(todo[c]).body \in Nat
    BY <1>2, RequestsAssumption DEF Wait
<1>4. now' >= now /\ now' \in Nat \ {0}
    BY <1>3 DEF IInv, TypeOK, Wait
<1>7. todo' \in [Clients -> Seq(Requests)]
    BY <1>2 DEF IInv, TypeOK, Wait
<1>8. TypeOK'
    BY <1>4, <1>7 DEF IInv, TypeOK, Wait, tables
<1>5. Request(c)' /\ OthersStand(c)
    BY DEF IInv, Request, OthersStand, Holding, Wait, At
<1>6. AllGranted(answers', users')
    BY GrantedKeeps DEF Wait, tables
<1> QED BY <1>4, <1>5, <1>6, <1>8, Numbers, QuietKeeps DEF Wait, At, tables

LEMMA ReceiveKeeps ==
    ASSUME IInv, NEW c \in Clients, Receive(c)
    PROVE  IInv'
<1> DEFINE q == Head(todo[c])
           refused == CASE ~ValidBody(q) -> {AuthError.InvalidInput}
                        [] q.op = "refresh" /\ q.body.kind # "refresh" -> {AuthError.InvalidToken}
                        [] OTHER -> {}
           Entry == [request : Requests, answer : Answers]
<1>1. todo[c] \in Seq(Requests) /\ todo[c] # << >> /\ pc[c] = "idle" /\ q.op # "wait"
    BY DEF IInv, TypeOK, Receive, At
<1>2. q \in Requests /\ Tail(todo[c]) \in Seq(Requests)
    BY <1>1
<1>3. /\ req' = [req EXCEPT ![c] = q] /\ todo' = [todo EXCEPT ![c] = Tail(todo[c])]
      /\ UNCHANGED <<now, tables, row, told, verified, faults>>
    BY DEF Receive
<1>4. CASE refused = {} /\ pc' = [pc EXCEPT ![c] = First(q.op)] /\ UNCHANGED answers
  <2>1. ValidBody(q)
      BY <1>4
  <2>2. q.op \in {"register", "login", "refresh"}
      BY <1>1, <1>2, RequestsAssumption
  <2>3. /\ q.op = "register" => First(q.op) = "insert_user"
        /\ q.op = "login" => First(q.op) = "select_user"
        /\ q.op = "refresh" => First(q.op) = "exchange"
      BY DEF First
  <2>4. q.op = "register" => /\ is_valid_email(q.body.email)
                             /\ q.body.password.len >= MinPassword
      BY <2>1 DEF ValidBody
  <2> HIDE DEF q
  <2>5. TypeOK'
      BY <1>1, <1>2, <1>3, <1>4, <2>2, <2>3 DEF IInv, TypeOK, tables, Places
  <2>6. pc'[c] = First(q.op) /\ req'[c] = q
      BY <1>3, <1>4 DEF IInv, TypeOK
  <2>7. Request(c)'
    <3>1. is_valid_email(q.body.email) <=> (q.body.email.local # "" /\ Len(q.body.email.domain) > 1)
        BY DEF is_valid_email
    <3> QED BY <1>2, <2>2, <2>3, <2>4, <2>6, <3>1 DEF Request, Holding, is_valid_email
  <2>8. OthersStand(c)
      BY <1>3, <1>4 DEF IInv, TypeOK, OthersStand
  <2>9. AllGranted(answers', users')
      BY <1>3, <1>4, GrantedKeeps DEF tables
  <2> QED BY <1>3, <1>4, <2>2, <2>3, <2>5, <2>6, <2>7, <2>8, <2>9, Numbers, QuietKeeps DEF tables
<1>5. CASE \E a \in refused : answers' = [answers EXCEPT
              ![c] = Append(@, [request |-> q, answer |-> a])] /\ UNCHANGED pc
  <2>1. PICK a \in refused : answers' = [answers EXCEPT
              ![c] = Append(@, [request |-> q, answer |-> a])] /\ UNCHANGED pc
      BY <1>5
  <2>2. a \in Answers /\ a.status \notin {200, 201}
    <3>1. a \in {AuthError.InvalidInput, AuthError.InvalidToken}
        BY <2>1
    <3> QED BY <3>1, AnswerTypes
  <2> HIDE DEF q, refused, Entry
  <2>3. [request |-> q, answer |-> a] \in Entry
      BY <1>2, <2>2 DEF Entry
  <2>4. answers \in [Clients -> Seq(Entry)]
      BY DEF IInv, TypeOK, Entry
  <2>5. answers' \in [Clients -> Seq(Entry)]
    <3>1. Append(answers[c], [request |-> q, answer |-> a]) \in Seq(Entry)
        BY <2>3, <2>4
    <3> QED BY <2>1, <2>4, <3>1
  <2>6. TypeOK'
      BY <1>2, <1>3, <2>1, <2>5 DEF IInv, TypeOK, tables, Entry
  <2>7. AllGranted(answers', users')
    <3>1. AllGranted(answers, users)
        BY AllGrantedIs DEF IInv
    <3>2. GrantedIn([request |-> q, answer |-> a], users)
        BY <2>2 DEF GrantedIn
    <3>3. \A i \in DOMAIN answers'[c] :
            \/ i \in DOMAIN answers[c] /\ answers'[c][i] = answers[c][i]
            \/ answers'[c][i] = [request |-> q, answer |-> a]
        BY <2>1, <2>3, <2>4
    <3>4. users' = users /\ \A d \in Clients \ {c} : answers'[d] = answers[d]
        BY <1>3, <2>1, <2>4 DEF tables
    <3> QED BY <3>1, <3>2, <3>3, <3>4 DEF AllGranted
  <2>8. Request(c)' /\ OthersStand(c)
      BY <1>1, <1>3, <2>1 DEF IInv, TypeOK, Request, OthersStand, Holding
  <2> QED BY <1>1, <1>3, <2>1, <2>6, <2>7, <2>8, Numbers, QuietKeeps DEF tables
<1> QED BY <1>4, <1>5 DEF Receive

(* A step that goes on to the next place of its request *)
LEMMA GotoKeeps ==
    ASSUME IInv, NEW c \in Clients, NEW p \in Places, pc' = [pc EXCEPT ![c] = p],
           row' = [row EXCEPT ![c] = row'[c]], row'[c] \subseteq users,
           UNCHANGED <<now, tables, todo, req, told, verified, faults, answers>>,
           Request(c)', p = "verify" => \A u \in row'[c] : ~IsLocked(u)
    PROVE  IInv'
<1>1. TypeOK' /\ OthersStand(c)
    BY DEF IInv, TypeOK, tables, OthersStand
<1>2. AllGranted(answers', users')
    BY GrantedKeeps DEF tables
<1>3. pc'[c] = p
    BY DEF IInv, TypeOK
<1> QED BY <1>1, <1>2, <1>3, Numbers, QuietKeeps DEF tables

LEMMA SelectKeeps ==
    ASSUME IInv, NEW c \in Clients, SelectUser(c)
    PROVE  IInv'
<1>1. row'[c] = {u \in users : u.email = req[c].body.email} /\ row' = [row EXCEPT ![c] = row'[c]]
      /\ UNCHANGED <<now, tables, todo, req, told, faults, verified>>
    BY DEF SelectUser, Reads, IInv, TypeOK
<1>2. req[c] \in Requests /\ req[c].op = "login" /\ faults \in Nat
    BY DEF SelectUser, At, IInv, TypeOK, Request
<1>3. CASE row'[c] = {}
  <2>1. Answer(c, AuthError.InvalidCredentials)
      BY <1>3 DEF SelectUser
  <2>2. faults' \in Nat /\ row'[c] \subseteq users
      BY <1>1, <1>2
  <2> QED BY <1>1, <1>2, <2>1, <2>2, AnswerTypes, EndKeeps
<1>4. CASE row'[c] # {}
  <2>1. pc' = [pc EXCEPT ![c] = "check_lock"] /\ UNCHANGED answers
      BY <1>4 DEF SelectUser, Goto
  <2>2. Request(c)'
      BY <1>1, <1>2, <1>4, <2>1 DEF IInv, TypeOK, Request, Holding, tables
  <2> QED BY <1>1, <2>1, <2>2, GotoKeeps DEF Places
<1> QED BY <1>3, <1>4

LEMMA CheckLockKeeps ==
    ASSUME IInv, NEW c \in Clients, CheckLock(c)
    PROVE  IInv'
<1>1. row' = [row EXCEPT ![c] = row'[c]] /\ row'[c] \subseteq users /\ row' = row
      /\ UNCHANGED <<now, tables, todo, req, told, faults, verified>>
    BY DEF CheckLock, Reads, IInv, TypeOK
<1>2. req[c] \in Requests /\ faults \in Nat /\ pc[c] = "check_lock"
    BY DEF CheckLock, At, IInv, TypeOK, Request
<1>3. CASE \E u \in row[c] : IsLocked(u)
  <2>1. Answer(c, AuthError.InvalidCredentials)
      BY <1>3 DEF CheckLock
  <2> QED BY <1>1, <1>2, <2>1, AnswerTypes, EndKeeps
<1>4. CASE ~\E u \in row[c] : IsLocked(u)
  <2>1. pc' = [pc EXCEPT ![c] = "verify"] /\ UNCHANGED answers
      BY <1>4 DEF CheckLock, Goto
  <2>2. Request(c)'
      BY <1>1, <1>2, <2>1 DEF IInv, TypeOK, Request, Holding, tables
  <2> QED BY <1>1, <1>4, <2>1, <2>2, GotoKeeps DEF Places
<1> QED BY <1>3, <1>4

(* Each verification of a client while an account is locked is its only one. *)
LEMMA VerifyKeeps ==
    ASSUME IInv, NEW c \in Clients, Verify(c)
    PROVE  IInv'
<1>1. PICK u \in row[c] :
        /\ Goto(c, "verify",
                IF verify_password(req[c].body.password, u.password_hash) THEN "clear" ELSE "count")
        /\ verified' = [verified EXCEPT ![u][c] = @ + 1]
    BY DEF Verify
<1>2. UNCHANGED <<now, tables, todo, req, told, faults, row, answers>>
    BY DEF Verify, Reads
<1>3. /\ u \in users /\ pc[c] = "verify" /\ req[c].op = "login" /\ req[c] \in Requests
      /\ \A v \in row[c] : v \in users /\ v.email = req[c].body.email
    BY <1>1 DEF Goto, At, IInv, Request, Holding
<1>4. row[c] = {u}
    BY <1>1, <1>3 DEF IInv, AccountIsItsCreators
<1>5. verified \in [users -> [Clients -> Nat]] /\ pc \in [Clients -> Places]
    BY DEF IInv, TypeOK
<1>6. /\ verified' \in [users -> [Clients -> Nat]]
      /\ verified'[u][c] = verified[u][c] + 1
      /\ \A v \in users, d \in Clients : v # u \/ d # c => verified'[v][d] = verified[v][d]
    BY <1>1, <1>3, <1>5
<1>7. /\ pc' \in [Clients -> Places] /\ pc'[c] \in {"clear", "count"}
      /\ \A d \in Clients \ {c} : pc'[d] = pc[d]
      /\ pc'[c] = "clear" => verify_password(req[c].body.password, u.password_hash)
    BY <1>1, <1>5 DEF Goto, Places
<1>8. TypeOK'
    BY <1>2, <1>6, <1>7 DEF IInv, TypeOK, tables
<1>9. FreshIds' /\ LockIsPast' /\ CountsEveryFailure' /\ LockFollowsCount'
    BY <1>2 DEF IInv, FreshIds, LockIsPast, CountsEveryFailure, LockFollowsCount, FailureCount, tables
<1>10. \A d \in Clients : Request(d)'
  <2>1. Request(c)'
      BY <1>2, <1>3, <1>4, <1>7 DEF IInv, Request, Holding, tables
  <2>2. OthersStand(c)
      BY <1>2, <1>7 DEF OthersStand
  <2> QED BY <1>2, <2>1, <2>2, OthersRequest DEF tables
<1>11. AccountIsItsCreators'
  <2>1. AllGranted(answers', users')
      BY <1>2, GrantedKeeps DEF tables
  <2> QED BY <1>2, <2>1, AccountKeeps DEF tables
<1>12. LockHolds'
  <2> SUFFICES ASSUME NEW v \in users, IsLocked(v), NEW d \in Clients
               PROVE  /\ verified'[v][d] <= 1
                      /\ pc'[d] = "verify" /\ v \in row'[d] => verified'[v][d] = 0
      BY <1>2 DEF LockHolds, IsLocked, tables
  <2>1. /\ verified[v][d] <= 1
        /\ pc[d] = "verify" /\ v \in row[d] => verified[v][d] = 0
      BY DEF IInv, LockHolds
  <2>2. CASE d # c
      BY <1>2, <1>6, <1>7, <2>1, <2>2
  <2>3. CASE d = c /\ v # u
      BY <1>6, <1>7, <2>1, <2>3
  <2>4. CASE d = c /\ v = u
      BY <1>1, <1>3, <1>6, <1>7, <2>1, <2>4
  <2> QED BY <2>2, <2>3, <2>4
<1> QED BY <1>8, <1>9, <1>10, <1>11, <1>12 DEF IInv

(* What a login that has verified its password has: one account, the client's *)
LEMMA Mine ==
    ASSUME IInv, NEW c \in Clients, NEW u \in row[c], pc[c] \in Holding
    PROVE  /\ u \in users /\ row[c] = {u} /\ req[c] \in Requests /\ req[c].op = "login"
           /\ u.email = req[c].body.email /\ u.id \in Nat
<1>1. /\ req[c] \in Requests /\ req[c].op = "login"
      /\ \A v \in row[c] : v \in users /\ v.email = req[c].body.email
    BY DEF IInv, Request, Holding
<1>2. \A v, w \in users : v.email = w.email => v = w
    BY DEF IInv, AccountIsItsCreators
<1> QED BY <1>1, <1>2 DEF IInv, TypeOK

(* An attempts row is the row of one user only. *)
LEMMA OneRow ==
    ASSUME IInv, NEW u \in users, NEW v \in users, u.id = v.id
    PROVE  u = v
BY DEF IInv, FreshIds

LEMMA FailedType ==
    ASSUME IInv, NEW u \in users
    PROVE  /\ FailureCount(u) \in Nat
           /\ Failed(u, FailureCount(u)).failed_count = FailureCount(u) + 1
           /\ Failed(u, FailureCount(u)).last_failed_at = now
           /\ Failed(u, FailureCount(u)).locked_until =
                IF FailureCount(u) + 1 >= Limit THEN now + LockTime ELSE Never
<1>1. FailureCount(u) \in Nat
    BY DEF IInv, TypeOK, FailureCount
<1>2. CASE u.id \in DOMAIN attempts
  <2>1. FailureCount(u) = attempts[u.id].failed_count /\ FailureCount(u) # 0
      BY <1>2 DEF FailureCount, IInv, TypeOK
  <2>2. attempts[u.id].locked_until = IF FailureCount(u) >= Limit
              THEN attempts[u.id].last_failed_at + LockTime ELSE Never
      BY <1>2, <2>1 DEF IInv, LockFollowsCount
  <2> QED BY <1>1, <1>2, <2>1, <2>2, LimitAssumption DEF Failed, Attempt
<1>3. CASE u.id \notin DOMAIN attempts
  <2>1. FailureCount(u) = 0
      BY <1>3 DEF FailureCount
  <2> QED BY <1>3, <2>1, LimitAssumption DEF Failed, Attempt
<1> QED BY <1>2, <1>3

LEMMA CountKeeps ==
    ASSUME IInv, NEW c \in Clients, CountFailure(c)
    PROVE  IInv'
<1>1. PICK u \in row[c] : Count(c, u, Failed(u, FailureCount(u)))
    BY DEF CountFailure
<1> DEFINE a == Failed(u, FailureCount(u))
<1>2. pc[c] = "count"
    BY DEF CountFailure, At
<1>3. /\ u \in users /\ row[c] = {u} /\ req[c] \in Requests /\ req[c].op = "login"
      /\ u.id \in Nat
    BY <1>2, Mine DEF Holding
<1>4. /\ a.failed_count = FailureCount(u) + 1 /\ a.last_failed_at = now
      /\ a.locked_until = IF FailureCount(u) + 1 >= Limit THEN now + LockTime ELSE Never
      /\ FailureCount(u) \in Nat
    BY <1>3, FailedType
<1>5. a \in [failed_count : Nat \ {0}, last_failed_at : Nat, locked_until : Nat]
  <2>1. a = [failed_count |-> a.failed_count, last_failed_at |-> a.last_failed_at,
             locked_until |-> a.locked_until]
      BY DEF Failed, Attempt
  <2>2. now + LockTime \in Nat /\ now \in Nat /\ Never \in Nat
      BY LockTimeAssumption DEF IInv, TypeOK, Never
  <2> HIDE DEF a
  <2> QED BY <1>4, <2>1, <2>2
<1>6. /\ attempts' = With(attempts, u.id, a)
      /\ verified' = IF a.locked_until > now /\ ~IsLocked(u)
                       THEN [verified EXCEPT ![u] = NoneVerified] ELSE verified
      /\ UNCHANGED <<now, users, sessions, ids, todo, req, row>>
    BY <1>1 DEF Count
<1>7. \E r \in Answers : Answer(c, r) /\ r.status \notin {200, 201}
    BY <1>1, LostAnswer, AnswerTypes DEF Count
<1>8. /\ told' = [told EXCEPT ![u] = @ + 1] \/ told' = told
      /\ faults' \in Nat
    BY <1>1 DEF Count, AnswerLost, IInv, TypeOK
<1> HIDE DEF a
<1>9. /\ DOMAIN attempts' = DOMAIN attempts \cup {u.id} /\ attempts'[u.id] = a
      /\ \A id \in DOMAIN attempts : id # u.id => attempts'[id] = attempts[id]
    BY <1>6 DEF With
<1>10. /\ pc' \in [Clients -> Places] /\ pc'[c] = "idle"
       /\ answers' \in [Clients -> Seq([request : Requests, answer : Answers])]
       /\ \A d \in Clients \ {c} : pc'[d] = pc[d]
  <2>1. PICK r \in Answers : Answer(c, r) /\ r.status \notin {200, 201}
      BY <1>7
  <2> QED BY <1>3, <2>1, FailureReplies, RepliesKeep
<1>11. verified' \in [users -> [Clients -> Nat]] /\ told' \in [users -> Nat]
  <2>1. verified \in [users -> [Clients -> Nat]] /\ told \in [users -> Nat]
      BY DEF IInv, TypeOK
  <2>2. NoneVerified \in [Clients -> Nat]
      BY DEF NoneVerified
  <2>3. verified' \in [users -> [Clients -> Nat]]
      BY <1>3, <1>6, <2>1, <2>2
  <2>4. told[u] + 1 \in Nat
      BY <1>3, <2>1
  <2>5. told' \in [users -> Nat]
      BY <1>3, <1>8, <2>1, <2>4
  <2> QED BY <2>3, <2>5
<1>12. TypeOK'
  <2>1. \A id \in DOMAIN attempts' :
          /\ attempts'[id] \in [failed_count : Nat \ {0}, last_failed_at : Nat, locked_until : Nat]
          /\ \E v \in users : v.id = id
      BY <1>3, <1>5, <1>9 DEF IInv, TypeOK
  <2> QED BY <1>6, <1>8, <1>10, <1>11, <2>1 DEF IInv, TypeOK
<1>13. FreshIds' /\ LockIsPast' /\ LockFollowsCount'
  <2>1. now \in Nat
      BY DEF IInv, TypeOK
  <2>2. FreshIds'
      BY <1>6 DEF IInv, FreshIds
  <2>3. LockIsPast' /\ LockFollowsCount'
      BY <1>4, <1>6, <1>9, <2>1 DEF IInv, LockIsPast, LockFollowsCount
  <2> QED BY <2>2, <2>3
<1>14. CountsEveryFailure'
  <2> SUFFICES ASSUME NEW v \in users PROVE told'[v] <= FailureCount(v)'
      BY <1>6 DEF CountsEveryFailure
  <2>1. told[v] <= FailureCount(v) /\ told[v] \in Nat
      BY DEF IInv, TypeOK, CountsEveryFailure
  <2>2. CASE v = u
    <3>1. FailureCount(u)' = FailureCount(u) + 1
        BY <1>4, <1>9 DEF FailureCount
    <3>2. told'[u] <= told[u] + 1
        BY <1>3, <1>8 DEF IInv, TypeOK
    <3>3. told'[u] \in Nat
        BY <1>3, <1>11
    <3> QED BY <1>4, <2>1, <2>2, <3>1, <3>2, <3>3
  <2>3. CASE v # u
    <3>1. v.id # u.id
        BY <1>3, <2>3, OneRow
    <3>2. FailureCount(v)' = FailureCount(v)
        BY <1>9, <3>1 DEF FailureCount
    <3>3. told'[v] = told[v]
        BY <1>8, <2>3 DEF IInv, TypeOK
    <3> QED BY <2>1, <3>2, <3>3
  <2> QED BY <2>2, <2>3
<1>15. (\A d \in Clients : Request(d)') /\ AccountIsItsCreators'
  <2>1. Request(c)' /\ OthersStand(c)
      BY <1>6, <1>10 DEF Request, OthersStand, Holding
  <2>2. AllGranted(answers', users')
      BY <1>3, <1>6, <1>7, FailureReplies, GrantedKeeps
  <2> QED BY <1>6, <2>1, <2>2, OthersRequest, AccountKeeps
<1>16. LockHolds'
  <2> SUFFICES ASSUME NEW v \in users, IsLocked(v)', NEW d \in Clients
               PROVE  /\ verified'[v][d] <= 1
                      /\ pc'[d] = "verify" /\ v \in row'[d] => verified'[v][d] = 0
      BY <1>6 DEF LockHolds
  <2>0. pc'[d] = "verify" => pc[d] = "verify"
      BY <1>10
  <2>1. CASE v = u /\ ~IsLocked(u)
    <3>1. a.locked_until > now
        BY <1>6, <1>9, <2>1 DEF IsLocked
    <3>2. verified'[u] = NoneVerified
        BY <1>3, <1>6, <2>1, <3>1 DEF IInv, TypeOK
    <3> QED BY <2>1, <3>2 DEF NoneVerified
  <2>2. CASE v # u \/ IsLocked(u)
    <3>1. IsLocked(v)
      <4>1. CASE v = u
          BY <2>2, <4>1
      <4>2. CASE v # u
        <5>1. v.id # u.id
            BY <1>3, <4>2, OneRow
        <5> QED BY <1>6, <1>9, <5>1 DEF IsLocked
      <4> QED BY <4>1, <4>2
    <3>2. verified'[v] = verified[v]
        BY <1>6, <2>2 DEF IInv, TypeOK
    <3> QED BY <1>6, <2>0, <3>1, <3>2 DEF IInv, LockHolds
  <2> QED BY <2>1, <2>2
<1> QED BY <1>12, <1>13, <1>14, <1>15, <1>16 DEF IInv
(* A success unlocks the account and forgets its failures, no other's. *)
LEMMA ClearKeeps ==
    ASSUME IInv, NEW c \in Clients, ClearFailures(c)
    PROVE  IInv'
<1>1. PICK u \in row[c] :
        /\ attempts' = [id \in DOMAIN attempts \ {u.id} |-> attempts[id]]
        /\ told' = [told EXCEPT ![u] = 0]
    BY DEF ClearFailures
<1>2. /\ pc[c] = "clear"
      /\ UNCHANGED <<now, users, sessions, ids, todo, req, row, verified>>
    BY DEF ClearFailures, At
<1>3. /\ u \in users /\ row[c] = {u} /\ req[c] \in Requests /\ req[c].op = "login"
      /\ u.email = req[c].body.email
    BY <1>2, Mine DEF Holding
<1>4. verify_password(req[c].body.password, u.password_hash)
    BY <1>1, <1>2 DEF IInv, Request
<1>5. \/ pc' = [pc EXCEPT ![c] = "issue"] /\ UNCHANGED <<answers, faults>>
      \/ AnswerLost(c)
    BY DEF ClearFailures, Goto
<1>6. faults' \in Nat /\ told' \in [users -> Nat]
    BY <1>1, <1>3, <1>5 DEF AnswerLost, IInv, TypeOK
<1>7. answers' = answers \/ Replies(c)
    BY <1>3, <1>5, LostReplies
<1>8. /\ pc' \in [Clients -> Places] /\ pc'[c] \in {"idle", "issue"}
      /\ answers' \in [Clients -> Seq([request : Requests, answer : Answers])]
      /\ \A d \in Clients \ {c} : pc'[d] = pc[d]
  <2>1. CASE AnswerLost(c)
      BY <1>3, <2>1, LostReplies, RepliesKeep
  <2>2. CASE pc' = [pc EXCEPT ![c] = "issue"] /\ UNCHANGED <<answers, faults>>
      BY <2>2 DEF IInv, TypeOK, Places
  <2> QED BY <1>5, <2>1, <2>2
<1>9. /\ DOMAIN attempts' = DOMAIN attempts \ {u.id}
      /\ \A id \in DOMAIN attempts' : attempts'[id] = attempts[id]
    BY <1>1
<1>10. TypeOK'
    BY <1>2, <1>6, <1>8, <1>9 DEF IInv, TypeOK
<1>11. FreshIds' /\ LockIsPast' /\ LockFollowsCount'
    BY <1>2, <1>9 DEF IInv, FreshIds, LockIsPast, LockFollowsCount
<1>12. \A v \in users : v # u =>
         FailureCount(v)' = FailureCount(v) /\ (IsLocked(v)' => IsLocked(v))
  <2> SUFFICES ASSUME NEW v \in users, v # u
               PROVE  FailureCount(v)' = FailureCount(v) /\ (IsLocked(v)' => IsLocked(v))
      OBVIOUS
  <2>1. v.id # u.id
      BY <1>3, OneRow
  <2> QED BY <1>2, <1>9, <2>1 DEF FailureCount, IsLocked
<1>13. ~IsLocked(u)' /\ FailureCount(u)' \in Nat /\ told'[u] = 0
    BY <1>1, <1>3, <1>9 DEF IsLocked, FailureCount, IInv, TypeOK
<1>14. CountsEveryFailure'
  <2> SUFFICES ASSUME NEW v \in users PROVE told'[v] <= FailureCount(v)'
      BY <1>2 DEF CountsEveryFailure
  <2>1. CASE v = u
    <3>1. FailureCount(u)' = 0
        BY <1>9 DEF FailureCount
    <3> QED BY <1>13, <2>1, <3>1
  <2>2. CASE v # u
    <3>1. told'[v] = told[v] /\ told[v] <= FailureCount(v)
        BY <1>1, <2>2 DEF IInv, TypeOK, CountsEveryFailure
    <3> QED BY <1>12, <2>2, <3>1
  <2> QED BY <2>1, <2>2
<1>15. (\A d \in Clients : Request(d)') /\ AccountIsItsCreators'
  <2>1. OthersStand(c)
      BY <1>2, <1>8 DEF OthersStand
  <2>2. Request(c)'
      BY <1>2, <1>3, <1>4, <1>8 DEF Request, Holding
  <2>3. AllGranted(answers', users')
      BY <1>2, <1>7, GrantedKeeps
  <2> QED BY <1>2, <2>1, <2>2, <2>3, OthersRequest, AccountKeeps
<1>16. LockHolds'
  <2> SUFFICES ASSUME NEW v \in users, IsLocked(v)', NEW d \in Clients
               PROVE  /\ verified'[v][d] <= 1
                      /\ pc'[d] = "verify" /\ v \in row'[d] => verified'[v][d] = 0
      BY <1>2 DEF LockHolds
  <2>1. IsLocked(v)
      BY <1>12, <1>13
  <2>2. pc'[d] = "verify" => pc[d] = "verify"
      BY <1>8
  <2> QED BY <1>2, <2>1, <2>2 DEF IInv, LockHolds
<1> QED BY <1>10, <1>11, <1>14, <1>15, <1>16 DEF IInv

(* The password was verified: tokens go to the account's creator only. *)
LEMMA IssueKeeps ==
    ASSUME IInv, NEW c \in Clients, IssueTokens(c)
    PROVE  IInv'
<1>1. /\ pc[c] = "issue" /\ ids' = ids + 1
      /\ sessions' = sessions \cup {[jti |-> ids + 1, user |-> u.id] : u \in row[c]}
      /\ UNCHANGED <<now, users, attempts, todo, req, row, told, verified>>
    BY DEF IssueTokens, At
<1>2. PICK u \in row[c] : u \in users
    BY <1>1 DEF IInv, Request, Holding
<1>3. /\ row[c] = {u} /\ req[c] \in Requests /\ req[c].op = "login"
      /\ u.email = req[c].body.email
    BY <1>1, Mine DEF Holding
<1>4. verify_password(req[c].body.password, u.password_hash)
    BY <1>1, <1>2 DEF IInv, Request
<1>5. ids \in Nat /\ ids + 1 \in Nat /\ ids + 1 >= ids /\ now >= now
    BY Numbers
<1>6. Replies(c) /\ faults' \in Nat
  <2>1. CASE Answer(c, Success(200, {[jti |-> ids + 1]})) /\ UNCHANGED faults
    <3>1. Success(200, {[jti |-> ids + 1]}) \in Answers
        BY <1>5, SuccessTypes
    <3>2. GrantedIn([request |-> req[c], answer |-> Success(200, {[jti |-> ids + 1]})], users')
        BY <1>1, <1>2, <1>3, <1>4 DEF GrantedIn
    <3> QED BY <1>3, <2>1, <3>1, <3>2 DEF Replies, IInv, TypeOK
  <2>2. CASE AnswerLost(c)
    <3>1. faults' \in Nat
        BY <2>2 DEF AnswerLost, IInv, TypeOK
    <3> QED BY <1>3, <2>2, <3>1, LostReplies
  <2> QED BY <2>1, <2>2 DEF IssueTokens
<1>7. /\ pc' \in [Clients -> Places] /\ pc'[c] = "idle"
      /\ answers' \in [Clients -> Seq([request : Requests, answer : Answers])]
      /\ \A d \in Clients \ {c} : pc'[d] = pc[d]
    BY <1>6, RepliesKeep
<1>8. \A s \in sessions' : \E v \in users : v.id = s.user
    BY <1>1, <1>2, <1>3 DEF IInv, TypeOK
<1>9. TypeOK'
    BY <1>1, <1>5, <1>6, <1>7, <1>8 DEF IInv, TypeOK
<1>10. Request(c)' /\ OthersStand(c)
    BY <1>1, <1>3, <1>7 DEF Request, OthersStand, Holding
<1>11. AllGranted(answers', users')
    BY <1>1, <1>6, GrantedKeeps
<1> QED BY <1>1, <1>5, <1>7, <1>9, <1>10, <1>11, QuietKeeps

LEMMA ExchangeKeeps ==
    ASSUME IInv, NEW c \in Clients, Exchange(c)
    PROVE  IInv'
<1> DEFINE old == {s \in sessions : s.jti = req[c].body.jti}
<1>1. /\ pc[c] = "exchange"
      /\ UNCHANGED <<now, users, attempts, todo, req, row, told, verified>>
    BY DEF Exchange, At
<1>2. req[c] \in Requests /\ req[c].op = "refresh"
    BY <1>1 DEF IInv, Request
<1>3. ids \in Nat /\ ids + 1 \in Nat /\ now >= now
    BY Numbers
<1>4. \/ /\ Answer(c, AuthError.InvalidToken)
         /\ UNCHANGED <<sessions, ids, faults>>
      \/ /\ sessions' = (sessions \ old) \cup {[jti |-> ids + 1, user |-> s.user] : s \in old}
         /\ ids' = ids + 1
         /\ \/ Answer(c, Success(200, {[jti |-> ids + 1]})) /\ UNCHANGED faults
            \/ AnswerLost(c)
    BY DEF Exchange
<1>5. Replies(c) /\ faults' \in Nat
  <2>1. CASE Answer(c, AuthError.InvalidToken) /\ UNCHANGED <<sessions, ids, faults>>
    <3>1. Replies(c)
        BY <1>2, <2>1, AnswerTypes, FailureReplies
    <3> QED BY <2>1, <3>1 DEF IInv, TypeOK
  <2>2. CASE Answer(c, Success(200, {[jti |-> ids + 1]})) /\ UNCHANGED faults
    <3>1. Success(200, {[jti |-> ids + 1]}) \in Answers
        BY <1>3, SuccessTypes
    <3>2. GrantedIn([request |-> req[c], answer |-> Success(200, {[jti |-> ids + 1]})], users')
        BY <1>2 DEF GrantedIn
    <3> QED BY <1>2, <2>2, <3>1, <3>2 DEF Replies, IInv, TypeOK
  <2>3. CASE AnswerLost(c)
    <3>1. faults' \in Nat
        BY <2>3 DEF AnswerLost, IInv, TypeOK
    <3> QED BY <1>2, <2>3, <3>1, LostReplies
  <2> QED BY <1>4, <2>1, <2>2, <2>3
<1>6. /\ pc' \in [Clients -> Places] /\ pc'[c] = "idle"
      /\ answers' \in [Clients -> Seq([request : Requests, answer : Answers])]
      /\ \A d \in Clients \ {c} : pc'[d] = pc[d]
    BY <1>5, RepliesKeep
<1>7. (\A s \in sessions' : \E v \in users : v.id = s.user) /\ ids' \in Nat /\ ids' >= ids
  <2>1. \A s \in sessions : \E v \in users : v.id = s.user
      BY DEF IInv, TypeOK
  <2>2. \A s \in sessions' : \E r \in sessions : s.user = r.user
      BY <1>4
  <2>3. ids' \in {ids, ids + 1}
      BY <1>4
  <2> QED BY <1>3, <2>1, <2>2, <2>3
<1>8. TypeOK'
    BY <1>1, <1>5, <1>6, <1>7 DEF IInv, TypeOK
<1>9. Request(c)' /\ OthersStand(c)
    BY <1>1, <1>6 DEF Request, OthersStand, Holding
<1>10. AllGranted(answers', users')
    BY <1>1, <1>5, GrantedKeeps
<1> QED BY <1>1, <1>3, <1>6, <1>7, <1>8, <1>9, <1>10, QuietKeeps

(* A registration adds a user of its own, or finds its email taken. *)
LEMMA InsertKeeps ==
    ASSUME IInv, NEW c \in Clients, InsertUser(c)
    PROVE  IInv'
<1>1. /\ pc[c] = "insert_user" /\ req[c] \in Requests /\ req[c].op = "register"
      /\ is_valid_email(req[c].body.email) /\ req[c].body.password.len >= MinPassword
    BY DEF InsertUser, At, IInv, Request
<1>2. UNCHANGED <<now, attempts, sessions, todo, req, row>>
    BY DEF InsertUser
<1>3. CASE Answer(c, AuthError.EmailTaken) /\ UNCHANGED <<users, ids, told, verified, faults>>
  <2>1. row'[c] \subseteq users /\ row' = [row EXCEPT ![c] = row'[c]] /\ faults' \in Nat
      BY <1>2, <1>3 DEF IInv, TypeOK
  <2> QED BY <1>1, <1>2, <1>3, <2>1, AnswerTypes, EndKeeps DEF tables
<1>4. CASE (\A u \in users : u.email # req[c].body.email) /\ Insert(c, users)
  <2> DEFINE u == User(c)
  <2>1. /\ u.id = ids + 1 /\ u.email = req[c].body.email
        /\ u.password_hash = hash_password(req[c].body.password, ids + 1)
      BY DEF User
  <2>2. /\ u.password_hash.hashed = req[c].body.password
        /\ verify_password(req[c].body.password, u.password_hash)
      BY <2>1 DEF hash_password, verify_password
  <2>3. /\ users' = users \cup {u} /\ ids' = ids + 1
        /\ told' = With(told, u, 0) /\ verified' = With(verified, u, NoneVerified)
      BY <1>4 DEF Insert
  <2>4. \/ Answer(c, Success(201, {})) /\ UNCHANGED faults
        \/ AnswerLost(c)
      BY <1>4 DEF Insert
  <2> HIDE DEF u
  <2>5. u \notin users /\ \A v \in users : v.email # u.email
      BY <1>4, <2>1
  <2>6. Replies(c) /\ faults' \in Nat
    <3>1. CASE Answer(c, Success(201, {})) /\ UNCHANGED faults
      <4>1. GrantedIn([request |-> req[c], answer |-> Success(201, {})], users')
          BY <2>1, <2>2, <2>3 DEF GrantedIn
      <4>2. faults \in Nat
          BY DEF IInv, TypeOK
      <4> QED BY <1>1, <3>1, <4>1, <4>2, SuccessTypes DEF Replies
    <3>2. CASE AnswerLost(c)
      <4>1. faults' \in Nat
          BY <3>2 DEF AnswerLost, IInv, TypeOK
      <4> QED BY <1>1, <3>2, <4>1, LostReplies
    <3> QED BY <2>4, <3>1, <3>2
  <2>7. /\ pc' \in [Clients -> Places] /\ pc'[c] = "idle"
        /\ answers' \in [Clients -> Seq([request : Requests, answer : Answers])]
        /\ \A d \in Clients \ {c} : pc'[d] = pc[d]
      BY <2>6, RepliesKeep
  <2>8. /\ DOMAIN told' = users' /\ told'[u] = 0 /\ DOMAIN verified' = users'
        /\ verified'[u] = NoneVerified
        /\ \A v \in users : told'[v] = told[v] /\ verified'[v] = verified[v]
      BY <2>3, <2>5 DEF With, IInv, TypeOK
  <2>9. told' \in [users' -> Nat] /\ verified' \in [users' -> [Clients -> Nat]]
    <3>1. told' = [v \in users' |-> told'[v]] /\ verified' = [v \in users' |-> verified'[v]]
        BY <2>3, <2>8 DEF With
    <3>2. NoneVerified \in [Clients -> Nat]
        BY DEF NoneVerified
    <3>3. \A v \in users' : told'[v] \in Nat /\ verified'[v] \in [Clients -> Nat]
        BY <2>3, <2>8, <3>2 DEF IInv, TypeOK
    <3> QED BY <3>1, <3>3
  <2>10. TypeOK'
    <3>1. ids + 1 \in Nat
        BY Numbers
    <3>2. \A v \in users' : /\ v.id \in Nat /\ is_valid_email(v.email)
                            /\ v.password_hash.hashed.len >= MinPassword
      <4> HIDE DEF is_valid_email, MinPassword
      <4> QED BY <1>1, <2>1, <2>2, <2>3, <3>1 DEF IInv, TypeOK
    <3>3. /\ now' \in Nat \ {0} /\ ids' \in Nat
          /\ \A id \in DOMAIN attempts' :
               /\ attempts'[id] \in [failed_count : Nat \ {0}, last_failed_at : Nat, locked_until : Nat]
               /\ \E v \in users' : v.id = id
          /\ \A s \in sessions' : \E v \in users' : v.id = s.user
        BY <1>2, <2>3, <3>1 DEF IInv, TypeOK
    <3>4. todo' \in [Clients -> Seq(Requests)] /\ req' \in [Clients -> Requests \cup {NoRequest}]
          /\ row' \in [Clients -> SUBSET users']
        BY <1>2, <2>3 DEF IInv, TypeOK
    <3> QED BY <2>6, <2>7, <2>9, <3>2, <3>3, <3>4 DEF TypeOK, is_valid_email, MinPassword
  <2>11. FreshIds'
    <3>1. ids \in Nat /\ \A v \in users : v.id \in Nat /\ v.id <= ids
        BY DEF IInv, TypeOK, FreshIds
    <3> QED BY <2>1, <2>3, <3>1 DEF IInv, FreshIds
  <2>12. LockIsPast' /\ LockFollowsCount'
      BY <1>2 DEF IInv, LockIsPast, LockFollowsCount
  <2>13. \A d \in Clients : Request(d)'
    <3>1. Request(c)' /\ OthersStand(c)
        BY <1>2, <2>7 DEF Request, OthersStand, Holding
    <3> QED BY <2>3, <3>1, OthersRequest
  <2>14. AccountIsItsCreators'
    <3>1. AllGranted(answers', users')
        BY <2>3, <2>6, GrantedKeeps
    <3>2. \A v, w \in users' : v.email = w.email => v = w
        BY <2>3, <2>5 DEF IInv, AccountIsItsCreators
    <3> QED BY <3>1, <3>2 DEF AccountIsItsCreators, AllGranted, GrantedIn, Granted, Owned
  <2>15. CountsEveryFailure'
    <3>1. ASSUME NEW v \in users' PROVE FailureCount(v)' = FailureCount(v) /\ FailureCount(v) \in Nat
        BY <1>2 DEF FailureCount, IInv, TypeOK
    <3> QED BY <2>3, <2>8, <3>1 DEF CountsEveryFailure, IInv
  <2>16. LockHolds'
    <3>1. \A v \in users' : IsLocked(v)' => IsLocked(v)
        BY <1>2 DEF IsLocked
    <3>2. \A d \in Clients : pc'[d] = "verify" => pc[d] = "verify"
        BY <2>7
    <3> QED BY <1>2, <2>3, <2>8, <3>1, <3>2 DEF IInv, LockHolds, NoneVerified
  <2> QED BY <2>10, <2>11, <2>12, <2>13, <2>14, <2>15, <2>16 DEF IInv
<1> QED BY <1>3, <1>4 DEF InsertUser

LEMMA NextIInv == IInv /\ [Next]_vars => IInv'
<1> SUFFICES ASSUME IInv, [Next]_vars PROVE IInv'
    OBVIOUS
<1>1. CASE UNCHANGED vars
  <2>1. UNCHANGED <<now, tables, todo, pc, req, row, answers, told, verified, faults>>
      BY <1>1 DEF vars
  <2>2. TypeOK'
      BY <2>1 DEF tables, IInv, TypeOK
  <2>3. FreshIds' /\ LockIsPast'
      BY <2>1 DEF tables, IInv, FreshIds, LockIsPast
  <2>4. \A d \in Clients : Request(d)'
      BY <2>1 DEF tables, IInv, Request
  <2>5. AccountIsItsCreators' /\ CountsEveryFailure' /\ LockFollowsCount'
      BY <2>1 DEF tables, IInv, AccountIsItsCreators, Granted, Owned, CountsEveryFailure,
                  FailureCount, LockFollowsCount
  <2>6. LockHolds'
      BY <2>1 DEF tables, IInv, LockHolds, IsLocked
  <2> QED BY <2>2, <2>3, <2>4, <2>5, <2>6 DEF IInv
<1>2. CASE Next
  <2>1. PICK c \in Clients : Wait(c) \/ Receive(c) \/ Handle(c) \/ Fails(c)
      BY <1>2 DEF Next
  <2> QED BY <2>1, WaitKeeps, ReceiveKeeps, FailsKeeps, InsertKeeps, SelectKeeps, CheckLockKeeps,
             VerifyKeeps, CountKeeps, ClearKeeps, IssueKeeps, ExchangeKeeps DEF Handle
<1> QED BY <1>1, <1>2

LEMMA AlwaysIInv == Spec => []IInv
BY InitIInv, NextIInv, PTL DEF Spec

-----------------------------------------------------------------------------
(* Every row, place and answer of register, login and refresh has its      *)
(* type; attempts and sessions are of users that there are.                *)
THEOREM TypeCorrect == Spec => []TypeOK
<1>1. IInv => TypeOK
    BY DEF IInv
<1> QED BY <1>1, AlwaysIInv, PTL

(* An email is registered once, by whatever requests race for it, and      *)
(* every login answered 200 gave the password it was registered with.      *)
THEOREM AccountsAreTheirCreators == Spec => []AccountIsItsCreators
<1>1. IInv => AccountIsItsCreators
    BY DEF IInv
<1> QED BY <1>1, AlwaysIInv, PTL

(* Concurrent failures of any number of clients are all counted: the       *)
(* upsert adds to the stored count, never to one read before.              *)
THEOREM EveryFailureIsCounted == Spec => []CountsEveryFailure
<1>1. IInv => CountsEveryFailure
    BY DEF IInv
<1> QED BY <1>1, AlwaysIInv, PTL

(* The lock an attempts row holds is the one its count and its last        *)
(* failure give, for any limit above one.                                  *)
THEOREM LocksFollowCounts == Spec => []LockFollowsCount
<1>1. IInv => LockFollowsCount
    BY DEF IInv
<1> QED BY <1>1, AlwaysIInv, PTL

(* A locked account costs each client at most the one verification it was  *)
(* in when the lock was set, for any number of clients.                    *)
THEOREM LockStopsVerifying == Spec => []VerifiedWhileLocked
<1>1. IInv => VerifiedWhileLocked
    BY DEF IInv, LockHolds, VerifiedWhileLocked
<1> QED BY <1>1, AlwaysIInv, PTL

(* A failure that is counted while the account is locked is at least the    *)
(* limit's next, so that the lock is set anew and ends no sooner.           *)
LEMMA CountKeepsLocks ==
    ASSUME IInv, NEW c \in Clients, CountFailure(c), NEW u \in users, IsLocked(u)
    PROVE  u.id \in DOMAIN attempts' /\ attempts'[u.id].locked_until >= attempts[u.id].locked_until
<1>1. PICK v \in row[c] : attempts' = With(attempts, v.id, Failed(v, FailureCount(v)))
    BY DEF CountFailure, Count
<1> DEFINE a == attempts[u.id]
           next == Failed(v, FailureCount(v))
<1>2. u.id \in DOMAIN attempts /\ now \in Nat /\ LockTime \in Nat /\ Limit \in Nat
      /\ a.failed_count \in Nat \ {0} /\ a.last_failed_at \in Nat /\ a.locked_until \in Nat
    BY LimitAssumption, LockTimeAssumption DEF IInv, TypeOK, IsLocked
<1>3. a.locked_until = a.last_failed_at + LockTime /\ a.failed_count >= Limit
      /\ a.last_failed_at <= now
    BY <1>2 DEF IInv, LockFollowsCount, LockIsPast, IsLocked, Never
<1>4. u.id = v.id => next.locked_until = now + LockTime
    BY <1>2, <1>3 DEF Failed, FailureCount, Attempt
<1>5. attempts' = [w \in DOMAIN attempts \cup {v.id} |-> IF w = v.id THEN next ELSE attempts[w]]
    BY <1>1 DEF With
<1> HIDE DEF next
<1>6. u.id \in DOMAIN attempts' /\ attempts'[u.id] = IF u.id = v.id THEN next ELSE a
    BY <1>2, <1>5
<1>7. a.locked_until <= now + LockTime
    BY <1>2, <1>3
<1> QED BY <1>2, <1>4, <1>6, <1>7

(* ClearFailures is of a login that gave its user's password. *)
LEMMA ClearGavePassword ==
    ASSUME IInv, NEW c \in Clients, ClearFailures(c), NEW u \in users, IsLocked(u),
           u.id \notin DOMAIN attempts' \/ attempts'[u.id] # attempts[u.id]
    PROVE  /\ pc'[c] # pc[c]
           /\ req[c].op = "login" /\ req[c].body.email = u.email
           /\ verify_password(req[c].body.password, u.password_hash)
<1>1. PICK v \in row[c] : attempts' = [w \in DOMAIN attempts \ {v.id} |-> attempts[w]]
    BY DEF ClearFailures
<1>2. /\ pc[c] = "clear" /\ v \in users /\ v.email = req[c].body.email /\ req[c].op = "login"
      /\ verify_password(req[c].body.password, v.password_hash)
    BY <1>1 DEF ClearFailures, At, IInv, Request, Holding
<1>3. u.id = v.id
    BY <1>1 DEF IsLocked
<1>4. u = v
    BY <1>2, <1>3 DEF IInv, FreshIds
<1>5. pc'[c] # pc[c]
    BY <1>2 DEF ClearFailures, Goto, AnswerLost, Answer, IInv, TypeOK
<1> QED BY <1>2, <1>4, <1>5

(* A lock stands until its time or a login with the account's password,    *)
(* whatever failures of others are counted meanwhile.                      *)
THEOREM LocksNeedThePassword == Spec => OnlyThePasswordUnlocks
<1> DEFINE Kept(u) ==
             \/ /\ u.id \in DOMAIN attempts'
                /\ attempts'[u.id].locked_until >= attempts[u.id].locked_until
             \/ \E c \in Clients :
                  /\ pc'[c] # pc[c]
                  /\ req[c].op = "login" /\ req[c].body.email = u.email
                  /\ verify_password(req[c].body.password, u.password_hash)
           AllKept == \A u \in users : IsLocked(u) => Kept(u)
<1>1. ASSUME IInv, attempts' = attempts PROVE AllKept
    BY <1>1 DEF IsLocked, IInv, TypeOK
<1>2. ASSUME IInv, NEW c \in Clients, CountFailure(c) PROVE AllKept
    BY <1>2, CountKeepsLocks
<1>3. ASSUME IInv, NEW c \in Clients, ClearFailures(c) PROVE AllKept
  <2> SUFFICES ASSUME NEW u \in users, IsLocked(u) PROVE Kept(u)
      OBVIOUS
  <2>1. CASE u.id \in DOMAIN attempts' /\ attempts'[u.id] = attempts[u.id]
    <3>1. attempts[u.id].locked_until \in Nat
        BY <1>3 DEF IsLocked, IInv, TypeOK
    <3> QED BY <2>1, <3>1
  <2>2. CASE u.id \notin DOMAIN attempts' \/ attempts'[u.id] # attempts[u.id]
      BY <1>3, <2>2, ClearGavePassword
  <2> QED BY <2>1, <2>2
<1>4. ASSUME IInv, Next PROVE AllKept
  <2>1. \/ attempts' = attempts
        \/ \E c \in Clients : CountFailure(c) \/ ClearFailures(c)
      BY <1>4 DEF Next, Handle, Wait, Receive, InsertUser, SelectUser, CheckLock, Verify,
          IssueTokens, Exchange, Fails, Reads, tables
  <2> QED BY <1>1, <1>2, <1>3, <1>4, <2>1
<1>5. IInv /\ [Next]_vars => [AllKept]_vars
    BY <1>4
<1> QED BY <1>5, AlwaysIInv, PTL DEF Spec, OnlyThePasswordUnlocks
=============================================================================
