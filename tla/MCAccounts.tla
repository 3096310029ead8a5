----------------------------- MODULE MCAccounts -----------------------------
(* The instance of Accounts that TLC checks: every test of auth/mod.rs,     *)
(* sent by one client without faults, and races of the clients around the   *)
(* tenth failure, around the end of a lock and for one email, where a       *)
(* statement fails or an answer is lost.                                    *)
EXTENDS AccountTests

VARIABLE test    \* the test run, or NoTest

NoTest == Test(<< >>, << >>, Uncounted)

Tester == CHOOSE c \in Clients : TRUE

Account == [id |-> 1, email |-> Email, password_hash |-> hash_password(Right, 1)]

(* The account after so many failures, all now, which is 1 *)
FailedTimes(n) ==
    [users |-> {Account},
     attempts |-> [u \in {1} |->
        [failed_count |-> n, last_failed_at |-> 1,
         locked_until |-> IF n >= Limit THEN 1 + LockTime ELSE Never]]]

Logins == {<<Login(Wrong), Login(Wrong)>>, <<Login(Wrong), Login(Right)>>}
Waits == {<<WaitFor(LockTime), Login(Wrong)>>, <<Login(Wrong), WaitFor(5), Login(Wrong)>>}
Registrations == {<<Register(Email, p), Login(p)>> : p \in {Right, Wrong}}

(* One client, always the same, waits: the others are alike. *)
Races ==
    {[world |-> w, scripts |-> s, faults |-> 1] :
        w \in {FailedTimes(Limit - 2), FailedTimes(Limit)},
        s \in {t \in [Clients -> Logins \cup Waits] :
                 \A c \in Clients : t[c] \in IF c = Tester THEN Waits ELSE Logins}}
    \cup {[world |-> Nobody, scripts |-> s, faults |-> 1] : s \in [Clients -> Registrations]}

(* The scenario of a test *)
Alone(t) ==
    [world |-> Nobody, faults |-> 0,
     scripts |-> [c \in Clients |-> IF c = Tester THEN t.asked ELSE << >>]]

MCScenarios == Races \cup {Alone(t) : t \in Tests}

MCInit ==
    \/ test = NoTest /\ \E s \in Races : InitWith(s.world, s.scripts, s.faults)
    \/ test \in Tests /\ InitWith(Nobody, Alone(test).scripts, 0)

MCNext == Next /\ UNCHANGED test

MCSpec == MCInit /\ [][MCNext]_<<vars, test>>

Counted ==
    [failures |-> LET a == {u \in users : u.email = Email}
                  IN  IF a = {} THEN 0 ELSE FailureCount(CHOOSE u \in a : TRUE),
     attempts |-> Cardinality(DOMAIN attempts),
     sessions |-> Cardinality(sessions)]

(* The model answers the last requests of each test of auth/mod.rs as the   *)
(* test asserts, and leaves the rows that it then counts.                   *)
AnswersAsTested ==
    (test # NoTest /\ todo[Tester] = << >> /\ pc[Tester] = "idle") =>
      LET given == answers[Tester]
          first == Len(given) - Len(test.asserts)
      IN  /\ \A i \in DOMAIN test.asserts : Matches(given[first + i].answer, test.asserts[i])
          /\ \A f \in DOMAIN test.counts : Counted[f] = test.counts[f]
=============================================================================
