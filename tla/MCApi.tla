------------------------------- MODULE MCApi -------------------------------
(* The instance of Api that TLC checks: every integration test, sent by one *)
(* client without faults, and races of two clients on a small world, where *)
(* one statement fails or one answer is lost.                               *)
EXTENDS ApiTests

VARIABLE test    \* the test run, or NoTest

NoTest == Test(Empty, << >>, << >>)

Tester == CHOOSE c \in Clients : TRUE

(* alice owns workspace 1, where carol is a member, and workspace 3, which   *)
(* has no rows; bob owns workspace 2.                                        *)
World ==
    LET ones == create_test_channel(create_test_workspace(WithMember, 3, "alice"), 31, 1)
        twos == create_test_monitor(create_test_workspace(ones, 2, "bob"), 12, 2)
    IN  create_incident(create_test_channel(twos, 32, 2), 41, 12, TRUE)

Scripts ==
    {<<authed(user, op, 1, 11, None)>> :
        user \in {"alice", "bob"}, op \in {"get_monitor", "list_monitors", "list_open_incidents"}}
    \cup {<<authed(user, "patch_monitor", 1, 11, [status |-> "active"])>> :
        user \in {"carol", "bob"}}
    \cup {<<authed(user, "delete_monitor", 1, 11, None)>> : user \in {"alice", "carol"}}
    \cup {<<authed(user, "delete_channel", 1, 31, None)>> : user \in {"alice", "carol"}}
    \cup {<<authed("bob", op, 2, 11, [status |-> "down"])>> :
        op \in {"get_monitor", "create_check_result", "list_check_results", "delete_monitor"}}
    \cup {<<authed("bob", "delete_channel", 2, 31, None)>>,
          <<authed("alice", "delete_channel", 3, 31, None)>>}
    \cup {<<authed("alice", "patch_monitor", 3, 11, [status |-> "paused"])>>}
    \cup {<<authed("alice", op, 3, 11, [status |-> "down"])>> :
        op \in {"delete_monitor", "create_check_result"}}
    \cup {<<authed("carol", "create_monitor", 1, 0, Port)>>,
          <<authed("alice", "create_channel", 1, 0, Hook)>>,
          <<authed("carol", "create_check_result", 1, 11, Result("down")),
            authed("alice", "list_check_results", 1, 11, None)>>,
          <<creates_workspace("bob", SameSlug), creates_workspace("bob", SameSlug)>>,
          <<creates_workspace("carol", SameSlug),
            authed("carol", "list_workspaces", 0, 0, None)>>}

Races == {[world |-> World, scripts |-> s, faults |-> 1] : s \in [Clients -> Scripts]}

(* The scenario of a test *)
Alone(t) ==
    [world |-> t.world, faults |-> 0,
     scripts |-> [c \in Clients |-> IF c = Tester THEN t.asked ELSE << >>]]

MCScenarios == Races \cup {Alone(t) : t \in Tests}

MCInit ==
    \/ test = NoTest /\ \E s \in Races : InitWith(s.world, s.scripts, s.faults)
    \/ \E t \in Tests :
         /\ test = t
         /\ InitWith(t.world, Alone(t).scripts, 0)

MCNext == Next /\ UNCHANGED test

MCSpec ==
    /\ MCInit /\ [][MCNext]_<<vars, test>>
    /\ \A c \in Clients : WF_vars(Receive(c) \/ Handle(c))

Counted ==
    [open |-> Cardinality({i \in incidents : i.open}),
     closed |-> Cardinality({i \in incidents : ~i.open}),
     pending |-> Cardinality(pending),
     channels |-> Cardinality(channels),
     owners |-> Cardinality({m \in members : m.role = "owner"})]

(* The model answers each request of an integration test as the test       *)
(* asserts, and leaves the rows that it then counts.                       *)
AnswersAsTested ==
    test # NoTest =>
      /\ \A i \in DOMAIN answers[Tester] :
           Matches(answers[Tester][i].answer, test.asserts[i])
      /\ (todo[Tester] = << >> /\ pc[Tester] = "idle") =>
           \A f \in DOMAIN test.counts : Counted[f] = test.counts[f]
=============================================================================
