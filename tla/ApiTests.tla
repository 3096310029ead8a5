------------------------------ MODULE ApiTests ------------------------------
(***************************************************************************)
(* The integration tests of signalnode-api as scenarios of Api: the rows a *)
(* test inserts, the requests it sends, the answers it asserts.  They keep *)
(* the model to what the program is tested to do.  The tests of the order  *)
(* of a list and those of the JSON fields alone are left out.              *)
(***************************************************************************)
EXTENDS Api, TLC

-----------------------------------------------------------------------------
(* test_helpers *)
Empty ==
    [workspaces |-> {}, members |-> {}, monitors |-> {}, channels |-> {},
     results |-> {}, incidents |-> {}]

create_test_workspace(world, id, user) ==
    [world EXCEPT
      !.workspaces = @ \cup {[id |-> id, slug |-> << <<"one">>, <<"two">>, <<"three">> >>[id],
                              owner |-> user]},
      !.members = @ \cup {[workspace |-> id, user |-> user, role |-> "owner"]}]

create_test_member(world, id, user) ==
    [world EXCEPT !.members = @ \cup {[workspace |-> id, user |-> user, role |-> "member"]}]

Site == [name |-> "Test Monitor", url |-> "https://example.com", interval_secs |-> 60]

create_test_monitor(world, id, workspace) ==
    [world EXCEPT !.monitors = @ \cup {NewMonitor(id, workspace, Site)}]

create_test_monitor_thresholds(world, id, workspace, failure, recovery) ==
    [world EXCEPT !.monitors = @ \cup
      {[NewMonitor(id, workspace, Site) EXCEPT
          !.failure_threshold = failure, !.recovery_threshold = recovery]}]

with_status(world, id, status) ==
    [world EXCEPT !.monitors =
      {IF m.id = id THEN [m EXCEPT !.status = status] ELSE m : m \in @}]

create_test_channel(world, id, workspace) ==
    [world EXCEPT !.channels = @ \cup
      {[id |-> id, workspace |-> workspace, kind |-> "webhook", target |-> "https://hooks"]}]

with_result(world, monitor, status, at) ==
    [world EXCEPT !.results = @ \cup {[monitor |-> monitor, status |-> status, at |-> at]}]

create_incident(world, id, monitor, open) ==
    [world EXCEPT !.incidents = @ \cup {[id |-> id, monitor |-> monitor, open |-> open]}]

None == << >>
Unknown == 99    \* a Uuid that is in no table

Asked(token, op, workspace, id, body) ==
    [op |-> op, token |-> token, workspace |-> workspace, id |-> id, body |-> body]

authed(user, op, workspace, id, body) ==
    Asked(encode_access_token(user), op, workspace, id, body)

(* A test sends asked[i], is answered asserts[i], and then counts rows *)
TestCounting(world, asked, asserts, counts) ==
    [world |-> world, asked |-> asked, asserts |-> asserts, counts |-> counts]

Test(world, asked, asserts) == TestCounting(world, asked, asserts, None)

(* Each body sent once, and always the same answer *)
Each(world, user, op, bodies, assert) ==
    {Test(world, <<authed(user, op, 1, 11, b)>>, <<assert>>) : b \in bodies}

Unauthenticated(op) ==
    {Test(Empty, <<Asked(NoToken, op, Unknown, Unknown, None)>>, <<Is(401)>>)}

Alices == create_test_workspace(Empty, 1, "alice")
AlicesMonitor == create_test_monitor(Alices, 11, 1)
AlicesTwo == create_test_workspace(AlicesMonitor, 2, "alice")
WithMember == create_test_member(AlicesMonitor, 1, "carol")
ThresholdsOf(failure, recovery) ==
    create_test_monitor_thresholds(Alices, 11, 1, failure, recovery)

-----------------------------------------------------------------------------
(* monitor/mod.rs *)
MembershipGuardTests ==
    {Test(Alices, <<authed("bob", "create_monitor", 1, 0, Site)>>, <<Is(403)>>),
     Test(Empty, <<authed("alice", "create_monitor", Unknown, 0, Site)>>, <<Is(404)>>)}

CreateMonitorTests ==
    {Test(Alices, <<authed("alice", "create_monitor", 1, 0, Site)>>,
          <<IsRow(201, Site @@ [workspace |-> 1])>>)}
    \cup Each(Alices, "alice", "create_monitor",
          {[Site EXCEPT !.name = ""], [Site EXCEPT !.url = ""],
           [Site EXCEPT !.interval_secs = 0], [Site EXCEPT !.interval_secs = -1]}, Is(422))
    \cup Unauthenticated("create_monitor")

ListMonitorsTests ==
    Unauthenticated("list_monitors") \cup
    {Test(create_test_workspace(Alices, 2, "bob"),
          <<authed("alice", "create_monitor", 1, 0, [Site EXCEPT !.name = "Monitor A"]),
            authed("bob", "create_monitor", 2, 0, [Site EXCEPT !.name = "Monitor B"]),
            authed("alice", "list_monitors", 1, 0, None)>>,
          <<Is(201), Is(201), IsRow(200, [name |-> "Monitor A"])>>),
     Test(Alices, <<authed("alice", "list_monitors", 1, 0, None)>>, <<IsRows(200, 0)>>),
     Test(Alices, <<authed("bob", "list_monitors", 1, 0, None)>>, <<Is(403)>>),
     Test(Empty, <<authed("alice", "list_monitors", Unknown, 0, None)>>, <<Is(404)>>)}

ThresholdTests ==
    {Test(Alices, <<authed("alice", "create_monitor", 1, 0, Site)>>,
          <<IsRow(201, [status |-> "active", kind |-> "uptime",
                        failure_threshold |-> 1, recovery_threshold |-> 1])>>),
     Test(Alices, <<authed("alice", "create_monitor", 1, 0,
                           Site @@ [failure_threshold |-> 3, recovery_threshold |-> 2])>>,
          <<IsRow(201, [failure_threshold |-> 3, recovery_threshold |-> 2])>>)}
    \cup Each(Alices, "alice", "create_monitor",
          {Site @@ [failure_threshold |-> 0], Site @@ [recovery_threshold |-> 0]}, Is(422))

ArchivedMonitor == with_status(AlicesMonitor, 11, "archived")

ArchivedFilterTests ==
    {Test(ArchivedMonitor, <<authed("alice", "list_monitors", 1, 0, None)>>, <<IsRows(200, 0)>>),
     Test(ArchivedMonitor,
          <<authed("alice", "list_monitors", 1, 0, [include_archived |-> TRUE])>>,
          <<IsRow(200, [status |-> "archived"])>>)}

GetMonitorTests ==
    {Test(AlicesMonitor, <<authed("alice", "get_monitor", 1, 11, None)>>,
          <<IsRow(200, [id |-> 11, status |-> "active", kind |-> "uptime"])>>),
     Test(Alices, <<authed("alice", "get_monitor", 1, Unknown, None)>>, <<Is(404)>>),
     Test(AlicesTwo, <<authed("alice", "get_monitor", 2, 11, None)>>, <<Is(404)>>),
     Test(AlicesMonitor, <<authed("bob", "get_monitor", 1, 11, None)>>, <<Is(403)>>)}
    \cup Unauthenticated("get_monitor")

PatchMonitorTests ==
    {Test(AlicesMonitor, <<authed("alice", "patch_monitor", 1, 11, [name |-> "Renamed"])>>,
          <<IsRow(200, [name |-> "Renamed", url |-> "https://example.com",
                        status |-> "active"])>>),
     Test(AlicesMonitor,
          <<authed("alice", "patch_monitor", 1, 11, [status |-> "paused"]),
            authed("alice", "patch_monitor", 1, 11, [status |-> "active"])>>,
          <<IsRow(200, [status |-> "paused"]), IsRow(200, [status |-> "active"])>>),
     Test(AlicesMonitor,
          <<authed("alice", "patch_monitor", 1, 11,
                   [failure_threshold |-> 3, recovery_threshold |-> 2])>>,
          <<IsRow(200, [failure_threshold |-> 3, recovery_threshold |-> 2])>>),
     Test(AlicesMonitor, <<authed("alice", "patch_monitor", 1, 11, [status |-> "archived"])>>,
          <<Is(422)>>)}

PatchRefusedTests ==
    Each(ArchivedMonitor, "alice", "patch_monitor", {[name |-> "X"]}, Is(422))
    \cup Each(AlicesMonitor, "alice", "patch_monitor", {None, [interval_secs |-> 0]}, Is(422))
    \cup Each(Alices, "alice", "patch_monitor", {[name |-> "X"]}, Is(404))
    \cup Each(AlicesMonitor, "bob", "patch_monitor", {[name |-> "X"]}, Is(403))
    \cup Unauthenticated("patch_monitor")

DeleteMonitorTests ==
    {Test(AlicesMonitor,
          <<authed("alice", "delete_monitor", 1, 11, None),
            authed("alice", "list_monitors", 1, 0, None),
            authed("alice", "list_monitors", 1, 0, [include_archived |-> TRUE])>>,
          <<Is(204), IsRows(200, 0), IsRow(200, [id |-> 11, status |-> "archived"])>>),
     Test(WithMember, <<authed("carol", "delete_monitor", 1, 11, None)>>, <<Is(403)>>),
     Test(AlicesMonitor,
          <<authed("alice", "delete_monitor", 1, 11, None),
            authed("alice", "delete_monitor", 1, 11, None)>>, <<Is(204), Is(204)>>)}

DeleteRefusedTests ==
    {Test(Alices, <<authed("alice", "delete_monitor", 1, Unknown, None)>>, <<Is(404)>>),
     Test(Empty, <<authed("alice", "delete_monitor", Unknown, Unknown, None)>>, <<Is(404)>>)}
    \cup Unauthenticated("delete_monitor")

Port == [name |-> "DB Port", kind |-> "tcp", tcp_host |-> "127.0.0.1",
         tcp_port |-> 5432, interval_secs |-> 60]
Without(body, field) == [f \in DOMAIN body \ {field} |-> body[f]]

TcpMonitorTests ==
    Each(Alices, "alice", "create_monitor", {[Site EXCEPT !.name = ""]},
         IsError(422, "invalid_input"))
    \cup Each(Alices, "alice", "create_monitor", {Port},
         IsRow(201, [kind |-> "tcp", tcp_host |-> "127.0.0.1", tcp_port |-> 5432,
                     url |-> Null]))
    \cup Each(Alices, "alice", "create_monitor",
         {Without(Port, "tcp_host"), Without(Port, "tcp_port"),
          [Port EXCEPT !.tcp_port = 0], [Port EXCEPT !.tcp_port = 65536],
          [Port EXCEPT !.tcp_host = ""]}, IsError(422, "invalid_input"))

-----------------------------------------------------------------------------
(* check_result/mod.rs *)
Result(status) == [status |-> status]
Writes(world, user, workspace, id, body, assert) ==
    Test(world, <<authed(user, "create_check_result", workspace, id, body)>>, <<assert>>)
Lists(world, user, workspace, id, assert) ==
    Test(world, <<authed(user, "list_check_results", workspace, id, None)>>, <<assert>>)

CreateCheckResultTests ==
    {Writes(AlicesMonitor, "alice", 1, 11, Result("up"), IsRow(201, [status |-> "up", monitor |-> 11])),
     Writes(AlicesMonitor, "alice", 1, 11, Result("down"), IsRow(201, Result("down"))),
     Writes(AlicesMonitor, "alice", 1, 11, Result("broken"), Is(422)),
     Writes(Alices, "alice", 1, Unknown, Result("up"), Is(404)),
     Writes(AlicesTwo, "alice", 2, 11, Result("up"), Is(404)),
     Writes(AlicesMonitor, "bob", 1, 11, Result("up"), Is(403))}
    \cup Unauthenticated("create_check_result")

EmptyHistoryTests == {Lists(AlicesMonitor, "alice", 1, 11, IsRows(200, 0))}

ListCheckResultsTests ==
    {Lists(with_result(create_test_monitor(AlicesMonitor, 12, 1), 12, "up", 21),
           "alice", 1, 11, IsRows(200, 0)),
     Lists(Alices, "alice", 1, Unknown, Is(404)),
     Lists(AlicesTwo, "alice", 2, 11, Is(404)),
     Lists(AlicesMonitor, "bob", 1, 11, Is(403))}

(* The check results of one monitor sent by alice, then what is counted *)
Sends(world, statuses, counts) ==
    TestCounting(world,
        [i \in DOMAIN statuses |->
            authed("alice", "create_check_result", 1, 11, Result(statuses[i]))],
        [i \in DOMAIN statuses |-> Is(201)], counts)

OpenIncidentTests ==
    {Sends(with_result(ThresholdsOf(2, 1), 11, "down", 21), <<"down">>, [open |-> 1]),
     Sends(ThresholdsOf(2, 1), <<"down">>, [open |-> 0]),
     Sends(with_result(ThresholdsOf(2, 1), 11, "degraded", 21), <<"down">>, [open |-> 0])}

NoDuplicateTests ==
    {Sends(ThresholdsOf(1, 2), <<"down", "down">>, [open |-> 1]),
     Sends(with_status(ThresholdsOf(1, 1), 11, "paused"), <<"down">>, [open |-> 0])}

FanOutTests ==
    LET WithChannel == create_test_channel(ThresholdsOf(1, 1), 31, 1)
    IN  {Sends(WithChannel, <<"down">>, [open |-> 1, pending |-> 1]),
         Sends(WithChannel, <<"up">>, [pending |-> 0]),
         Sends(ThresholdsOf(1, 1), <<"down">>, [open |-> 1, pending |-> 0])}

CloseIncidentTests ==
    LET Recovering == with_result(with_result(create_incident(
                          ThresholdsOf(1, 2), 41, 11, TRUE), 11, "down", 21), 11, "up", 22)
    IN  {Sends(Recovering, <<"up">>, [open |-> 0, closed |-> 1]),
         Sends(ThresholdsOf(1, 2), <<"down", "up">>, [open |-> 1, closed |-> 0])}

CheckResultErrorTests ==
    Unauthenticated("list_check_results") \cup
    {Writes(AlicesMonitor, "alice", 1, 11, Result("broken"), IsError(422, "invalid_input"))}

-----------------------------------------------------------------------------
(* notification_channel/mod.rs *)
Hook == [kind |-> "webhook", target |-> "https://hooks"]

Creates(world, user, workspace, body, assert) ==
    Test(world, <<authed(user, "create_channel", workspace, 0, body)>>, <<assert>>)

AlicesTeam == create_test_member(Alices, 1, "carol")

CreateChannelTests ==
    {Creates(Alices, "alice", 1, Hook, IsRow(201, Hook @@ [workspace |-> 1])),
     Creates(Alices, "alice", 1, [kind |-> "sms", target |-> "555-1234"], Is(422)),
     Creates(Alices, "alice", 1, [kind |-> "email", target |-> ""], Is(422))}

CreateChannelRefusedTests ==
    {Creates(Empty, "alice", Unknown, Hook, Is(404)),
     Creates(AlicesTeam, "carol", 1, Hook, Is(403))}
    \cup Unauthenticated("create_channel")

Reads(world, user, op, assert) == Test(world, <<authed(user, op, 1, 0, None)>>, <<assert>>)

ListChannelsTests ==
    {Reads(Alices, "alice", "list_channels", IsRows(200, 0)),
     Reads(create_test_channel(AlicesTeam, 31, 1), "carol", "list_channels", IsRows(200, 1))}

ListChannelsScopedTests ==
    {Reads(create_test_channel(create_test_channel(AlicesTwo, 31, 1), 32, 2),
           "alice", "list_channels", IsRows(200, 1)),
     Reads(Alices, "bob", "list_channels", Is(403))}
    \cup Unauthenticated("list_channels")

Deletes(world, user, workspace, id, assert, counts) ==
    TestCounting(world, <<authed(user, "delete_channel", workspace, id, None)>>,
                 <<assert>>, counts)

DeleteChannelTests ==
    {Deletes(create_test_channel(Alices, 31, 1), "alice", 1, 31, Is(204), [channels |-> 0]),
     Deletes(Alices, "alice", 1, Unknown, Is(404), None),
     Deletes(create_test_channel(AlicesTwo, 31, 1), "alice", 2, 31, Is(404), None),
     Deletes(create_test_channel(AlicesTeam, 31, 1), "carol", 1, 31, Is(403), None)}

ChannelErrorTests ==
    Unauthenticated("delete_channel") \cup
    {Creates(Alices, "alice", 1, [kind |-> "email", target |-> ""], IsError(422, "invalid_input"))}

-----------------------------------------------------------------------------
(* workspace/mod.rs *)
Org(slug) == [name |-> "Org", slug |-> slug]
MyOrg == Org(<<"my", "-", "org">>)
SameSlug == Org(<<"same", "-", "slug">>)

creates_workspace(user, body) == authed(user, "create_workspace", 0, 0, body)

CreateWorkspaceTests ==
    {TestCounting(Empty, <<creates_workspace("alice", MyOrg)>>,
          <<IsRow(201, [slug |-> MyOrg.slug, owner |-> "alice"])>>, [owners |-> 1]),
     Test(Empty, <<creates_workspace("alice", SameSlug), creates_workspace("bob", SameSlug)>>,
          <<Is(201), Is(409)>>)}

InvalidWorkspaceTests ==
    Each(Empty, "alice", "create_workspace",
         {Org(s) : s \in {<<"A", "-", "A">>, <<"my", " ", "org">>, <<"-", "leading">>,
                          <<"trailing", "-">>, <<"A">>}}
            \cup {[MyOrg EXCEPT !.name = ""]}, Is(422))
    \cup Unauthenticated("create_workspace")

ListWorkspacesTests ==
    {Test(Empty, <<creates_workspace("alice", MyOrg), creates_workspace("bob", SameSlug),
                   authed("alice", "list_workspaces", 0, 0, None)>>,
          <<Is(201), Is(201), IsRow(200, [slug |-> MyOrg.slug])>>),
     Reads(Empty, "alice", "list_workspaces", IsRows(200, 0))}
    \cup Unauthenticated("list_workspaces")

SlugTakenTests ==
    {Test(Empty, <<creates_workspace("alice", SameSlug), creates_workspace("bob", SameSlug)>>,
          <<Is(201), IsError(409, "slug_taken")>>)}

-----------------------------------------------------------------------------
(* incident/mod.rs *)
OpenIncidentsTests ==
    {Reads(Alices, "alice", "list_open_incidents", IsRows(200, 0)),
     Reads(create_incident(create_incident(AlicesMonitor, 41, 11, TRUE), 42, 11, FALSE),
           "alice", "list_open_incidents", IsRow(200, [id |-> 41])),
     Reads(create_incident(create_incident(create_test_monitor(AlicesTwo, 12, 2),
               41, 11, TRUE), 42, 12, TRUE),
           "alice", "list_open_incidents", IsRow(200, [monitor |-> 11]))}

OpenIncidentsRefusedTests ==
    {Reads(Alices, "bob", "list_open_incidents", IsError(403, "forbidden")),
     Test(Alices, <<authed("alice", "list_open_incidents", Unknown, 0, None)>>, <<Is(404)>>)}
    \cup Unauthenticated("list_open_incidents")

-----------------------------------------------------------------------------
(* authz.rs: its tests call the two checks, here through handlers that     *)
(* begin with them.  lib.rs: auth_middleware before the handler me.        *)
MembershipTests ==
    {Reads(Alices, "alice", "list_monitors", Is(200)),
     Reads(Alices, "bob", "list_monitors", IsError(403, "forbidden")),
     Reads(Empty, "alice", "list_monitors", IsError(404, "not_found"))}

OwnerTests ==
    {Creates(Alices, "alice", 1, Hook, Is(201)),
     Creates(AlicesTeam, "carol", 1, Hook, IsError(403, "forbidden")),
     Creates(Alices, "bob", 1, Hook, IsError(403, "forbidden")),
     Creates(Empty, "alice", Unknown, Hook, IsError(404, "not_found"))}

MeTests ==
    {Test(Empty, <<Asked(token, "me", 0, 0, None)>>, <<IsError(401, "invalid_token")>>) :
        token \in {NoToken, [encode_access_token("alice") EXCEPT !.genuine = FALSE],
                   encode_refresh_token("alice")}}
    \cup {Reads(Empty, "alice", "me", IsRow(200, [id |-> "alice"]))}

-----------------------------------------------------------------------------
Tests ==
    UNION {MembershipGuardTests, CreateMonitorTests, ListMonitorsTests, ThresholdTests,
           ArchivedFilterTests, GetMonitorTests, PatchMonitorTests, PatchRefusedTests,
           DeleteMonitorTests, DeleteRefusedTests, TcpMonitorTests}
    \cup UNION {CreateCheckResultTests, EmptyHistoryTests, ListCheckResultsTests,
           OpenIncidentTests, NoDuplicateTests, FanOutTests, CloseIncidentTests,
           CheckResultErrorTests}
    \cup UNION {CreateChannelTests, CreateChannelRefusedTests, ListChannelsTests,
           ListChannelsScopedTests, DeleteChannelTests, ChannelErrorTests}
    \cup UNION {CreateWorkspaceTests, InvalidWorkspaceTests, ListWorkspacesTests,
           SlugTakenTests, OpenIncidentsTests, OpenIncidentsRefusedTests,
           MembershipTests, OwnerTests, MeTests}
=============================================================================
