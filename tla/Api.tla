-------------------------------- MODULE Api --------------------------------
(***************************************************************************)
(* The protected routes of signalnode-api: workspaces, monitors, check     *)
(* results, incidents, notification channels.  Clients send the requests   *)
(* of their scripts one after the other; an action is one SQL statement of *)
(* a handler (a whole transaction for create_check_result, whose           *)
(* statements are in IncidentEvaluation), so that the requests of several  *)
(* clients interleave between them.                                        *)
(*                                                                         *)
(* A request is [op, token, workspace, id, body]; a number is a Uuid, and  *)
(* the order of the numbers is that of created_at, opened_at, checked_at.  *)
(***************************************************************************)
EXTENDS Authorization, MonitorInput, CheckHistory, Sequences

CONSTANTS
    Clients,
    Scenarios    \* [world, scripts, faults]: the first rows, what each client
                 \* sends, how many statements fail or answers are lost

Requests ==
    UNION {UNION {{s.scripts[c][i] : i \in DOMAIN s.scripts[c]} : c \in Clients} : s \in Scenarios}

VARIABLES
    workspaces, members, monitors, channels,   \* tables: sets of rows
    results, incidents, pending,
    uuids,     \* the last Uuid generated
    todo,      \* the requests each client has still to send
    pc, req,   \* the request in hand and how far its handler is
    staged,    \* what create_workspace's open transaction has inserted
    answers,   \* per client: the requests answered, with their answers
    sealed,    \* history: the monitors archived ever since the request came
    faults     \* bound: failures of statements, lost answers, disconnects to come

tables == <<workspaces, members, monitors, channels, results, incidents, pending>>
vars == <<tables, uuids, todo, pc, req, staged, answers, sealed, faults>>

Nothing == [workspaces |-> {}, members |-> {}]
NoRequest == [op |-> "none", token |-> NoToken, workspace |-> 0, id |-> 0, body |-> << >>]

(* The tables hold what a world says, and the clients their scripts. *)
InitWith(world, scripts, failing) ==
    /\ workspaces = world.workspaces /\ members = world.members
    /\ monitors = world.monitors /\ channels = world.channels
    /\ results = world.results /\ incidents = world.incidents
    /\ pending = {}
    /\ uuids = 100
    /\ todo = scripts
    /\ pc = [c \in Clients |-> "idle"] /\ req = [c \in Clients |-> NoRequest]
    /\ staged = [c \in Clients |-> Nothing]
    /\ answers = [c \in Clients |-> << >>]
    /\ sealed = [c \in Clients |-> {}]
    /\ faults = failing

User(c) == req[c].token.sub
Uuid == uuids + 1
Archived == {m.id : m \in {n \in monitors : n.status = "archived"}}

(* The monitors the statement's WHERE id = $1 AND workspace_id = $2 finds *)
Found(c) == {m \in monitors : m.id = req[c].id /\ m.workspace = req[c].workspace}

At(c, from) == pc[c] = from
Goto(c, from, to) == At(c, from) /\ pc' = [pc EXCEPT ![c] = to]

(* The handler ends with this answer. *)
Answer(c, answer) ==
    /\ pc' = [pc EXCEPT ![c] = "idle"]
    /\ answers' = [answers EXCEPT
         ![c] = Append(@, [request |-> req[c], answer |-> answer])]

(* The write of the step is done; its client may be told otherwise. *)
AnswerWrite(c, answer) ==
    \/ Answer(c, answer) /\ UNCHANGED faults
    \/ /\ faults > 0 /\ faults' = faults - 1
       /\ \E lost \in {NoAnswer, AuthzError.Internal} : Answer(c, lost)

ReadOnly == UNCHANGED <<tables, uuids, todo, req, staged, sealed, faults>>

-----------------------------------------------------------------------------
(* auth_middleware *)
Steps(op) ==
    CASE op \in {"me", "list_workspaces", "create_workspace"} -> "act"
      [] OTHER -> "authorize"

Receive(c) ==
    /\ At(c, "idle") /\ todo[c] # << >>
    /\ req' = [req EXCEPT ![c] = Head(todo[c])]
    /\ todo' = [todo EXCEPT ![c] = Tail(todo[c])]
    /\ sealed' = [sealed EXCEPT ![c] = Archived]
    /\ LET q == Head(todo[c])
       IN  IF Authenticated(q.token)
           THEN pc' = [pc EXCEPT ![c] = Steps(q.op)] /\ UNCHANGED answers
           ELSE /\ answers' = [answers EXCEPT
                     ![c] = Append(@, [request |-> q, answer |-> AuthError.InvalidToken])]
                /\ UNCHANGED pc
    /\ UNCHANGED <<tables, uuids, staged, faults>>

(* authz::check_membership or check_owner: the SELECT of the user's row.    *)
(* A member who is not the owner is refused at once; for a user with no row *)
(* a second SELECT tells a workspace that exists from one that does not.    *)
OwnersOnly == {"delete_monitor", "create_channel", "delete_channel"}

NeedsMonitor == {"create_check_result", "list_check_results"}

Authorize(c) ==
    /\ At(c, "authorize")
    /\ LET q == req[c]
           member == check_membership(members, q.workspace, User(c))
           allowed == IF q.op \in OwnersOnly
                        THEN check_owner(members, q.workspace, User(c)) ELSE member
       IN  IF member /\ ~allowed THEN Answer(c, AuthzError.Forbidden)
           ELSE /\ Goto(c, "authorize",
                        IF ~member THEN "exists"
                        ELSE IF q.op \in NeedsMonitor THEN "resolve" ELSE "act")
                /\ UNCHANGED answers
    /\ ReadOnly

WorkspaceExists(c) ==
    /\ At(c, "exists")
    /\ Answer(c, IF \E w \in workspaces : w.id = req[c].workspace
                   THEN AuthzError.Forbidden ELSE AuthzError.NotFound)
    /\ ReadOnly

(* resolve_monitor *)
ResolveMonitor(c) ==
    /\ At(c, "resolve")
    /\ IF Found(c) = {}
         THEN Answer(c, CheckResultError.NotFound)
         ELSE Goto(c, "resolve", "act") /\ UNCHANGED answers
    /\ ReadOnly

Acts(c, op) == At(c, "act") /\ req[c].op = op

-----------------------------------------------------------------------------
(* A slug is the sequence of its runs of characters: a run of lower-case    *)
(* letters and digits, or one of other characters.                          *)
Statuses == {"up", "degraded", "down"}
Kinds == {"email", "webhook"}

Hyphen == "-"
BadRuns == {"A", " "}

is_valid_slug(slug) ==
    /\ slug # << >>
    /\ \A i \in DOMAIN slug : slug[i] \notin BadRuns
    /\ slug[1] # Hyphen /\ slug[Len(slug)] # Hyphen

(* The checks of a body before the first statement.  "" is a text that is   *)
(* empty, for the target of a channel also one of blanks.                   *)
ValidBody(q) ==
    CASE q.op = "create_monitor" -> ValidCreate(q.body)
      [] q.op = "patch_monitor" -> ValidPatch(q.body)
      [] q.op = "create_check_result" -> q.body.status \in Statuses
      [] q.op = "create_channel" -> q.body.kind \in Kinds /\ q.body.target # ""
      [] q.op = "create_workspace" -> q.body.name # "" /\ is_valid_slug(q.body.slug)
      [] OTHER -> TRUE

-----------------------------------------------------------------------------
(* Handlers that only read *)
Me(c) ==
    /\ Acts(c, "me")
    /\ Answer(c, Success(200, {[id |-> User(c)]}))
    /\ ReadOnly

ListWorkspaces(c) ==
    /\ Acts(c, "list_workspaces")
    /\ Answer(c, Success(200,
           {w \in workspaces : check_membership(members, w.id, User(c))}))
    /\ ReadOnly

ListMonitors(c) ==
    /\ Acts(c, "list_monitors")
    /\ Answer(c, Success(200,
           {m \in monitors : /\ m.workspace = req[c].workspace
                             /\ \/ Or(req[c].body, "include_archived", FALSE)
                                \/ m.status # "archived"}))
    /\ ReadOnly

(* Mutant: the monitor is looked up by its id alone. *)
GetAnyMonitor(c) ==
    /\ Acts(c, "get_monitor")
    /\ LET found == {m \in monitors : m.id = req[c].id}
       IN  Answer(c, IF found = {} THEN MonitorError.NotFound ELSE Success(200, found))
    /\ ReadOnly

GetMonitor(c) ==
    /\ Acts(c, "get_monitor")
    /\ Answer(c, IF Found(c) = {} THEN MonitorError.NotFound ELSE Success(200, Found(c)))
    /\ ReadOnly

ListCheckResults(c) ==
    /\ Acts(c, "list_check_results")
    /\ Answer(c, Success(200, {r \in results : r.monitor = req[c].id}))
    /\ ReadOnly

ListOpenIncidents(c) ==
    /\ Acts(c, "list_open_incidents")
    /\ Answer(c, Success(200,
           {i \in incidents : /\ i.open
                              /\ \E m \in monitors : /\ m.id = i.monitor
                                                     /\ m.workspace = req[c].workspace}))
    /\ ReadOnly

ListChannels(c) ==
    /\ Acts(c, "list_channels")
    /\ Answer(c, Success(200, {h \in channels : h.workspace = req[c].workspace}))
    /\ ReadOnly

-----------------------------------------------------------------------------
(* create_monitor *)
CreateMonitor(c) ==
    /\ Acts(c, "create_monitor")
    /\ \/ /\ ~ValidBody(req[c])
          /\ Answer(c, MonitorError.InvalidInput)
          /\ UNCHANGED <<monitors, uuids, faults>>
       \/ /\ ValidBody(req[c])
          /\ LET m == NewMonitor(Uuid, req[c].workspace, req[c].body)
             IN  /\ monitors' = monitors \cup {m}
                 /\ AnswerWrite(c, Success(201, {m}))
          /\ uuids' = Uuid
    /\ UNCHANGED <<workspaces, members, channels, results, incidents, pending,
                   todo, req, staged, sealed>>

(* patch_monitor: the checks of the body and the SELECT of the status *)
PatchReadsAnyStatus(c) ==
    /\ Acts(c, "patch_monitor")
    /\ IF ~ValidBody(req[c]) THEN Answer(c, MonitorError.InvalidInput)
       ELSE IF Found(c) = {} THEN Answer(c, MonitorError.NotFound)
       ELSE Goto(c, "act", "update") /\ UNCHANGED answers
    /\ ReadOnly

PatchReadsStatus(c) ==
    /\ Acts(c, "patch_monitor")
    /\ IF ~ValidBody(req[c]) THEN Answer(c, MonitorError.InvalidInput)
       ELSE IF Found(c) = {} THEN Answer(c, MonitorError.NotFound)
       ELSE IF \E m \in Found(c) : m.status = "archived"
              THEN Answer(c, MonitorError.InvalidInput)
       ELSE Goto(c, "act", "update") /\ UNCHANGED answers
    /\ ReadOnly

(* patch_monitor: the UPDATE, which does not look at the status again *)
PatchUpdates(c) ==
    /\ At(c, "update")
    /\ LET patched == {Patched(m, req[c].body) : m \in Found(c)}
           revived == {m.id : m \in {n \in patched : n.status # "archived"}}
       IN  /\ monitors' = (monitors \ Found(c)) \cup patched
           /\ sealed' = [d \in Clients |-> sealed[d] \ revived]
           /\ IF patched = {} THEN Answer(c, MonitorError.NotFound) /\ UNCHANGED faults
              ELSE AnswerWrite(c, Success(200, patched))
    /\ UNCHANGED <<workspaces, members, channels, results, incidents, pending,
                   uuids, todo, req, staged>>

(* delete_monitor *)
DeleteMonitor(c) ==
    /\ Acts(c, "delete_monitor")
    /\ monitors' = (monitors \ Found(c))
                     \cup {[m EXCEPT !.status = "archived"] : m \in Found(c)}
    /\ IF Found(c) = {} THEN Answer(c, MonitorError.NotFound) /\ UNCHANGED faults
       ELSE AnswerWrite(c, Success(204, {}))
    /\ UNCHANGED <<workspaces, members, channels, results, incidents, pending,
                   uuids, todo, req, staged, sealed>>

-----------------------------------------------------------------------------
(* create_channel, delete_channel *)
CreateChannel(c) ==
    /\ Acts(c, "create_channel")
    /\ LET body == req[c].body
           h == [id |-> Uuid, workspace |-> req[c].workspace,
                 kind |-> body.kind, target |-> body.target]
       IN  \/ /\ ~ValidBody(req[c])
              /\ Answer(c, NotificationChannelError.InvalidInput)
              /\ UNCHANGED <<channels, uuids, faults>>
           \/ /\ ValidBody(req[c])
              /\ channels' = channels \cup {h}
              /\ uuids' = Uuid
              /\ AnswerWrite(c, Success(201, {h}))
    /\ UNCHANGED <<workspaces, members, monitors, results, incidents, pending,
                   todo, req, staged, sealed>>

(* Mutant: the channel is looked up among those of all the user's workspaces. *)
DeleteOwnChannel(c) ==
    /\ Acts(c, "delete_channel")
    /\ LET found == {h \in channels :
                      h.id = req[c].id /\ check_owner(members, h.workspace, User(c))}
       IN  /\ channels' = channels \ found
           /\ IF found = {}
                THEN Answer(c, NotificationChannelError.NotFound) /\ UNCHANGED faults
                ELSE AnswerWrite(c, Success(204, {}))
    /\ UNCHANGED <<workspaces, members, monitors, results, incidents, pending,
                   uuids, todo, req, staged, sealed>>

DeleteChannel(c) ==
    /\ Acts(c, "delete_channel")
    /\ LET found == {h \in channels : h.id = req[c].id /\ h.workspace = req[c].workspace}
       IN  /\ channels' = channels \ found
           /\ IF found = {}
                THEN Answer(c, NotificationChannelError.NotFound) /\ UNCHANGED faults
                ELSE AnswerWrite(c, Success(204, {}))
    /\ UNCHANGED <<workspaces, members, monitors, results, incidents, pending,
                   uuids, todo, req, staged, sealed>>

-----------------------------------------------------------------------------
(* Mutant: an open incident is not looked for. *)
OpenUnseen(monitor) == {}

Open(monitor) == {i \in incidents : i.monitor = monitor /\ i.open}

(* create_check_result, once the monitor is resolved: the check of the      *)
(* body and the transaction, with evaluate_incident if the monitor is       *)
(* active.  One step: its statements and their races are IncidentEvaluation.*)
CreateCheckResult(c) ==
    /\ Acts(c, "create_check_result")
    /\ \/ /\ ~ValidBody(req[c])
          /\ Answer(c, CheckResultError.InvalidInput)
          /\ UNCHANGED <<results, incidents, pending, uuids, faults>>
       \/ /\ ValidBody(req[c])
          /\ \E m \in Found(c) :
               LET r == [monitor |-> m.id, status |-> req[c].body.status, at |-> Uuid]
                   history == {q \in results : q.monitor = m.id} \cup {r}
                   opens == /\ m.status = "active" /\ Open(m.id) = {}
                            /\ Streak(history, m.failure_threshold, "down")
                   closes == /\ m.status = "active" /\ Open(m.id) # {}
                             /\ Streak(history, m.recovery_threshold, "up")
                   incident == [id |-> Uuid, monitor |-> m.id, open |-> TRUE]
               IN  /\ results' = results \cup {r}
                   /\ incidents' =
                        IF opens THEN incidents \cup {incident}
                        ELSE IF closes
                               THEN (incidents \ Open(m.id))
                                      \cup {[i EXCEPT !.open = FALSE] : i \in Open(m.id)}
                        ELSE incidents
                   /\ pending' = pending \cup
                        {[incident |-> Uuid, channel |-> h] :
                           h \in {x \in channels : opens /\ x.workspace = m.workspace}}
                   /\ AnswerWrite(c, Success(201, {r}))
          /\ uuids' = Uuid
    /\ UNCHANGED <<workspaces, members, monitors, channels, todo, req, staged, sealed>>

-----------------------------------------------------------------------------
(* create_workspace: a transaction of two INSERTs and a SELECT.             *)
BeginWorkspace(c) ==
    /\ Acts(c, "create_workspace")
    /\ IF ~ValidBody(req[c]) THEN Answer(c, WorkspaceError.InvalidInput)
       ELSE Goto(c, "act", "insert_workspace") /\ UNCHANGED answers
    /\ ReadOnly

Slugs(rows) == {w.slug : w \in rows}
StagedByOthers(c) == UNION {staged[d].workspaces : d \in Clients \ {c}}

(* Mutant: an open transaction's slug is not waited for. *)
InsertWorkspaceAtOnce(c) ==
    /\ At(c, "insert_workspace")
    /\ LET w == [id |-> Uuid, slug |-> req[c].body.slug, owner |-> User(c)]
       IN  IF w.slug \in Slugs(workspaces)
             THEN /\ Answer(c, WorkspaceError.SlugTaken)
                  /\ UNCHANGED <<staged, uuids>>
             ELSE /\ staged' = [staged EXCEPT ![c].workspaces = {w}]
                  /\ uuids' = Uuid
                  /\ Goto(c, "insert_workspace", "insert_member")
                  /\ UNCHANGED answers
    /\ UNCHANGED <<tables, todo, req, sealed, faults>>

(* The first INSERT.  The unique index makes it wait while another open     *)
(* transaction has inserted the slug; once that one has committed it is 409.*)
InsertWorkspace(c) ==
    /\ At(c, "insert_workspace")
    /\ LET slug == req[c].body.slug
           w == [id |-> Uuid, slug |-> slug, owner |-> User(c)]
       IN  /\ slug \notin Slugs(StagedByOthers(c))
           /\ \/ /\ slug \in Slugs(workspaces)
                 /\ Answer(c, WorkspaceError.SlugTaken)
                 /\ UNCHANGED <<staged, uuids>>
              \/ /\ slug \notin Slugs(workspaces)
                 /\ staged' = [staged EXCEPT ![c].workspaces = {w}]
                 /\ uuids' = Uuid
                 /\ Goto(c, "insert_workspace", "insert_member")
                 /\ UNCHANGED answers
    /\ UNCHANGED <<tables, todo, req, sealed, faults>>

InsertMember(c) ==
    /\ Goto(c, "insert_member", "select")
    /\ staged' = [staged EXCEPT ![c].members =
         {[workspace |-> w.id, user |-> User(c), role |-> "owner"] :
            w \in staged[c].workspaces}]
    /\ UNCHANGED <<tables, uuids, todo, req, answers, sealed, faults>>

SelectWorkspace(c) ==
    /\ Goto(c, "select", "commit")
    /\ UNCHANGED <<tables, uuids, todo, req, staged, answers, sealed, faults>>

(* Mutant: a commit that failed is answered 201. *)
CommitUnchecked(c) ==
    /\ At(c, "commit")
    /\ \/ /\ workspaces' = workspaces \cup staged[c].workspaces
          /\ members' = members \cup staged[c].members
       \/ UNCHANGED <<workspaces, members>>
    /\ Answer(c, Success(201, staged[c].workspaces))
    /\ staged' = [staged EXCEPT ![c] = Nothing]
    /\ UNCHANGED <<monitors, channels, results, incidents, pending,
                   uuids, todo, req, sealed, faults>>

CommitWorkspace(c) ==
    /\ At(c, "commit")
    /\ workspaces' = workspaces \cup staged[c].workspaces
    /\ members' = members \cup staged[c].members
    /\ AnswerWrite(c, Success(201, staged[c].workspaces))
    /\ staged' = [staged EXCEPT ![c] = Nothing]
    /\ UNCHANGED <<monitors, channels, results, incidents, pending,
                   uuids, todo, req, sealed>>

(* Mutant: the transaction is not rolled back, the rows so far are kept. *)
FailsKeepingRows(c) ==
    /\ pc[c] # "idle" /\ faults > 0 /\ faults' = faults - 1
    /\ \E answer \in {AuthzError.Internal, NoAnswer} : Answer(c, answer)
    /\ workspaces' = workspaces \cup staged[c].workspaces
    /\ members' = members \cup staged[c].members
    /\ staged' = [staged EXCEPT ![c] = Nothing]
    /\ UNCHANGED <<monitors, channels, results, incidents, pending,
                   uuids, todo, req, sealed>>

(* The step at hand has a statement. *)
Executes(c) == At(c, "act") => req[c].op # "me" /\ ValidBody(req[c])

(* Mutant: the transaction is left open. *)
FailsWithoutRollback(c) ==
    /\ pc[c] # "idle" /\ faults > 0 /\ faults' = faults - 1
    /\ \E answer \in {AuthzError.Internal, NoAnswer} : Answer(c, answer)
    /\ UNCHANGED <<tables, uuids, todo, req, staged, sealed>>

(* A statement fails without effect (500, whichever the handler), or the    *)
(* request is dropped where it is: an open transaction rolls back.          *)
Fails(c) ==
    /\ pc[c] # "idle" /\ faults > 0 /\ faults' = faults - 1
    /\ \/ Answer(c, NoAnswer)
       \/ Executes(c) /\ Answer(c, AuthzError.Internal)
    /\ staged' = [staged EXCEPT ![c] = Nothing]
    /\ UNCHANGED <<tables, uuids, todo, req, sealed>>

-----------------------------------------------------------------------------
Handle(c) ==
    \/ Authorize(c) \/ WorkspaceExists(c) \/ ResolveMonitor(c)
    \/ Me(c) \/ ListWorkspaces(c) \/ ListMonitors(c) \/ GetMonitor(c)
    \/ ListCheckResults(c) \/ ListOpenIncidents(c) \/ ListChannels(c)
    \/ CreateMonitor(c) \/ PatchReadsStatus(c) \/ PatchUpdates(c) \/ DeleteMonitor(c)
    \/ CreateChannel(c) \/ DeleteChannel(c) \/ CreateCheckResult(c)
    \/ BeginWorkspace(c) \/ InsertWorkspace(c) \/ InsertMember(c)
    \/ SelectWorkspace(c) \/ CommitWorkspace(c)

Next == \E c \in Clients : Receive(c) \/ Handle(c) \/ Fails(c)

OwnerRow(w) == [workspace |-> w.id, user |-> w.owner, role |-> "owner"]

(* The rows a run begins with are rows the program can have left. *)
PossibleWorld(w) ==
    /\ \A m \in w.monitors : m.id \in 1 .. 100 /\ DOMAIN m = Columns /\ Stored(m)
    /\ \A m, n \in w.monitors : m.id = n.id => m = n
    /\ \A r \in w.results : r.status \in Statuses /\ r.at \in 1 .. 100
    /\ \A h \in w.channels : h.id \in 1 .. 100 /\ h.kind \in Kinds
    /\ \A g, h \in w.channels : g.id = h.id => g = h
    /\ w.incidents \subseteq [id : 1 .. 100, monitor : {m.id : m \in w.monitors}, open : BOOLEAN]
    /\ \A i, j \in w.incidents : i.id = j.id => i = j
    /\ \A v \in w.workspaces :
         /\ v.id \in 1 .. 100
         /\ {m \in w.members : m.workspace = v.id /\ m.role = "owner"} = {OwnerRow(v)}
    /\ \A u, v \in w.workspaces : u.id = v.id \/ u.slug = v.slug => u = v
    /\ \A m \in w.members : \E v \in w.workspaces : v.id = m.workspace

ASSUME ScenariosAssumption ==
    \A s \in Scenarios :
        /\ PossibleWorld(s.world) /\ s.faults \in Nat
        /\ s.scripts \in [Clients -> Seq(Requests)]

(* What the types of the bodies ask once the middleware has passed: numbers *)
(* and texts, and no missing name or interval of a new monitor.             *)
ASSUME RequestsAssumption ==
    \A q \in Requests : Authenticated(q.token) /\ q.op \in {"create_monitor", "patch_monitor"} =>
        /\ \A f \in DOMAIN q.body \cap (Counts \cup {"tcp_port"}) : q.body[f] \in Int
        /\ \A f \in DOMAIN q.body \cap {"url", "tcp_host"} : q.body[f] # Null
        /\ q.op = "create_monitor" => {"name", "interval_secs"} \subseteq DOMAIN q.body

Init == \E s \in Scenarios : InitWith(s.world, s.scripts, s.faults)

Spec == Init /\ [][Next]_vars

(* A handler's awaits end; a client that has sent a request awaits its      *)
(* answer and sends the next.                                               *)
FairSpec == Spec /\ \A c \in Clients : WF_vars(Receive(c) \/ Handle(c))

-----------------------------------------------------------------------------
Places ==
    {"idle", "authorize", "exists", "resolve", "act", "update",
     "insert_workspace", "insert_member", "select", "commit"}

TypeOK ==
    /\ \A m \in monitors : m.id \in 1 .. uuids /\ DOMAIN m = Columns /\ Stored(m)
    /\ \A m, n \in monitors : m.id = n.id => m = n
    /\ \A r \in results : r.status \in Statuses
    /\ \A h \in channels : h.kind \in Kinds
    /\ uuids \in Nat /\ faults \in Nat
    /\ pc \in [Clients -> Places]
    /\ todo \in [Clients -> Seq(Requests)] /\ req \in [Clients -> Requests \cup {NoRequest}]
    /\ sealed \in [Clients -> SUBSET (1 .. uuids)]

(* A workspace and its owner's membership appear together or not at all,   *)
(* however create_workspace fails or is cut off between its statements;    *)
(* nobody else owns it.                                                    *)
WorkspacesHaveTheirOwner ==
    /\ \A w \in workspaces :
         {m \in members : m.workspace = w.id /\ m.role = "owner"} = {OwnerRow(w)}
    /\ \A m \in members : \E w \in workspaces : w.id = m.workspace

(* Of concurrent create_workspace requests for one slug one at most        *)
(* succeeds, and one that was refused can be repeated with success only    *)
(* if nobody has it: slugs are unique among committed and open rows.       *)
SlugsAreUnique ==
    \A v, w \in workspaces \cup UNION {staged[c].workspaces : c \in Clients} :
        v.slug = w.slug => v = w

(* A 201 is durable: the workspace it tells of exists, with its owner, and *)
(* so does the monitor, in the workspace that was asked.                   *)
AcknowledgedIsStored ==
    \A c \in Clients : \A i \in DOMAIN answers[c] :
        LET q == answers[c][i].request
            a == answers[c][i].answer
        IN  a.status = 201 =>
              /\ q.op = "create_workspace" =>
                   \A w \in a.rows : w \in workspaces /\ OwnerRow(w) \in members
              /\ q.op = "create_monitor" =>
                   \A n \in a.rows : \E m \in monitors :
                       m.id = n.id /\ m.workspace = q.workspace

Member(user, workspace) == \E m \in members : m.user = user /\ m.workspace = workspace
Owner(user, workspace) == [workspace |-> workspace, user |-> user, role |-> "owner"] \in members

(* The workspace a row of an answer belongs to *)
Home(q, row) ==
    CASE q.op \in {"list_workspaces", "create_workspace"} -> row.id
      [] q.op \in {"list_check_results", "list_open_incidents", "create_check_result"} ->
           (CHOOSE m \in monitors : m.id = row.monitor).workspace
      [] OTHER -> row.workspace

(* Isolation of reads: no answer holds a row of a workspace whose member   *)
(* the asking user is not, by whichever id and path it was asked.          *)
RowsStayInTheirWorkspace ==
    \A c \in Clients : \A i \in DOMAIN answers[c] :
        LET q == answers[c][i].request
        IN  q.op # "me" =>
              \A row \in answers[c][i].answer.rows : Member(q.token.sub, Home(q, row))

(* The rows of one table that a step inserts, removes or changes *)
Touched(old, new) == (old \ new) \cup (new \ old)

(* The row is of the workspace that c's request names in its path *)
Named(c, row) == row.workspace = req[c].workspace

WritesBelong(c) ==
    /\ \A m \in Touched(monitors, monitors') : Named(c, m) /\ Member(User(c), m.workspace)
    /\ \A m \in monitors : m.id \in Archived' \ Archived => Owner(User(c), m.workspace)
    /\ \A h \in Touched(channels, channels') : Named(c, h) /\ Owner(User(c), h.workspace)
    /\ \A r \in results' \ results : \E m \in monitors :
         m.id = r.monitor /\ Named(c, m) /\ Member(User(c), m.workspace)

(* Isolation of writes: a step that touches a monitor or stores a result of *)
(* it is a member's, one that archives it or touches a channel is an        *)
(* owner's, and all are of the workspace the request named: a user of two   *)
(* workspaces reaches the rows of neither by the path of the other.         *)
WritersBelong ==
    [][\A c \in Clients : pc'[c] # pc[c] => WritesBelong(c)]_vars

(* Once archived a monitor stays archived: what the design of the monitor  *)
(* endpoints says.  A patch that read the status before the archive and    *)
(* updates after it makes the monitor active or paused again.              *)
ArchivedIsTerminal ==
    [][Archived \subseteq Archived']_vars

(* What the code does keep: only a patch that overlaps the archive can     *)
(* revive the monitor.  One received after it, however late it runs, finds *)
(* the status and is refused.                                              *)
RevivedOnlyByOverlap ==
    [][\A c \in Clients : \A id \in sealed[c] :
         (pc'[c] # pc[c] /\ pc[c] # "idle") => id \in Archived']_vars

(* The routes of all clients together write in single steps what a request *)
(* under way asks for and its user has the right to: that a right is looked*)
(* up before the write that needs it, a monitor before its result is stored*)
(* and a slug before its workspace is committed makes no difference that a *)
(* row could show.                                                         *)
Asking(c) == [user |-> User(c), op |-> req[c].op, workspace |-> req[c].workspace, id |-> req[c].id]

Tenants == INSTANCE Tenancy
    WITH asked <- {Asking(c) : c \in {d \in Clients : ~At(d, "idle")}}

ImplementsTenancy == Tenants!Spec

(* Every request sent is answered, or lost to a fault: handlers of several *)
(* clients never wait for each other for ever, slugs in common or not.     *)
EveryRequestEnds ==
    \A c \in Clients : (todo[c] # << >> \/ pc[c] # "idle") ~> (todo[c] = << >> /\ pc[c] = "idle")
=============================================================================
