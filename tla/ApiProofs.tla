----------------------------- MODULE ApiProofs -----------------------------
(***************************************************************************)
(* Theorems about Api for any number of clients, any requests, first rows  *)
(* and faults.                                                             *)
(***************************************************************************)
EXTENDS Api, FiniteSetTheorems, TLAPS

Own == {"me", "list_workspaces", "create_workspace"}
OfMonitors == {"list_check_results", "list_open_incidents", "create_check_result"}

(* Member and OwnerRow, of any rows of workspace_members *)
MemberIn(user, workspace, rows) == \E m \in rows : m.user = user /\ m.workspace = workspace

(* A row of an answer is of a workspace the asking user is a member of.    *)
Housed(q, row, mons, mems) ==
    IF q.op \in {"list_workspaces", "create_workspace"} THEN MemberIn(q.token.sub, row.id, mems)
    ELSE IF q.op \in OfMonitors
           THEN \E m \in mons : m.id = row.monitor /\ MemberIn(q.token.sub, m.workspace, mems)
    ELSE MemberIn(q.token.sub, row.workspace, mems)

(* What a 201 tells of is in the tables. *)
Kept(q, a, spaces, mons, mems) ==
    a.status = 201 =>
      /\ q.op = "create_workspace" => \A w \in a.rows : w \in spaces /\ OwnerRow(w) \in mems
      /\ q.op = "create_monitor" => \A n \in a.rows : \E m \in mons :
           m.id = n.id /\ m.workspace = q.workspace

Good(q, a, spaces, mons, mems) ==
    /\ q.op # "me" => \A row \in a.rows : Housed(q, row, mons, mems)
    /\ Kept(q, a, spaces, mons, mems)

AllGood(given, spaces, mons, mems) ==
    \A c \in Clients : \A i \in DOMAIN given[c] :
        Good(given[c][i].request, given[c][i].answer, spaces, mons, mems)

Sequences(given) == \E S : given \in [Clients -> Seq(S)]

Spaces == workspaces \cup UNION {staged[c].workspaces : c \in Clients}

(* What an open transaction has inserted is nobody else's. *)
StagedApart ==
    \A c \in Clients :
        /\ staged[c].workspaces \cap workspaces = {}
        /\ \A d \in Clients \ {c} : staged[c].workspaces \cap staged[d].workspaces = {}

SpacesApart ==
    /\ \A w \in Spaces : w.id \in 1 .. uuids
    /\ \A v, w \in Spaces : v.id = w.id => v = w
    /\ StagedApart

StagedByClient == staged = [c \in Clients |-> staged[c]]

(* What a patch or another request found archived when it came is archived *)
(* still, but for those that a patch has revived since.                    *)
SealedHold == \A c \in Clients : pc[c] # "idle" => sealed[c] \subseteq Archived

(* How far create_workspace's transaction is *)
StagedAt(c) ==
    CASE pc[c] = "insert_member" ->
           \E w : staged[c] = [workspaces |-> {w}, members |-> {}] /\ w.owner = User(c)
      [] pc[c] \in {"select", "commit"} ->
           \E w : staged[c] = [workspaces |-> {w}, members |-> {OwnerRow(w)}] /\ w.owner = User(c)
      [] OTHER -> staged[c] = Nothing

(* What the request at its place has established *)
Request(c) ==
    /\ StagedAt(c)
    /\ pc[c] # "idle" => req[c] \in Requests /\ Authenticated(req[c].token)
    /\ pc[c] \in {"authorize", "exists", "resolve"} => req[c].op \notin Own
    /\ (pc[c] \in {"resolve", "act", "update"} /\ req[c].op \notin Own) =>
         /\ MemberIn(User(c), req[c].workspace, members)
         /\ req[c].op \in OwnersOnly => Owner(User(c), req[c].workspace)
    /\ (pc[c] = "act" /\ req[c].op \in NeedsMonitor) => Found(c) # {}
    /\ pc[c] = "update" =>
         /\ req[c].op = "patch_monitor" /\ ValidBody(req[c])
         /\ Found(c) # {} /\ req[c].id \notin sealed[c]
    /\ pc[c] \in {"insert_workspace", "insert_member", "select", "commit"} =>
         req[c].op = "create_workspace"

IInv ==
    /\ TypeOK /\ StagedByClient /\ Sequences(answers)
    /\ SpacesApart /\ WorkspacesHaveTheirOwner /\ SlugsAreUnique
    /\ AllGood(answers, workspaces, monitors, members)
    /\ SealedHold
    /\ \A c \in Clients : Request(c)

-----------------------------------------------------------------------------
(* The tables only grow, but for what a row of monitors says besides its   *)
(* id and workspace.                                                       *)
Grows ==
    /\ workspaces \subseteq workspaces' /\ members \subseteq members'
    /\ \A m \in monitors : \E n \in monitors' : n.id = m.id /\ n.workspace = m.workspace

LEMMA GoodStays ==
    ASSUME NEW q, NEW a, Grows, Good(q, a, workspaces, monitors, members)
    PROVE  Good(q, a, workspaces', monitors', members')
<1>1. Kept(q, a, workspaces', monitors', members')
    BY DEF Good, Kept, Grows
<1>2. ASSUME q.op # "me", NEW row \in a.rows
      PROVE  Housed(q, row, monitors', members')
  <2>1. Housed(q, row, monitors, members)
      BY <1>2 DEF Good
  <2>2. \A user, workspace : MemberIn(user, workspace, members) => MemberIn(user, workspace, members')
      BY DEF MemberIn, Grows
  <2> QED BY <2>1, <2>2 DEF Housed, Grows
<1> QED BY <1>1, <1>2 DEF Good

(* One more answer, which is good, and those before it stay so. *)
LEMMA AnsweredKeeps ==
    ASSUME IInv, Grows, NEW c \in Clients, NEW q, NEW a,
           answers' = [answers EXCEPT ![c] = Append(@, [request |-> q, answer |-> a])],
           Good(q, a, workspaces', monitors', members')
    PROVE  Sequences(answers') /\ AllGood(answers', workspaces', monitors', members')
<1> DEFINE entry == [request |-> q, answer |-> a]
<1>1. PICK S : answers \in [Clients -> Seq(S)]
    BY DEF IInv, Sequences
<1>0. entry.request = q /\ entry.answer = a
    OBVIOUS
<1> DEFINE T == S \cup {entry}
<1> HIDE DEF entry
<1>2. \A d \in Clients : answers[d] \in Seq(T)
  <2>1. \A s \in Seq(S) : s \in Seq(T)
      OBVIOUS
  <2> QED BY <1>1, <2>1
<1>3. Append(answers[c], entry) \in Seq(T)
    BY <1>2
<1>4. answers' = [answers EXCEPT ![c] = Append(answers[c], entry)]
    BY DEF entry
<1>5. answers' \in [Clients -> Seq(T)]
    BY <1>1, <1>2, <1>3, <1>4
<1>6. ASSUME NEW d \in Clients, NEW i \in DOMAIN answers'[d]
      PROVE  Good(answers'[d][i].request, answers'[d][i].answer, workspaces', monitors', members')
  <2>1. (i \in DOMAIN answers[d] /\ answers'[d][i] = answers[d][i]) \/ answers'[d][i] = entry
    <3>1. answers[c] \in Seq(T)
        BY <1>2
    <3> HIDE DEF T
    <3>2. CASE d = c
      <4>1. answers'[d] = Append(answers[c], entry)
          BY <1>1, <1>4, <3>2
      <4> QED BY <3>1, <3>2, <4>1, <1>6, <1>3
    <3>3. CASE d # c
      <4>1. answers'[d] = answers[d]
          BY <1>1, <1>4, <3>3
      <4> QED BY <4>1, <1>6
    <3> QED BY <3>2, <3>3
  <2>2. CASE answers'[d][i] = entry
      BY <1>0, <2>2
  <2>3. CASE i \in DOMAIN answers[d] /\ answers'[d][i] = answers[d][i]
      BY <2>3, GoodStays DEF IInv, AllGood
  <2> QED BY <2>1, <2>2, <2>3
<1> QED BY <1>5, <1>6 DEF Sequences, AllGood

LEMMA SameAnswersKeep ==
    ASSUME IInv, Grows, answers' = answers
    PROVE  Sequences(answers') /\ AllGood(answers', workspaces', monitors', members')
BY GoodStays DEF IInv, AllGood

(* An answer that tells of no row *)
Refusal(a) == a.rows = {} /\ a.status # 201

LEMMA Refusals ==
    /\ Refusal(NoAnswer) /\ Refusal(AuthError.InvalidToken)
    /\ Refusal(AuthzError.Forbidden) /\ Refusal(AuthzError.NotFound) /\ Refusal(AuthzError.Internal)
    /\ Refusal(MonitorError.NotFound) /\ Refusal(MonitorError.InvalidInput)
    /\ Refusal(CheckResultError.NotFound) /\ Refusal(CheckResultError.InvalidInput)
    /\ Refusal(NotificationChannelError.NotFound) /\ Refusal(NotificationChannelError.InvalidInput)
    /\ Refusal(WorkspaceError.SlugTaken) /\ Refusal(WorkspaceError.InvalidInput)
    /\ Refusal(Success(204, {}))
BY DEF Refusal, NoAnswer, Failure, AuthError, AuthzError, MonitorError, CheckResultError,
       NotificationChannelError, WorkspaceError, Success

LEMMA RefusalsAreGood ==
    ASSUME NEW a, Refusal(a), NEW q, NEW spaces, NEW mons, NEW mems
    PROVE  Good(q, a, spaces, mons, mems)
BY DEF Refusal, Good, Kept

(* The request is answered, well. *)
Replies(c) ==
    \E a : Answer(c, a) /\ Good(req[c], a, workspaces', monitors', members')

LEMMA RepliesKeep ==
    ASSUME IInv, Grows, NEW c \in Clients, Replies(c)
    PROVE  /\ Sequences(answers') /\ AllGood(answers', workspaces', monitors', members')
           /\ pc' \in [Clients -> Places] /\ pc'[c] = "idle"
           /\ \A d \in Clients \ {c} : pc'[d] = pc[d]
<1>1. PICK a : Answer(c, a) /\ Good(req[c], a, workspaces', monitors', members')
    BY DEF Replies
<1>2. Sequences(answers') /\ AllGood(answers', workspaces', monitors', members')
    BY <1>1, AnsweredKeeps DEF Answer
<1> QED BY <1>1, <1>2 DEF Answer, IInv, TypeOK, Places

LEMMA WriteReplies ==
    ASSUME IInv, NEW c \in Clients, NEW a, AnswerWrite(c, a),
           Good(req[c], a, workspaces', monitors', members')
    PROVE  Replies(c) /\ faults' \in Nat
<1>1. CASE Answer(c, a) /\ UNCHANGED faults
    BY <1>1 DEF Replies, IInv, TypeOK
<1>2. CASE /\ faults > 0 /\ faults' = faults - 1
           /\ \E lost \in {NoAnswer, AuthzError.Internal} : Answer(c, lost)
  <2>1. PICK lost \in {NoAnswer, AuthzError.Internal} : Answer(c, lost)
      BY <1>2
  <2>2. Good(req[c], lost, workspaces', monitors', members')
      BY Refusals, RefusalsAreGood
  <2>3. faults' \in Nat
      BY <1>2 DEF IInv, TypeOK
  <2> QED BY <2>1, <2>2, <2>3 DEF Replies
<1> QED BY <1>1, <1>2 DEF AnswerWrite

LEMMA RefusalReplies ==
    ASSUME NEW c \in Clients, NEW a, Refusal(a), Answer(c, a)
    PROVE  Replies(c)
BY RefusalsAreGood DEF Replies

-----------------------------------------------------------------------------
(* Init: what PossibleWorld asks is enough. *)
LEMMA InitIInv == Init => IInv
<1> SUFFICES ASSUME NEW s \in Scenarios, InitWith(s.world, s.scripts, s.faults)
             PROVE  IInv
    BY DEF Init
<1>1. PossibleWorld(s.world) /\ s.faults \in Nat /\ s.scripts \in [Clients -> Seq(Requests)]
    BY ScenariosAssumption
<1>2. /\ workspaces = s.world.workspaces /\ members = s.world.members
      /\ monitors = s.world.monitors /\ channels = s.world.channels
      /\ results = s.world.results
      /\ uuids = 100 /\ todo = s.scripts /\ faults = s.faults
      /\ pc = [c \in Clients |-> "idle"] /\ req = [c \in Clients |-> NoRequest]
      /\ staged = [c \in Clients |-> Nothing]
      /\ answers = [c \in Clients |-> << >>]
      /\ sealed = [c \in Clients |-> {}]
    BY DEF InitWith
<1>3. TypeOK
  <2>1. /\ \A m \in monitors : m.id \in 1 .. uuids /\ DOMAIN m = Columns /\ Stored(m)
        /\ \A m, n \in monitors : m.id = n.id => m = n
        /\ \A r \in results : r.status \in Statuses
        /\ \A h \in channels : h.kind \in Kinds
      BY <1>1, <1>2 DEF PossibleWorld
  <2> HIDE DEF PossibleWorld
  <2>2. pc \in [Clients -> Places] /\ sealed \in [Clients -> SUBSET (1 .. uuids)]
      BY <1>2 DEF Places
  <2>3. todo \in [Clients -> Seq(Requests)] /\ req \in [Clients -> Requests \cup {NoRequest}]
      BY <1>1, <1>2
  <2> QED BY <1>1, <1>2, <2>1, <2>2, <2>3 DEF TypeOK
<1>4. Spaces = workspaces
    BY <1>2 DEF Spaces, Nothing
<1>5. /\ \A v \in workspaces :
           /\ v.id \in 1 .. 100
           /\ {m \in members : m.workspace = v.id /\ m.role = "owner"} = {OwnerRow(v)}
      /\ \A u, v \in workspaces : u.id = v.id \/ u.slug = v.slug => u = v
      /\ \A m \in members : \E v \in workspaces : v.id = m.workspace
    BY <1>1, <1>2 DEF PossibleWorld
<1>6. SpacesApart /\ WorkspacesHaveTheirOwner /\ SlugsAreUnique
    BY <1>2, <1>4, <1>5 DEF SpacesApart, StagedApart, Nothing, WorkspacesHaveTheirOwner,
       SlugsAreUnique, Spaces
<1>7. StagedByClient /\ SealedHold
    BY <1>2 DEF StagedByClient, SealedHold
<1>8. Sequences(answers)
  <2>1. answers \in [Clients -> Seq({})]
      BY <1>2
  <2> QED BY <2>1 DEF Sequences
<1>9. AllGood(answers, workspaces, monitors, members)
  <2>1. \A c \in Clients : DOMAIN answers[c] = {}
      BY <1>2
  <2> QED BY <2>1 DEF AllGood
<1>10. \A c \in Clients : Request(c)
    BY <1>2 DEF Request, StagedAt
<1> QED BY <1>3, <1>6, <1>7, <1>8, <1>9, <1>10 DEF IInv

-----------------------------------------------------------------------------
(* Only the client that acts moves. *)
OthersStand(c) ==
    \A d \in Clients \ {c} :
        pc'[d] = pc[d] /\ req'[d] = req[d] /\ staged'[d] = staged[d] /\ sealed'[d] \subseteq sealed[d]

LEMMA OthersRequest ==
    ASSUME IInv, NEW c \in Clients, NEW d \in Clients \ {c}, OthersStand(c), Grows
    PROVE  Request(d)'
<1>1. /\ Request(d) /\ pc'[d] = pc[d] /\ req'[d] = req[d] /\ staged'[d] = staged[d]
      /\ sealed'[d] \subseteq sealed[d]
    BY DEF IInv, OthersStand
<1>2. \A user, workspace : MemberIn(user, workspace, members) => MemberIn(user, workspace, members')
    BY DEF MemberIn, Grows
<1>3. \A user, workspace : Owner(user, workspace) => Owner(user, workspace)'
    BY DEF Owner, Grows
<1>4. Found(d) # {} => Found(d)' # {}
    BY <1>1 DEF Found, Grows
<1>5. StagedAt(d)'
    BY <1>1 DEF Request, StagedAt, User
<1> QED BY <1>1, <1>2, <1>3, <1>4, <1>5 DEF Request, User

LEMMA StepKeeps ==
    ASSUME IInv, NEW c \in Clients, OthersStand(c), Grows, TypeOK', StagedByClient',
           Sequences(answers'), AllGood(answers', workspaces', monitors', members'),
           SpacesApart', WorkspacesHaveTheirOwner', SlugsAreUnique', SealedHold', Request(c)'
    PROVE  IInv'
<1>1. \A d \in Clients : Request(d)'
    BY OthersRequest
<1> QED BY <1>1 DEF IInv, AllGood, Sequences

(* A step that inserts no workspace *)
LEMMA SpacesKeep ==
    ASSUME IInv, UNCHANGED <<workspaces, members>>, uuids' \in Nat, uuids' >= uuids,
           NEW c \in Clients,
           staged' = staged \/ staged' = [staged EXCEPT ![c] = Nothing]
    PROVE  /\ SpacesApart' /\ WorkspacesHaveTheirOwner' /\ SlugsAreUnique' /\ StagedByClient'
           /\ \A d \in Clients \ {c} : staged'[d] = staged[d]
<1>1. \A d \in Clients : staged'[d] = staged[d] \/ (d = c /\ staged'[d] = Nothing)
    BY DEF IInv, StagedByClient
<1>2. Spaces' \subseteq Spaces
    BY <1>1 DEF Spaces, Nothing
<1>3. WorkspacesHaveTheirOwner'
    BY DEF IInv, WorkspacesHaveTheirOwner
<1>4. uuids \in Nat
    BY DEF IInv, TypeOK
<1>5. SpacesApart'
  <2>1. StagedApart'
      BY <1>1 DEF IInv, SpacesApart, StagedApart, Nothing
  <2> QED BY <1>2, <1>4, <2>1 DEF IInv, SpacesApart
<1>6. SlugsAreUnique'
    BY <1>2 DEF IInv, SlugsAreUnique, Spaces
<1>7. StagedByClient' /\ \A d \in Clients \ {c} : staged'[d] = staged[d]
    BY <1>1 DEF IInv, StagedByClient
<1> QED BY <1>3, <1>5, <1>6, <1>7

(* A step that leaves the tables alone *)
LEMMA QuietKeeps ==
    ASSUME IInv, NEW c \in Clients, UNCHANGED <<tables, uuids>>, faults' \in Nat,
           staged' = staged \/ staged' = [staged EXCEPT ![c] = Nothing],
           pc' \in [Clients -> Places], \A d \in Clients \ {c} : pc'[d] = pc[d],
           todo' \in [Clients -> Seq(Requests)],
           req' \in [Clients -> Requests \cup {NoRequest}], \A d \in Clients \ {c} : req'[d] = req[d],
           \/ pc[c] # "idle" /\ sealed' = sealed
           \/ sealed' = [sealed EXCEPT ![c] = Archived],
           Sequences(answers'), AllGood(answers', workspaces', monitors', members'), Request(c)'
    PROVE  IInv'
<1>1. uuids' \in Nat /\ uuids' >= uuids /\ UNCHANGED <<workspaces, members, monitors>>
    BY DEF IInv, TypeOK, tables
<1>2. Grows
    BY <1>1 DEF Grows
<1>3. Archived \in SUBSET (1 .. uuids) /\ Archived' = Archived
    BY <1>1 DEF Archived, IInv, TypeOK
<1>4. TypeOK'
    BY <1>3 DEF IInv, TypeOK, tables
<1>5. SealedHold'
    BY <1>3 DEF IInv, TypeOK, SealedHold
<1>6. /\ SpacesApart' /\ WorkspacesHaveTheirOwner' /\ SlugsAreUnique' /\ StagedByClient'
      /\ \A d \in Clients \ {c} : staged'[d] = staged[d]
    BY <1>1, SpacesKeep
<1>7. OthersStand(c)
    BY <1>6 DEF OthersStand, IInv, TypeOK
<1> QED BY <1>2, <1>4, <1>5, <1>6, <1>7, StepKeeps

(* A read that ends the request *)
LEMMA ReadKeeps ==
    ASSUME IInv, NEW c \in Clients, pc[c] # "idle", NEW a, Answer(c, a), ReadOnly,
           staged[c] = Nothing, Good(req[c], a, workspaces, monitors, members)
    PROVE  IInv'
<1>1. UNCHANGED <<workspaces, members, monitors>> /\ faults' \in Nat
    BY DEF ReadOnly, tables, IInv, TypeOK
<1>2. Grows /\ Replies(c)
    BY <1>1 DEF Grows, Replies
<1>3. /\ Sequences(answers') /\ AllGood(answers', workspaces', monitors', members')
      /\ pc' \in [Clients -> Places] /\ pc'[c] = "idle"
      /\ \A d \in Clients \ {c} : pc'[d] = pc[d]
    BY <1>2, RepliesKeep
<1>4. Request(c)'
    BY <1>3 DEF Request, StagedAt, ReadOnly
<1>5. /\ todo' \in [Clients -> Seq(Requests)] /\ req' \in [Clients -> Requests \cup {NoRequest}]
      /\ req' = req /\ staged' = staged /\ sealed' = sealed /\ UNCHANGED <<tables, uuids>>
    BY DEF ReadOnly, IInv, TypeOK
<1> QED BY <1>1, <1>3, <1>4, <1>5, QuietKeeps

LEMMA RefusalKeeps ==
    ASSUME IInv, NEW c \in Clients, pc[c] # "idle", NEW a, Refusal(a), Answer(c, a), ReadOnly,
           staged[c] = Nothing
    PROVE  IInv'
BY RefusalsAreGood, ReadKeeps

(* A read after which the request goes on *)
LEMMA GotoKeeps ==
    ASSUME IInv, NEW c \in Clients, NEW p \in Places, pc[c] # "idle",
           pc' = [pc EXCEPT ![c] = p], UNCHANGED answers, ReadOnly, Request(c)'
    PROVE  IInv'
<1>1. UNCHANGED <<workspaces, members, monitors>> /\ faults' \in Nat
    BY DEF ReadOnly, tables, IInv, TypeOK
<1>2. Sequences(answers') /\ AllGood(answers', workspaces', monitors', members')
    BY <1>1, SameAnswersKeep DEF Grows
<1>3. pc' \in [Clients -> Places] /\ \A d \in Clients \ {c} : pc'[d] = pc[d]
    BY DEF IInv, TypeOK
<1>4. /\ todo' \in [Clients -> Seq(Requests)] /\ req' \in [Clients -> Requests \cup {NoRequest}]
      /\ req' = req /\ staged' = staged /\ sealed' = sealed /\ UNCHANGED <<tables, uuids>>
    BY DEF ReadOnly, IInv, TypeOK
<1> QED BY <1>1, <1>2, <1>3, <1>4, QuietKeeps

-----------------------------------------------------------------------------
LEMMA ReceiveKeeps ==
    ASSUME IInv, NEW c \in Clients, Receive(c)
    PROVE  IInv'
<1> DEFINE q == Head(todo[c])
<1>1. todo[c] \in Seq(Requests) /\ todo[c] # << >> /\ pc[c] = "idle"
    BY DEF IInv, TypeOK, Receive, At
<1>2. q \in Requests /\ Tail(todo[c]) \in Seq(Requests)
    BY <1>1
<1>3. /\ req' = [req EXCEPT ![c] = q] /\ todo' = [todo EXCEPT ![c] = Tail(todo[c])]
      /\ sealed' = [sealed EXCEPT ![c] = Archived]
      /\ UNCHANGED <<tables, uuids, staged, faults>>
    BY DEF Receive
<1>4. \/ Authenticated(q.token) /\ pc' = [pc EXCEPT ![c] = Steps(q.op)] /\ UNCHANGED answers
      \/ /\ answers' = [answers EXCEPT
              ![c] = Append(@, [request |-> q, answer |-> AuthError.InvalidToken])]
         /\ UNCHANGED pc
    BY DEF Receive
<1> HIDE DEF q
<1>5. Steps(q.op) \in {"act", "authorize"} /\ (Steps(q.op) = "act" <=> q.op \in Own)
    BY DEF Steps, Own
<1>6. Grows
    BY <1>3 DEF Grows, tables
<1>7. Sequences(answers') /\ AllGood(answers', workspaces', monitors', members')
  <2>1. Good(q, AuthError.InvalidToken, workspaces', monitors', members')
      BY Refusals, RefusalsAreGood
  <2> QED BY <1>4, <1>6, <2>1, AnsweredKeeps, SameAnswersKeep
<1>8. /\ req' \in [Clients -> Requests \cup {NoRequest}] /\ req'[c] = q
      /\ \A d \in Clients \ {c} : req'[d] = req[d]
      /\ todo' \in [Clients -> Seq(Requests)] /\ faults' \in Nat
    BY <1>2, <1>3 DEF IInv, TypeOK
<1>9. /\ pc' \in [Clients -> Places] /\ \A d \in Clients \ {c} : pc'[d] = pc[d]
      /\ pc'[c] = "idle" \/ (pc'[c] = Steps(q.op) /\ Authenticated(q.token))
    BY <1>1, <1>4, <1>5 DEF IInv, TypeOK, Places
<1>10. staged[c] = Nothing
    BY <1>1 DEF IInv, Request, StagedAt
<1>11. Request(c)'
  <2>1. StagedAt(c)'
      BY <1>3, <1>5, <1>9, <1>10 DEF StagedAt
  <2>2. NeedsMonitor \cap Own = {}
      BY DEF NeedsMonitor, Own
  <2> QED BY <1>2, <1>5, <1>8, <1>9, <2>1, <2>2 DEF Request
<1> QED BY <1>3, <1>7, <1>8, <1>9, <1>11, QuietKeeps

(* What the places of a request tell apart *)
LEMMA AtPlace ==
    ASSUME IInv, NEW c \in Clients, pc[c] \in {"authorize", "exists", "resolve", "act", "update",
                                               "insert_workspace"}
    PROVE  /\ staged[c] = Nothing /\ req[c] \in Requests /\ pc[c] # "idle"
           /\ Authenticated(req[c].token)
BY DEF IInv, Request, StagedAt

(* Who owns a workspace has the one row that its creation gave. *)
LEMMA OwnersAre ==
    ASSUME IInv, NEW m \in members, m.role = "owner"
    PROVE  m = [workspace |-> m.workspace, user |-> m.user, role |-> "owner"]
<1>1. PICK w \in workspaces : w.id = m.workspace
    BY DEF IInv, WorkspacesHaveTheirOwner
<1>2. m \in {OwnerRow(w)}
    BY <1>1 DEF IInv, WorkspacesHaveTheirOwner
<1> QED BY <1>2 DEF OwnerRow

LEMMA AuthorizeKeeps ==
    ASSUME IInv, NEW c \in Clients, Authorize(c)
    PROVE  IInv'
<1>1. pc[c] = "authorize" /\ ReadOnly
    BY DEF Authorize, At
<1>2. staged[c] = Nothing /\ req[c] \in Requests /\ Authenticated(req[c].token) /\ req[c].op \notin Own
    BY <1>1, AtPlace DEF IInv, Request
<1> DEFINE member == check_membership(members, req[c].workspace, User(c))
           owner == check_owner(members, req[c].workspace, User(c))
           allowed == IF req[c].op \in OwnersOnly THEN owner ELSE member
           next == IF ~member THEN "exists" ELSE IF req[c].op \in NeedsMonitor THEN "resolve" ELSE "act"
<1>3. CASE member /\ ~allowed
  <2>1. Answer(c, AuthzError.Forbidden)
      BY <1>3 DEF Authorize
  <2> QED BY <1>1, <1>2, <2>1, Refusals, RefusalKeeps
<1>4. CASE ~(member /\ ~allowed)
  <2>1. pc' = [pc EXCEPT ![c] = next] /\ UNCHANGED answers
      BY <1>4 DEF Authorize, Goto
  <2>2. next \in {"exists", "resolve", "act"} /\ pc'[c] = next
      BY <2>1 DEF IInv, TypeOK
  <2>3. UNCHANGED <<req, staged, members, monitors>>
      BY <1>1 DEF ReadOnly, tables
  <2>4. next # "exists" => /\ MemberIn(User(c), req[c].workspace, members)
                           /\ req[c].op \in OwnersOnly => Owner(User(c), req[c].workspace)
    <3>1. member => MemberIn(User(c), req[c].workspace, members)
        BY DEF check_membership, RowsOf, MemberIn
    <3>2. owner => Owner(User(c), req[c].workspace)
        BY OwnersAre DEF check_owner, RowsOf, Owner
    <3> QED BY <1>4, <3>1, <3>2
  <2>5. next = "act" => req[c].op \notin NeedsMonitor
      OBVIOUS
  <2> HIDE DEF next
  <2>6. StagedAt(c)'
      BY <1>2, <2>2, <2>3 DEF StagedAt
  <2>7. Request(c)'
      BY <1>2, <2>2, <2>3, <2>4, <2>5, <2>6 DEF Request, User, Owner
  <2> QED BY <1>1, <2>1, <2>2, <2>7, GotoKeeps DEF Places
<1> QED BY <1>3, <1>4

LEMMA WorkspaceExistsKeeps ==
    ASSUME IInv, NEW c \in Clients, WorkspaceExists(c)
    PROVE  IInv'
<1>1. pc[c] = "exists" /\ ReadOnly
    BY DEF WorkspaceExists, At
<1>2. staged[c] = Nothing
    BY <1>1, AtPlace
<1>3. Answer(c, AuthzError.Forbidden) \/ Answer(c, AuthzError.NotFound)
    BY DEF WorkspaceExists
<1> QED BY <1>1, <1>2, <1>3, Refusals, RefusalKeeps

LEMMA ResolveKeeps ==
    ASSUME IInv, NEW c \in Clients, ResolveMonitor(c)
    PROVE  IInv'
<1>1. pc[c] = "resolve" /\ ReadOnly
    BY DEF ResolveMonitor, At
<1>2. staged[c] = Nothing /\ req[c].op \notin Own
    BY <1>1, AtPlace DEF IInv, Request
<1>3. CASE Found(c) = {}
  <2>1. Answer(c, CheckResultError.NotFound)
      BY <1>3 DEF ResolveMonitor
  <2> QED BY <1>1, <1>2, <2>1, Refusals, RefusalKeeps
<1>4. CASE Found(c) # {}
  <2>1. pc' = [pc EXCEPT ![c] = "act"] /\ UNCHANGED answers
      BY <1>4 DEF ResolveMonitor, Goto
  <2>2. UNCHANGED <<req, staged, members, monitors>> /\ pc'[c] = "act"
      BY <1>1, <2>1 DEF ReadOnly, tables, IInv, TypeOK
  <2>3. StagedAt(c)'
      BY <1>2, <2>2 DEF StagedAt
  <2>4. Found(c)' = Found(c)
      BY <2>2 DEF Found
  <2>5. Request(c)'
      BY <1>1, <1>4, <2>2, <2>3, <2>4 DEF IInv, Request, User, Owner
  <2> QED BY <1>1, <2>1, <2>5, GotoKeeps DEF Places
<1> QED BY <1>3, <1>4

-----------------------------------------------------------------------------
(* The handlers that only read: what each answers is good. *)
LEMMA AtAct ==
    ASSUME IInv, NEW c \in Clients, At(c, "act")
    PROVE  /\ pc[c] = "act" /\ pc[c] # "idle" /\ staged[c] = Nothing /\ req[c] \in Requests
           /\ Authenticated(req[c].token)
           /\ req[c].op \notin Own => MemberIn(User(c), req[c].workspace, members)
           /\ req[c].op \in OwnersOnly => Owner(User(c), req[c].workspace)
           /\ req[c].op \in NeedsMonitor => Found(c) # {}
<1>1. pc[c] = "act"
    BY DEF At
<1>2. req[c].op \in OwnersOnly => req[c].op \notin Own
    BY DEF OwnersOnly, Own
<1> QED BY <1>1, <1>2, AtPlace DEF IInv, Request

LEMMA MeKeeps ==
    ASSUME IInv, NEW c \in Clients, Me(c)
    PROVE  IInv'
<1>1. At(c, "act") /\ req[c].op = "me" /\ ReadOnly /\ Answer(c, Success(200, {[id |-> User(c)]}))
    BY DEF Me, Acts
<1>2. Good(req[c], Success(200, {[id |-> User(c)]}), workspaces, monitors, members)
    BY <1>1 DEF Good, Kept, Success
<1> QED BY <1>1, <1>2, AtAct, ReadKeeps

LEMMA ListWorkspacesKeeps ==
    ASSUME IInv, NEW c \in Clients, ListWorkspaces(c)
    PROVE  IInv'
<1> DEFINE a == Success(200, {w \in workspaces : check_membership(members, w.id, User(c))})
<1>1. At(c, "act") /\ req[c].op = "list_workspaces" /\ ReadOnly /\ Answer(c, a)
    BY DEF ListWorkspaces, Acts
<1>2. Good(req[c], a, workspaces, monitors, members)
    BY <1>1 DEF Good, Kept, Success, Housed, MemberIn, check_membership, RowsOf, User
<1> QED BY <1>1, <1>2, AtAct, ReadKeeps

(* A list whose rows are of the workspace the request names *)
LEMMA HomeRows ==
    ASSUME IInv, NEW c \in Clients, At(c, "act"), NEW rows,
           req[c].op \notin Own \cup OfMonitors, \A row \in rows : row.workspace = req[c].workspace
    PROVE  Good(req[c], Success(200, rows), workspaces, monitors, members)
<1>1. MemberIn(User(c), req[c].workspace, members)
    BY AtAct
<1>2. Kept(req[c], Success(200, rows), workspaces, monitors, members)
    BY DEF Kept, Success
<1>3. Success(200, rows).rows = rows
    BY DEF Success
<1> QED BY <1>1, <1>2, <1>3 DEF Good, Housed, Own, User

LEMMA ListMonitorsKeeps ==
    ASSUME IInv, NEW c \in Clients, ListMonitors(c)
    PROVE  IInv'
<1> DEFINE rows == {m \in monitors : /\ m.workspace = req[c].workspace
                                    /\ \/ Or(req[c].body, "include_archived", FALSE)
                                       \/ m.status # "archived"}
<1>1. At(c, "act") /\ req[c].op = "list_monitors" /\ ReadOnly /\ Answer(c, Success(200, rows))
    BY DEF ListMonitors, Acts
<1>2. \A row \in rows : row.workspace = req[c].workspace
    OBVIOUS
<1> HIDE DEF rows
<1>3. Good(req[c], Success(200, rows), workspaces, monitors, members)
    BY <1>1, <1>2, HomeRows DEF Own, OfMonitors
<1> QED BY <1>1, <1>3, AtAct, ReadKeeps

LEMMA GetMonitorKeeps ==
    ASSUME IInv, NEW c \in Clients, GetMonitor(c)
    PROVE  IInv'
<1>1. At(c, "act") /\ req[c].op = "get_monitor" /\ ReadOnly
    BY DEF GetMonitor, Acts
<1>2. CASE Answer(c, MonitorError.NotFound)
    BY <1>1, <1>2, AtAct, Refusals, RefusalKeeps
<1>3. CASE Answer(c, Success(200, Found(c)))
  <2>1. \A row \in Found(c) : row.workspace = req[c].workspace
      BY DEF Found
  <2>2. Good(req[c], Success(200, Found(c)), workspaces, monitors, members)
      BY <1>1, <2>1, HomeRows DEF Own, OfMonitors
  <2> QED BY <1>1, <1>3, <2>2, AtAct, ReadKeeps
<1> QED BY <1>2, <1>3 DEF GetMonitor

LEMMA ListChannelsKeeps ==
    ASSUME IInv, NEW c \in Clients, ListChannels(c)
    PROVE  IInv'
<1> DEFINE rows == {h \in channels : h.workspace = req[c].workspace}
<1>1. At(c, "act") /\ req[c].op = "list_channels" /\ ReadOnly /\ Answer(c, Success(200, rows))
    BY DEF ListChannels, Acts
<1>2. \A row \in rows : row.workspace = req[c].workspace
    OBVIOUS
<1> HIDE DEF rows
<1>3. Good(req[c], Success(200, rows), workspaces, monitors, members)
    BY <1>1, <1>2, HomeRows DEF Own, OfMonitors
<1> QED BY <1>1, <1>3, AtAct, ReadKeeps

(* A list whose rows are of a monitor of the workspace the request names *)
LEMMA MonitorRows ==
    ASSUME IInv, NEW c \in Clients, At(c, "act"), NEW rows, req[c].op \in OfMonitors,
           \A row \in rows : \E m \in monitors :
               m.id = row.monitor /\ m.workspace = req[c].workspace
    PROVE  Good(req[c], Success(200, rows), workspaces, monitors, members)
<1>1. MemberIn(User(c), req[c].workspace, members)
    BY AtAct DEF OfMonitors, Own
<1>2. Kept(req[c], Success(200, rows), workspaces, monitors, members)
    BY DEF Kept, Success
<1>3. Success(200, rows).rows = rows
    BY DEF Success
<1>4. req[c].op \notin {"list_workspaces", "create_workspace"}
    BY DEF OfMonitors
<1> QED BY <1>1, <1>2, <1>3, <1>4 DEF Good, Housed, User

LEMMA ListCheckResultsKeeps ==
    ASSUME IInv, NEW c \in Clients, ListCheckResults(c)
    PROVE  IInv'
<1> DEFINE rows == {r \in results : r.monitor = req[c].id}
<1>1. At(c, "act") /\ req[c].op = "list_check_results" /\ ReadOnly /\ Answer(c, Success(200, rows))
    BY DEF ListCheckResults, Acts
<1>2. Found(c) # {}
    BY <1>1, AtAct DEF NeedsMonitor
<1>3. \A row \in rows : \E m \in monitors :
          m.id = row.monitor /\ m.workspace = req[c].workspace
    BY <1>2 DEF Found
<1> HIDE DEF rows
<1>4. Good(req[c], Success(200, rows), workspaces, monitors, members)
    BY <1>1, <1>3, MonitorRows DEF OfMonitors
<1> QED BY <1>1, <1>4, AtAct, ReadKeeps

LEMMA ListOpenIncidentsKeeps ==
    ASSUME IInv, NEW c \in Clients, ListOpenIncidents(c)
    PROVE  IInv'
<1> DEFINE rows == {i \in incidents : /\ i.open
                                     /\ \E m \in monitors : /\ m.id = i.monitor
                                                            /\ m.workspace = req[c].workspace}
<1>1. At(c, "act") /\ req[c].op = "list_open_incidents" /\ ReadOnly /\ Answer(c, Success(200, rows))
    BY DEF ListOpenIncidents, Acts
<1>2. \A row \in rows : \E m \in monitors :
          m.id = row.monitor /\ m.workspace = req[c].workspace
    OBVIOUS
<1> HIDE DEF rows
<1>3. Good(req[c], Success(200, rows), workspaces, monitors, members)
    BY <1>1, <1>2, MonitorRows DEF OfMonitors
<1> QED BY <1>1, <1>3, AtAct, ReadKeeps

(* The status a patch reads is that of a monitor not archived when it came.*)
LEMMA PatchReadsKeeps ==
    ASSUME IInv, NEW c \in Clients, PatchReadsStatus(c)
    PROVE  IInv'
<1>1. At(c, "act") /\ req[c].op = "patch_monitor" /\ ReadOnly
    BY DEF PatchReadsStatus, Acts
<1>2. CASE Answer(c, MonitorError.InvalidInput) \/ Answer(c, MonitorError.NotFound)
    BY <1>1, <1>2, AtAct, Refusals, RefusalKeeps
<1>3. CASE /\ ValidBody(req[c]) /\ Found(c) # {} /\ \A m \in Found(c) : m.status # "archived"
           /\ Goto(c, "act", "update") /\ UNCHANGED answers
  <2>1. UNCHANGED <<req, staged, members, monitors, sealed>> /\ pc' = [pc EXCEPT ![c] = "update"]
        /\ pc'[c] = "update"
      BY <1>1, <1>3 DEF ReadOnly, tables, IInv, TypeOK, Goto
  <2>2. StagedAt(c)'
      BY <1>1, <2>1, AtAct DEF StagedAt
  <2>3. Found(c)' = Found(c)
      BY <2>1 DEF Found
  <2>4. req[c].id \notin sealed[c]
    <3>1. sealed[c] \subseteq Archived
        BY <1>1, AtAct DEF IInv, SealedHold
    <3>2. PICK m \in monitors : m.id = req[c].id /\ m.status # "archived"
        BY <1>3 DEF Found
    <3>3. req[c].id \notin Archived
        BY <3>2 DEF Archived, IInv, TypeOK
    <3> QED BY <3>1, <3>3
  <2>5. Request(c)'
    <3>1. ValidBody(req'[c]) /\ req'[c].op = "patch_monitor" /\ req'[c] \in Requests
          /\ Authenticated(req'[c].token) /\ req'[c].id \notin sealed'[c] /\ Found(c)' # {}
        BY <1>1, <1>3, <2>1, <2>3, <2>4, AtAct
    <3>2. MemberIn(User(c)', req'[c].workspace, members') /\ req'[c].op \notin OwnersOnly
        BY <1>1, <2>1, AtAct DEF Own, OwnersOnly, User
    <3> QED BY <2>1, <2>2, <3>1, <3>2 DEF Request
  <2> QED BY <1>1, <1>3, <2>1, <2>5, AtAct, GotoKeeps DEF Places
<1> QED BY <1>2, <1>3 DEF PatchReadsStatus

LEMMA BeginKeeps ==
    ASSUME IInv, NEW c \in Clients, BeginWorkspace(c)
    PROVE  IInv'
<1>1. At(c, "act") /\ req[c].op = "create_workspace" /\ ReadOnly
    BY DEF BeginWorkspace, Acts
<1>2. CASE Answer(c, WorkspaceError.InvalidInput)
    BY <1>1, <1>2, AtAct, Refusals, RefusalKeeps
<1>3. CASE Goto(c, "act", "insert_workspace") /\ UNCHANGED answers
  <2>1. UNCHANGED <<req, staged>> /\ pc' = [pc EXCEPT ![c] = "insert_workspace"]
        /\ pc'[c] = "insert_workspace"
      BY <1>1, <1>3 DEF ReadOnly, IInv, TypeOK, Goto
  <2>2. StagedAt(c)'
      BY <1>1, <2>1, AtAct DEF StagedAt
  <2>3. Request(c)'
      BY <1>1, <2>1, <2>2, AtAct DEF Request
  <2> QED BY <1>1, <1>3, <2>1, <2>3, AtAct, GotoKeeps DEF Places
<1> QED BY <1>2, <1>3 DEF BeginWorkspace

(* A request that ends where it is rolls its transaction back. *)
LEMMA FailsKeeps ==
    ASSUME IInv, NEW c \in Clients, Fails(c)
    PROVE  IInv'
<1>1. /\ pc[c] # "idle" /\ faults' \in Nat
      /\ staged' = [staged EXCEPT ![c] = Nothing]
      /\ UNCHANGED <<tables, uuids, todo, req, sealed>>
    BY DEF Fails, IInv, TypeOK
<1>2. Answer(c, NoAnswer) \/ Answer(c, AuthzError.Internal)
    BY DEF Fails
<1>3. Grows /\ Replies(c)
    BY <1>1, <1>2, Refusals, RefusalReplies DEF Grows, tables
<1>4. /\ Sequences(answers') /\ AllGood(answers', workspaces', monitors', members')
      /\ pc' \in [Clients -> Places] /\ pc'[c] = "idle"
      /\ \A d \in Clients \ {c} : pc'[d] = pc[d]
    BY <1>3, RepliesKeep
<1>5. staged'[c] = Nothing
    BY <1>1 DEF IInv, StagedByClient
<1>6. Request(c)'
    BY <1>4, <1>5 DEF Request, StagedAt
<1>7. /\ todo' \in [Clients -> Seq(Requests)] /\ req' \in [Clients -> Requests \cup {NoRequest}]
      /\ \A d \in Clients \ {c} : req'[d] = req[d]
    BY <1>1 DEF IInv, TypeOK
<1> QED BY <1>1, <1>4, <1>6, <1>7, QuietKeeps

-----------------------------------------------------------------------------
(* A write that ends the request and touches no workspace *)
LEMMA WriteKeeps ==
    ASSUME IInv, NEW c \in Clients, Replies(c), staged[c] = Nothing,
           UNCHANGED <<workspaces, members, todo, req, staged>>,
           uuids' \in Nat, uuids' >= uuids, faults' \in Nat,
           \A m \in monitors' : m.id \in 1 .. uuids' /\ DOMAIN m = Columns /\ Stored(m),
           \A m, n \in monitors' : m.id = n.id => m = n,
           \A r \in results' : r.status \in Statuses,
           \A h \in channels' : h.kind \in Kinds,
           sealed' \in [Clients -> SUBSET (1 .. uuids)],
           \A d \in Clients : sealed'[d] \subseteq sealed[d],
           \A d \in Clients : sealed'[d] \cap Archived \subseteq Archived',
           Grows
    PROVE  IInv'
<1>1. /\ Sequences(answers') /\ AllGood(answers', workspaces', monitors', members')
      /\ pc' \in [Clients -> Places] /\ pc'[c] = "idle"
      /\ \A d \in Clients \ {c} : pc'[d] = pc[d]
    BY RepliesKeep
<1>2. uuids \in Nat
    BY DEF IInv, TypeOK
<1>3. TypeOK'
    BY <1>1, <1>2 DEF IInv, TypeOK
<1>4. SealedHold'
    BY <1>1 DEF IInv, SealedHold
<1>5. SpacesApart' /\ WorkspacesHaveTheirOwner' /\ SlugsAreUnique' /\ StagedByClient'
    BY SpacesKeep
<1>6. OthersStand(c)
    BY <1>1 DEF OthersStand
<1>7. Request(c)'
    BY <1>1 DEF Request, StagedAt
<1> QED BY <1>1, <1>3, <1>4, <1>5, <1>6, <1>7, StepKeeps

(* What create_monitor inserts passes the table's constraints. *)
LEMMA NewIsStored ==
    ASSUME NEW q \in Requests, q.op = "create_monitor", Authenticated(q.token), ValidBody(q),
           NEW id, NEW workspace
    PROVE  LET m == NewMonitor(id, workspace, q.body)
           IN  /\ m.id = id /\ m.workspace = workspace /\ m.status = "active"
               /\ DOMAIN m = Columns /\ Stored(m)
<1> DEFINE b == q.body
           m == NewMonitor(id, workspace, b)
<1>1. /\ \A f \in DOMAIN b \cap (Counts \cup {"tcp_port"}) : b[f] \in Int
      /\ \A f \in DOMAIN b \cap {"url", "tcp_host"} : b[f] # Null
      /\ "interval_secs" \in DOMAIN b
    BY RequestsAssumption
<1>2. Positive(b, Counts) /\ ValidTarget(b)
    BY DEF ValidBody, ValidCreate
<1> HIDE DEF b
<1>3. /\ m.id = id /\ m.workspace = workspace /\ m.status = "active"
      /\ DOMAIN m = Columns
    BY DEF NewMonitor, Columns, Counts
<1>4. /\ m.kind = Or(b, "kind", "uptime") /\ m.url = Target(b).url
      /\ m.tcp_host = Target(b).tcp_host /\ m.tcp_port = Target(b).tcp_port
      /\ m.interval_secs = b.interval_secs
      /\ m.failure_threshold = Or(b, "failure_threshold", 1)
      /\ m.recovery_threshold = Or(b, "recovery_threshold", 1)
    BY DEF NewMonitor
<1> HIDE DEF m
<1>5. \A f \in Counts : m[f] \in Nat \ {0}
    BY <1>1, <1>2, <1>4 DEF Positive, Counts, Given, Or
<1>6. ASSUME Or(b, "kind", "uptime") = "uptime", Target(b).url # ""
      PROVE  Stored(m)
  <2>1. Target(b).url = Or(b, "url", "")
      BY <1>6 DEF Target
  <2>2. Or(b, "url", "") # Null
      BY <1>1 DEF Or, Given, Null
  <2> QED BY <1>3, <1>4, <1>5, <1>6, <2>1, <2>2 DEF Stored
<1>7. ASSUME Or(b, "kind", "uptime") = "tcp", Target(b).tcp_port \in 1 .. MaxPort
      PROVE  Stored(m)
  <2>1. Target(b).tcp_host = Or(b, "tcp_host", "")
      BY <1>7 DEF Target
  <2>2. Or(b, "tcp_host", "") # Null
      BY <1>1 DEF Or, Given, Null
  <2> QED BY <1>3, <1>4, <1>5, <1>7, <2>1, <2>2 DEF Stored
<1> QED BY <1>2, <1>3, <1>6, <1>7 DEF ValidTarget, m, b

(* What patch_monitor writes passes them too, keeps the monitor where it   *)
(* is, and archives nothing.                                               *)
LEMMA PatchedIsStored ==
    ASSUME NEW q \in Requests, q.op = "patch_monitor", Authenticated(q.token), ValidBody(q),
           NEW m, DOMAIN m = Columns, Stored(m)
    PROVE  LET n == Patched(m, q.body)
           IN  /\ n.id = m.id /\ n.workspace = m.workspace
               /\ n.status = "archived" => m.status = "archived"
               /\ DOMAIN n = Columns /\ Stored(n)
<1> DEFINE b == q.body
           n == Patched(m, b)
<1>1. /\ \A f \in DOMAIN b \cap (Counts \cup {"tcp_port"}) : b[f] \in Int
      /\ \A f \in DOMAIN b \cap {"url", "tcp_host"} : b[f] # Null
    BY RequestsAssumption
<1>2. Positive(b, Counts) /\ (Given(b, "status") => b.status \in {"active", "paused"})
    BY DEF ValidBody, ValidPatch
<1> HIDE DEF b
<1>3. DOMAIN n = Columns
    BY DEF Patched
<1>4. \A f \in Columns : n[f] = IF f \in PatchFields THEN Or(b, f, m[f]) ELSE m[f]
    BY DEF Patched
<1> HIDE DEF n
<1>5. /\ n.id = m.id /\ n.workspace = m.workspace /\ n.kind = m.kind
      /\ n.tcp_host = m.tcp_host /\ n.tcp_port = m.tcp_port
      /\ n.status = Or(b, "status", m.status) /\ n.url = Or(b, "url", m.url)
    BY <1>4 DEF Columns, PatchFields, Counts
<1>6. \A f \in Counts : n[f] = Or(b, f, m[f])
    BY <1>4 DEF Columns, PatchFields
<1>7. \A f \in Counts : n[f] \in Nat \ {0}
    BY <1>1, <1>2, <1>6 DEF Positive, Given, Or, Stored
<1>8. n.status \in {"active", "paused"} \/ n.status = m.status
    BY <1>2, <1>5 DEF Given, Or
<1>9. m.url # Null => n.url # Null
    BY <1>1, <1>5 DEF Given, Or
<1>10. Stored(n)
    BY <1>5, <1>7, <1>8, <1>9 DEF Stored
<1> QED BY <1>3, <1>5, <1>8, <1>10 DEF n, b

LEMMA CreateMonitorKeeps ==
    ASSUME IInv, NEW c \in Clients, CreateMonitor(c)
    PROVE  IInv'
<1>1. At(c, "act") /\ req[c].op = "create_monitor"
      /\ UNCHANGED <<workspaces, members, channels, results, incidents, pending,
                     todo, req, staged, sealed>>
    BY DEF CreateMonitor, Acts
<1>2. CASE /\ Answer(c, MonitorError.InvalidInput)
           /\ UNCHANGED <<monitors, uuids, faults>>
  <2>1. ReadOnly
      BY <1>1, <1>2 DEF ReadOnly, tables
  <2> QED BY <1>1, <1>2, <2>1, AtAct, Refusals, RefusalKeeps
<1> DEFINE m == NewMonitor(Uuid, req[c].workspace, req[c].body)
<1>3. CASE /\ ValidBody(req[c])
           /\ monitors' = monitors \cup {m}
           /\ AnswerWrite(c, Success(201, {m}))
           /\ uuids' = Uuid
  <2>1. /\ m.id = Uuid /\ m.workspace = req[c].workspace /\ m.status = "active"
        /\ DOMAIN m = Columns /\ Stored(m)
      BY <1>1, <1>3, AtAct, NewIsStored
  <2> HIDE DEF m
  <2>2. uuids \in Nat /\ Uuid = uuids + 1
      BY DEF IInv, TypeOK, Uuid
  <2>3. Grows
      BY <1>1, <1>3 DEF Grows
  <2>4. Good(req[c], Success(201, {m}), workspaces', monitors', members')
    <3>1. Success(201, {m}).rows = {m}
        BY DEF Success
    <3>2. MemberIn(req[c].token.sub, m.workspace, members')
        BY <1>1, <2>1, AtAct DEF Own, User
    <3> QED BY <1>1, <1>3, <2>1, <3>1, <3>2 DEF Good, Housed, Kept, OfMonitors
  <2>5. Replies(c) /\ faults' \in Nat
      BY <1>3, <2>4, WriteReplies
  <2>6. /\ \A n \in monitors' : n.id \in 1 .. uuids' /\ DOMAIN n = Columns /\ Stored(n)
        /\ \A n, o \in monitors' : n.id = o.id => n = o
        /\ sealed' \in [Clients -> SUBSET (1 .. uuids)]
        /\ \A r \in results' : r.status \in Statuses
        /\ \A h \in channels' : h.kind \in Kinds
      BY <1>1, <1>3, <2>1, <2>2 DEF IInv, TypeOK
  <2>7. Archived \subseteq Archived'
      BY <1>3 DEF Archived
  <2>8. uuids' \in Nat /\ uuids' >= uuids /\ staged[c] = Nothing
      BY <1>1, <1>3, <2>2, AtAct
  <2> QED BY <1>1, <2>3, <2>5, <2>6, <2>7, <2>8, WriteKeeps
<1> QED BY <1>2, <1>3 DEF CreateMonitor

(* The monitors that a statement finds by id and workspace: one at most *)
LEMMA FoundIsOne ==
    ASSUME IInv, NEW c \in Clients, NEW m \in Found(c)
    PROVE  /\ m \in monitors /\ Found(c) = {m} /\ m.id = req[c].id /\ m.workspace = req[c].workspace
           /\ DOMAIN m = Columns /\ Stored(m) /\ m.id \in 1 .. uuids
BY DEF IInv, TypeOK, Found

(* A monitor is replaced by itself with other columns. *)
LEMMA ReplaceKeeps ==
    ASSUME IInv, NEW c \in Clients, Replies(c), staged[c] = Nothing,
           NEW m \in Found(c), NEW n, DOMAIN n = Columns, Stored(n),
           n.id = m.id, n.workspace = m.workspace,
           monitors' = (monitors \ {m}) \cup {n}, faults' \in Nat,
           UNCHANGED <<workspaces, members, channels, results, uuids, todo, req, staged>>,
           \/ n.status = "archived" /\ sealed' = sealed
           \/ sealed' = [d \in Clients |-> sealed[d] \ {m.id}]
    PROVE  IInv'
<1>1. /\ m \in monitors /\ Found(c) = {m} /\ m.id \in 1 .. uuids
    BY FoundIsOne
<1>2. Grows
    BY DEF Grows
<1>3. /\ \A o \in monitors' : o.id \in 1 .. uuids' /\ DOMAIN o = Columns /\ Stored(o)
      /\ \A o, p \in monitors' : o.id = p.id => o = p
    BY <1>1 DEF IInv, TypeOK
<1>4. /\ \A r \in results' : r.status \in Statuses
      /\ \A h \in channels' : h.kind \in Kinds
      /\ uuids' \in Nat /\ uuids' >= uuids
    BY DEF IInv, TypeOK
<1>5. /\ sealed' \in [Clients -> SUBSET (1 .. uuids)]
      /\ \A d \in Clients : sealed'[d] \subseteq sealed[d]
    BY DEF IInv, TypeOK
<1>6. \A d \in Clients : sealed'[d] \cap Archived \subseteq Archived'
  <2>1. ASSUME NEW id \in Archived, id # m.id PROVE id \in Archived'
      BY <2>1 DEF Archived
  <2>2. n.status = "archived" => m.id \in Archived'
      BY DEF Archived
  <2>3. \A d \in Clients : m.id \in sealed'[d] => n.status = "archived"
      OBVIOUS
  <2> QED BY <2>1, <2>2, <2>3
<1> QED BY <1>2, <1>3, <1>4, <1>5, <1>6, WriteKeeps

LEMMA PatchUpdatesKeeps ==
    ASSUME IInv, NEW c \in Clients, PatchUpdates(c)
    PROVE  IInv'
<1>1. pc[c] = "update" /\ UNCHANGED <<workspaces, members, channels, results, incidents, pending,
                                      uuids, todo, req, staged>>
    BY DEF PatchUpdates, At
<1>2. /\ req[c].op = "patch_monitor" /\ ValidBody(req[c]) /\ req[c] \in Requests
      /\ Authenticated(req[c].token) /\ staged[c] = Nothing
      /\ MemberIn(User(c), req[c].workspace, members)
    BY <1>1, AtPlace DEF IInv, Request, Own
<1>3. PICK m \in Found(c) : TRUE
    BY <1>1 DEF IInv, Request
<1>4. /\ Found(c) = {m} /\ m.workspace = req[c].workspace /\ DOMAIN m = Columns /\ Stored(m)
    BY <1>3, FoundIsOne
<1> DEFINE n == Patched(m, req[c].body)
<1>5. {Patched(o, req[c].body) : o \in Found(c)} = {n}
    BY <1>4
<1>6. /\ n.id = m.id /\ n.workspace = m.workspace /\ DOMAIN n = Columns /\ Stored(n)
    BY <1>2, <1>4, PatchedIsStored
<1>7. /\ monitors' = (monitors \ {m}) \cup {n}
      /\ sealed' = [d \in Clients |-> sealed[d] \ {o.id : o \in {p \in {n} : p.status # "archived"}}]
      /\ AnswerWrite(c, Success(200, {n}))
    BY <1>4, <1>5 DEF PatchUpdates
<1> HIDE DEF n
<1>8. Good(req[c], Success(200, {n}), workspaces', monitors', members')
  <2>1. Success(200, {n}).rows = {n} /\ Success(200, {n}).status # 201
      BY DEF Success
  <2>2. MemberIn(req[c].token.sub, n.workspace, members')
      BY <1>1, <1>2, <1>4, <1>6 DEF User
  <2> QED BY <1>2, <2>1, <2>2 DEF Good, Housed, Kept, OfMonitors
<1>9. Replies(c) /\ faults' \in Nat
    BY <1>7, <1>8, WriteReplies
<1>10. \/ n.status = "archived" /\ sealed' = sealed
       \/ sealed' = [d \in Clients |-> sealed[d] \ {m.id}]
  <2>1. CASE n.status = "archived"
    <3>1. {o.id : o \in {p \in {n} : p.status # "archived"}} = {}
        BY <2>1
    <3> QED BY <1>7, <2>1, <3>1 DEF IInv, TypeOK
  <2>2. CASE n.status # "archived"
    <3>1. {o.id : o \in {p \in {n} : p.status # "archived"}} = {m.id}
        BY <1>6, <2>2
    <3> QED BY <1>7, <3>1
  <2> QED BY <2>1, <2>2
<1> QED BY <1>1, <1>2, <1>3, <1>6, <1>7, <1>9, <1>10, ReplaceKeeps

LEMMA DeleteMonitorKeeps ==
    ASSUME IInv, NEW c \in Clients, DeleteMonitor(c)
    PROVE  IInv'
<1>1. At(c, "act") /\ req[c].op = "delete_monitor"
      /\ monitors' = (monitors \ Found(c))
                       \cup {[m EXCEPT !.status = "archived"] : m \in Found(c)}
      /\ UNCHANGED <<workspaces, members, channels, results, incidents, pending,
                     uuids, todo, req, staged, sealed>>
    BY DEF DeleteMonitor, Acts
<1>2. CASE Found(c) = {}
  <2>1. Answer(c, MonitorError.NotFound) /\ UNCHANGED faults
      BY <1>2 DEF DeleteMonitor
  <2>2. ReadOnly
      BY <1>1, <1>2, <2>1 DEF ReadOnly, tables
  <2> QED BY <1>1, <2>1, <2>2, AtAct, Refusals, RefusalKeeps
<1>3. CASE Found(c) # {}
  <2>1. PICK m \in Found(c) : TRUE
      BY <1>3
  <2>2. Found(c) = {m} /\ DOMAIN m = Columns /\ Stored(m)
      BY <2>1, FoundIsOne
  <2> DEFINE n == [m EXCEPT !.status = "archived"]
  <2>3. monitors' = (monitors \ {m}) \cup {n}
      BY <1>1, <2>2
  <2>4. DOMAIN n = Columns /\ \A f \in Columns : n[f] = IF f = "status" THEN "archived" ELSE m[f]
      BY <2>2 DEF Columns
  <2>5. AnswerWrite(c, Success(204, {}))
      BY <1>3 DEF DeleteMonitor
  <2> HIDE DEF n
  <2>6. n.id = m.id /\ n.workspace = m.workspace /\ n.status = "archived" /\ Stored(n)
      BY <2>2, <2>4 DEF Columns, Counts, Stored
  <2>7. Replies(c) /\ faults' \in Nat
      BY <2>5, WriteReplies, Refusals, RefusalsAreGood
  <2> QED BY <1>1, <2>1, <2>3, <2>4, <2>6, <2>7, AtAct, ReplaceKeeps
<1> QED BY <1>2, <1>3

(* A write that leaves the monitors alone *)
LEMMA TableKeeps ==
    ASSUME IInv, NEW c \in Clients, At(c, "act"), Replies(c), faults' \in Nat,
           UNCHANGED <<workspaces, members, monitors, todo, req, staged, sealed>>,
           uuids' = uuids \/ uuids' = Uuid,
           \A r \in results' : r.status \in Statuses, \A h \in channels' : h.kind \in Kinds
    PROVE  IInv'
<1>1. uuids \in Nat /\ uuids' \in Nat /\ uuids' >= uuids
    BY DEF IInv, TypeOK, Uuid
<1>2. Grows /\ Archived' = Archived
    BY DEF Grows, Archived
<1>3. /\ \A m \in monitors' : m.id \in 1 .. uuids' /\ DOMAIN m = Columns /\ Stored(m)
      /\ \A m, n \in monitors' : m.id = n.id => m = n
      /\ sealed' \in [Clients -> SUBSET (1 .. uuids)]
    BY <1>1 DEF IInv, TypeOK
<1> QED BY <1>1, <1>2, <1>3, AtAct, WriteKeeps

LEMMA CreateChannelKeeps ==
    ASSUME IInv, NEW c \in Clients, CreateChannel(c)
    PROVE  IInv'
<1> DEFINE h == [id |-> Uuid, workspace |-> req[c].workspace,
                 kind |-> req[c].body.kind, target |-> req[c].body.target]
<1>1. At(c, "act") /\ req[c].op = "create_channel"
      /\ UNCHANGED <<workspaces, members, monitors, results, incidents, pending,
                     todo, req, staged, sealed>>
    BY DEF CreateChannel, Acts
<1>2. CASE /\ Answer(c, NotificationChannelError.InvalidInput)
           /\ UNCHANGED <<channels, uuids, faults>>
  <2>1. ReadOnly
      BY <1>1, <1>2 DEF ReadOnly, tables
  <2> QED BY <1>1, <1>2, <2>1, AtAct, Refusals, RefusalKeeps
<1>3. CASE /\ ValidBody(req[c]) /\ channels' = channels \cup {h} /\ uuids' = Uuid
           /\ AnswerWrite(c, Success(201, {h}))
  <2>1. h.kind \in Kinds /\ h.workspace = req[c].workspace
      BY <1>1, <1>3 DEF ValidBody
  <2> HIDE DEF h
  <2>2. Good(req[c], Success(201, {h}), workspaces', monitors', members')
    <3>1. Success(201, {h}).rows = {h}
        BY DEF Success
    <3>2. MemberIn(req[c].token.sub, h.workspace, members')
        BY <1>1, <2>1, AtAct DEF Own, User
    <3> QED BY <1>1, <3>1, <3>2 DEF Good, Housed, Kept, OfMonitors
  <2>3. Replies(c) /\ faults' \in Nat
      BY <1>3, <2>2, WriteReplies
  <2>4. (\A r \in results' : r.status \in Statuses) /\ \A x \in channels' : x.kind \in Kinds
      BY <1>1, <1>3, <2>1 DEF IInv, TypeOK
  <2> QED BY <1>1, <1>3, <2>3, <2>4, TableKeeps
<1> QED BY <1>2, <1>3 DEF CreateChannel

LEMMA DeleteChannelKeeps ==
    ASSUME IInv, NEW c \in Clients, DeleteChannel(c)
    PROVE  IInv'
<1> DEFINE found == {h \in channels : h.id = req[c].id /\ h.workspace = req[c].workspace}
<1>1. At(c, "act") /\ channels' = channels \ found
      /\ UNCHANGED <<workspaces, members, monitors, results, incidents, pending,
                     uuids, todo, req, staged, sealed>>
    BY DEF DeleteChannel, Acts
<1>2. CASE Answer(c, NotificationChannelError.NotFound) /\ UNCHANGED faults
  <2>1. Replies(c) /\ faults' \in Nat
      BY <1>2, Refusals, RefusalReplies DEF IInv, TypeOK
  <2>2. (\A r \in results' : r.status \in Statuses) /\ \A x \in channels' : x.kind \in Kinds
      BY <1>1 DEF IInv, TypeOK
  <2> QED BY <1>1, <2>1, <2>2, TableKeeps
<1>3. CASE AnswerWrite(c, Success(204, {}))
  <2>1. Replies(c) /\ faults' \in Nat
      BY <1>3, WriteReplies, Refusals, RefusalsAreGood
  <2>2. (\A r \in results' : r.status \in Statuses) /\ \A x \in channels' : x.kind \in Kinds
      BY <1>1 DEF IInv, TypeOK
  <2> QED BY <1>1, <2>1, <2>2, TableKeeps
<1> QED BY <1>2, <1>3 DEF DeleteChannel

LEMMA CreateCheckResultKeeps ==
    ASSUME IInv, NEW c \in Clients, CreateCheckResult(c)
    PROVE  IInv'
<1>1. At(c, "act") /\ req[c].op = "create_check_result"
      /\ UNCHANGED <<workspaces, members, monitors, channels, todo, req, staged, sealed>>
    BY DEF CreateCheckResult, Acts
<1>2. CASE /\ Answer(c, CheckResultError.InvalidInput)
           /\ UNCHANGED <<results, incidents, pending, uuids, faults>>
  <2>1. ReadOnly
      BY <1>1, <1>2 DEF ReadOnly, tables
  <2> QED BY <1>1, <1>2, <2>1, AtAct, Refusals, RefusalKeeps
<1>3. CASE /\ ValidBody(req[c]) /\ uuids' = Uuid
           /\ \E m \in Found(c) :
                LET r == [monitor |-> m.id, status |-> req[c].body.status, at |-> Uuid]
                IN  results' = results \cup {r} /\ AnswerWrite(c, Success(201, {r}))
  <2>1. PICK m \in Found(c) :
          LET r == [monitor |-> m.id, status |-> req[c].body.status, at |-> Uuid]
          IN  results' = results \cup {r} /\ AnswerWrite(c, Success(201, {r}))
      BY <1>3
  <2> DEFINE r == [monitor |-> m.id, status |-> req[c].body.status, at |-> Uuid]
  <2>2. results' = results \cup {r} /\ AnswerWrite(c, Success(201, {r}))
      BY <2>1
  <2>3. r.monitor = m.id /\ r.status \in Statuses
      BY <1>1, <1>3 DEF ValidBody
  <2> HIDE DEF r
  <2>4. Good(req[c], Success(201, {r}), workspaces', monitors', members')
    <3>1. Success(201, {r}).rows = {r}
        BY DEF Success
    <3>2. m \in monitors' /\ MemberIn(req[c].token.sub, m.workspace, members')
        BY <1>1, FoundIsOne, AtAct DEF Own, User
    <3>3. Housed(req[c], r, monitors', members')
        BY <1>1, <2>3, <3>2 DEF Housed, OfMonitors
    <3> QED BY <1>1, <3>1, <3>3 DEF Good, Kept
  <2>5. Replies(c) /\ faults' \in Nat
      BY <2>2, <2>4, WriteReplies
  <2>6. (\A x \in results' : x.status \in Statuses) /\ \A h \in channels' : h.kind \in Kinds
      BY <1>1, <2>2, <2>3 DEF IInv, TypeOK
  <2> QED BY <1>1, <1>3, <2>5, <2>6, TableKeeps
<1> QED BY <1>2, <1>3 DEF CreateCheckResult

-----------------------------------------------------------------------------
(* create_workspace's transaction *)
LEMMA StagedOf ==
    ASSUME IInv, NEW c \in Clients, NEW value, staged' = [staged EXCEPT ![c] = value]
    PROVE  /\ staged'[c] = value /\ \A d \in Clients \ {c} : staged'[d] = staged[d]
           /\ StagedByClient'
BY DEF IInv, StagedByClient

(* A step within the transaction *)
LEMMA StageKeeps ==
    ASSUME IInv, NEW c \in Clients, pc[c] # "idle", NEW p \in Places, NEW value,
           pc' = [pc EXCEPT ![c] = p], staged' = [staged EXCEPT ![c] = value],
           UNCHANGED <<tables, todo, req, answers, sealed, faults>>,
           uuids' = uuids \/ uuids' = Uuid,
           SpacesApart', SlugsAreUnique', Request(c)'
    PROVE  IInv'
<1>1. uuids \in Nat /\ uuids' \in Nat /\ uuids' >= uuids
    BY DEF IInv, TypeOK, Uuid
<1>2. Grows /\ Archived' = Archived
    BY DEF Grows, Archived, tables
<1>3. TypeOK'
    BY <1>1 DEF IInv, TypeOK, tables
<1>4. Sequences(answers') /\ AllGood(answers', workspaces', monitors', members')
    BY <1>2, SameAnswersKeep
<1>5. /\ StagedByClient' /\ \A d \in Clients \ {c} : staged'[d] = staged[d]
    BY StagedOf
<1>6. pc'[c] = p /\ \A d \in Clients \ {c} : pc'[d] = pc[d]
    BY DEF IInv, TypeOK
<1>7. OthersStand(c)
    BY <1>5, <1>6 DEF OthersStand
<1>8. SealedHold'
    BY <1>2, <1>6 DEF IInv, SealedHold
<1>9. WorkspacesHaveTheirOwner'
    BY DEF IInv, WorkspacesHaveTheirOwner, tables
<1> QED BY <1>2, <1>3, <1>4, <1>5, <1>7, <1>8, <1>9, StepKeeps

(* The index lets one open transaction have a slug. *)
LEMMA InsertWorkspaceKeeps ==
    ASSUME IInv, NEW c \in Clients, InsertWorkspace(c)
    PROVE  IInv'
<1> DEFINE w == [id |-> Uuid, slug |-> req[c].body.slug, owner |-> User(c)]
<1>1. pc[c] = "insert_workspace" /\ UNCHANGED <<tables, todo, req, sealed, faults>>
      /\ w.slug \notin Slugs(StagedByOthers(c))
    BY DEF InsertWorkspace, At
<1>2. staged[c] = Nothing /\ req[c].op = "create_workspace" /\ req[c] \in Requests
      /\ Authenticated(req[c].token)
    BY <1>1, AtPlace DEF IInv, Request
<1>3. CASE Answer(c, WorkspaceError.SlugTaken) /\ UNCHANGED <<staged, uuids>>
  <2>1. ReadOnly
      BY <1>1, <1>3 DEF ReadOnly
  <2> QED BY <1>1, <1>2, <1>3, <2>1, Refusals, RefusalKeeps
<1>4. CASE /\ w.slug \notin Slugs(workspaces)
           /\ staged' = [staged EXCEPT ![c].workspaces = {w}]
           /\ uuids' = Uuid
           /\ Goto(c, "insert_workspace", "insert_member")
           /\ UNCHANGED answers
  <2> DEFINE value == [workspaces |-> {w}, members |-> {}]
  <2>1. staged' = [staged EXCEPT ![c] = value]
    <3> HIDE DEF w
    <3>1. [staged[c] EXCEPT !.workspaces = {w}] = value
        BY <1>2 DEF Nothing
    <3>2. staged' = [staged EXCEPT ![c] = [staged[c] EXCEPT !.workspaces = {w}]]
        BY <1>4
    <3> QED BY <3>1, <3>2
  <2>2. /\ value.workspaces = {w} /\ w.id = Uuid /\ w.owner = User(c)
      OBVIOUS
  <2> HIDE DEF value
  <2>3. staged'[c] = value /\ \A d \in Clients \ {c} : staged'[d] = staged[d]
      BY <2>1, StagedOf
  <2>4. uuids \in Nat /\ Uuid = uuids + 1
      BY DEF IInv, TypeOK, Uuid
  <2>5. /\ Spaces' \subseteq Spaces \cup {w}
        /\ \A v \in Spaces : v \in workspaces \/ v \in StagedByOthers(c)
    <3>1. workspaces' = workspaces
        BY <1>1 DEF tables
    <3> HIDE DEF w
    <3>2. \A v \in Spaces' : v \in Spaces \cup {w}
        BY <2>2, <2>3, <3>1 DEF Spaces
    <3>3. \A v \in Spaces : v \in workspaces \/ v \in StagedByOthers(c)
        BY <1>2 DEF Spaces, StagedByOthers, Nothing
    <3> QED BY <3>2, <3>3
  <2>6. \A v \in Spaces : v.slug # w.slug
    <3> HIDE DEF w
    <3> QED BY <1>1, <1>4, <2>5 DEF Slugs
  <2> HIDE DEF w
  <2>7. SpacesApart'
    <3>1. \A v \in Spaces : v.id \in 1 .. uuids
        BY DEF IInv, SpacesApart
    <3>2. \A v \in Spaces : v.id # w.id
        BY <2>2, <2>4, <3>1
    <3>3. \A v \in Spaces' : v.id \in 1 .. uuids'
        BY <1>4, <2>2, <2>4, <2>5, <3>1
    <3>4. \A u, v \in Spaces' : u.id = v.id => u = v
        BY <2>5, <3>2 DEF IInv, SpacesApart
    <3>5. w \notin Spaces /\ workspaces' = workspaces /\ staged'[c].workspaces = {w}
        BY <1>1, <2>2, <2>3, <3>2 DEF tables
    <3>6. \A d \in Clients : staged[d].workspaces \subseteq Spaces
        BY DEF Spaces
    <3>7. w \notin workspaces /\ \A d \in Clients : w \notin staged[d].workspaces
        BY <3>5, <3>6 DEF Spaces
    <3>8. StagedApart'
        BY <2>3, <3>5, <3>7 DEF IInv, SpacesApart, StagedApart
    <3> QED BY <3>3, <3>4, <3>8 DEF SpacesApart
  <2>8. SlugsAreUnique'
    <3>1. \A u, v \in Spaces : u.slug = v.slug => u = v
        BY DEF IInv, SlugsAreUnique, Spaces
    <3>2. \A u, v \in Spaces' : u.slug = v.slug => u = v
        BY <2>5, <2>6, <3>1
    <3> QED BY <3>2 DEF SlugsAreUnique, Spaces
  <2>9. pc' = [pc EXCEPT ![c] = "insert_member"] /\ pc'[c] = "insert_member"
      BY <1>4 DEF Goto, IInv, TypeOK
  <2>10. StagedAt(c)'
    <3>1. req' = req /\ w.owner = User(c)'
        BY <1>1, <2>2 DEF User
    <3> QED BY <2>3, <2>9, <3>1 DEF StagedAt, value
  <2>11. Request(c)'
      BY <1>1, <1>2, <2>9, <2>10 DEF Request
  <2> QED BY <1>1, <1>4, <2>1, <2>7, <2>8, <2>9, <2>11, StageKeeps DEF Places
<1> QED BY <1>3, <1>4 DEF InsertWorkspace

LEMMA InsertMemberKeeps ==
    ASSUME IInv, NEW c \in Clients, InsertMember(c)
    PROVE  IInv'
<1>1. pc[c] = "insert_member" /\ pc' = [pc EXCEPT ![c] = "select"]
      /\ UNCHANGED <<tables, uuids, todo, req, answers, sealed, faults>>
    BY DEF InsertMember, Goto, At
<1>2. PICK w : staged[c] = [workspaces |-> {w}, members |-> {}] /\ w.owner = User(c)
    BY <1>1 DEF IInv, Request, StagedAt
<1>3. /\ req[c].op = "create_workspace" /\ req[c] \in Requests /\ Authenticated(req[c].token)
    BY <1>1 DEF IInv, Request
<1> DEFINE value == [workspaces |-> {w}, members |-> {OwnerRow(w)}]
<1>4. staged' = [staged EXCEPT ![c] = value]
  <2>1. {[workspace |-> v.id, user |-> User(c), role |-> "owner"] : v \in staged[c].workspaces}
          = {OwnerRow(w)}
      BY <1>2 DEF OwnerRow
  <2>2. [staged[c] EXCEPT !.members = {OwnerRow(w)}] = value
      BY <1>2
  <2>3. staged' = [staged EXCEPT ![c].members = {OwnerRow(w)}]
      BY <2>1 DEF InsertMember
  <2>4. staged' = [staged EXCEPT ![c] = [staged[c] EXCEPT !.members = {OwnerRow(w)}]]
      BY <2>3
  <2> QED BY <2>2, <2>4
<1>5. value.workspaces = staged[c].workspaces
    BY <1>2
<1> HIDE DEF value
<1>6. staged'[c] = value /\ \A d \in Clients \ {c} : staged'[d] = staged[d]
    BY <1>4, StagedOf
<1>7. Spaces' = Spaces /\ StagedApart'
  <2>1. \A d \in Clients : staged'[d].workspaces = staged[d].workspaces
      BY <1>5, <1>6
  <2>2. workspaces' = workspaces
      BY <1>1 DEF tables
  <2> QED BY <2>1, <2>2 DEF Spaces, IInv, SpacesApart, StagedApart
<1>8. SpacesApart' /\ SlugsAreUnique'
    BY <1>1, <1>7 DEF IInv, SpacesApart, SlugsAreUnique, Spaces
<1>9. pc'[c] = "select"
    BY <1>1 DEF IInv, TypeOK
<1>10. StagedAt(c)'
    BY <1>1, <1>2, <1>6, <1>9 DEF StagedAt, User, value
<1>11. Request(c)'
    BY <1>1, <1>3, <1>9, <1>10 DEF Request
<1> QED BY <1>1, <1>4, <1>8, <1>11, StageKeeps DEF Places

LEMMA SelectWorkspaceKeeps ==
    ASSUME IInv, NEW c \in Clients, SelectWorkspace(c)
    PROVE  IInv'
<1>1. pc[c] = "select" /\ pc' = [pc EXCEPT ![c] = "commit"] /\ UNCHANGED answers /\ ReadOnly
    BY DEF SelectWorkspace, Goto, At, ReadOnly
<1>2. UNCHANGED <<req, staged>> /\ pc'[c] = "commit"
    BY <1>1 DEF ReadOnly, IInv, TypeOK
<1>3. StagedAt(c)'
    BY <1>1, <1>2 DEF IInv, Request, StagedAt, User
<1>4. Request(c)'
    BY <1>1, <1>2, <1>3 DEF IInv, Request
<1> QED BY <1>1, <1>4, GotoKeeps DEF Places

(* The workspace and its owner appear together. *)
LEMMA CommitKeeps ==
    ASSUME IInv, NEW c \in Clients, CommitWorkspace(c)
    PROVE  IInv'
<1>1. pc[c] = "commit" /\ staged' = [staged EXCEPT ![c] = Nothing]
      /\ UNCHANGED <<monitors, channels, results, incidents, pending, uuids, todo, req, sealed>>
    BY DEF CommitWorkspace, At
<1>2. PICK w : staged[c] = [workspaces |-> {w}, members |-> {OwnerRow(w)}] /\ w.owner = User(c)
    BY <1>1 DEF IInv, Request, StagedAt
<1>3. req[c].op = "create_workspace"
    BY <1>1 DEF IInv, Request
<1>4. /\ workspaces' = workspaces \cup {w} /\ members' = members \cup {OwnerRow(w)}
      /\ AnswerWrite(c, Success(201, {w}))
    BY <1>2 DEF CommitWorkspace
<1>5. /\ staged'[c] = Nothing /\ \A d \in Clients \ {c} : staged'[d] = staged[d]
      /\ StagedByClient'
    BY <1>1, StagedOf
<1>6. w \in Spaces /\ Spaces' \subseteq Spaces
  <2>1. w \in Spaces
      BY <1>2 DEF Spaces
  <2>2. \A v \in Spaces' : v \in Spaces
      BY <1>4, <1>5, <2>1 DEF Spaces, Nothing
  <2> QED BY <2>1, <2>2
<1>7. SpacesApart' /\ SlugsAreUnique'
  <2>1. \A u, v \in Spaces : u.slug = v.slug => u = v
      BY DEF IInv, SlugsAreUnique, Spaces
  <2>2. \A u, v \in Spaces' : u.slug = v.slug => u = v
      BY <1>6, <2>1
  <2>3. StagedApart'
      BY <1>2, <1>4, <1>5 DEF IInv, SpacesApart, StagedApart, Nothing
  <2> QED BY <1>1, <1>6, <2>2, <2>3 DEF IInv, SpacesApart, SlugsAreUnique, Spaces
<1>8. \A v \in workspaces : v.id # w.id
  <2>1. \A v \in workspaces : v \in Spaces
      BY DEF Spaces
  <2>2. w \notin workspaces
      BY <1>2 DEF IInv, SpacesApart, StagedApart
  <2> QED BY <1>6, <2>1, <2>2 DEF IInv, SpacesApart
<1>9. OwnerRow(w).workspace = w.id /\ OwnerRow(w).role = "owner" /\ OwnerRow(w).user = w.owner
    BY DEF OwnerRow
<1>10. \A m \in members : m.workspace # w.id
    BY <1>8 DEF IInv, WorkspacesHaveTheirOwner
<1>11. WorkspacesHaveTheirOwner'
  <2> DEFINE Owners(v, rows) == {m \in rows : m.workspace = v.id /\ m.role = "owner"}
  <2>1. \A v \in workspaces : Owners(v, members) = {OwnerRow(v)}
      BY DEF IInv, WorkspacesHaveTheirOwner
  <2>2. \A v \in workspaces : Owners(v, members') = Owners(v, members)
      BY <1>4, <1>8, <1>9
  <2>3. Owners(w, members') = {OwnerRow(w)}
      BY <1>4, <1>9, <1>10
  <2>4. \A v \in workspaces' : Owners(v, members') = {OwnerRow(v)}
    <3> HIDE DEF Owners
    <3> QED BY <1>4, <2>1, <2>2, <2>3
  <2>5. \A m \in members' : \E v \in workspaces' : v.id = m.workspace
      BY <1>4, <1>9 DEF IInv, WorkspacesHaveTheirOwner
  <2> QED BY <2>4, <2>5 DEF WorkspacesHaveTheirOwner
<1>12. Grows
    BY <1>1, <1>4 DEF Grows
<1>13. Good(req[c], Success(201, {w}), workspaces', monitors', members')
  <2>1. Success(201, {w}).rows = {w}
      BY DEF Success
  <2>2. MemberIn(req[c].token.sub, w.id, members')
      BY <1>2, <1>4, <1>9 DEF MemberIn, User
  <2> QED BY <1>3, <1>4, <2>1, <2>2 DEF Good, Housed, Kept
<1>14. Replies(c) /\ faults' \in Nat
    BY <1>4, <1>13, WriteReplies
<1>15. /\ Sequences(answers') /\ AllGood(answers', workspaces', monitors', members')
       /\ pc' \in [Clients -> Places] /\ pc'[c] = "idle"
       /\ \A d \in Clients \ {c} : pc'[d] = pc[d]
    BY <1>12, <1>14, RepliesKeep
<1>16. TypeOK'
    BY <1>1, <1>14, <1>15 DEF IInv, TypeOK
<1>17. SealedHold' /\ OthersStand(c)
    BY <1>1, <1>5, <1>15 DEF IInv, SealedHold, Archived, OthersStand
<1>18. Request(c)'
    BY <1>5, <1>15 DEF Request, StagedAt
<1> QED BY <1>5, <1>7, <1>11, <1>12, <1>15, <1>16, <1>17, <1>18, StepKeeps

-----------------------------------------------------------------------------
LEMMA NextIInv == IInv /\ [Next]_vars => IInv'
<1> SUFFICES ASSUME IInv, [Next]_vars PROVE IInv'
    OBVIOUS
<1>1. CASE UNCHANGED vars
  <2>1. /\ UNCHANGED <<workspaces, members, monitors, channels, results>>
        /\ UNCHANGED <<uuids, todo, pc, req, staged, answers, sealed, faults>>
      BY <1>1 DEF vars, tables
  <2>2. TypeOK' /\ StagedByClient'
      BY <2>1 DEF IInv, TypeOK, StagedByClient
  <2>3. SpacesApart' /\ WorkspacesHaveTheirOwner' /\ SlugsAreUnique'
      BY <2>1 DEF IInv, SpacesApart, StagedApart, Spaces, WorkspacesHaveTheirOwner, SlugsAreUnique
  <2>4. AllGood(answers', workspaces', monitors', members') /\ Sequences(answers')
      BY <2>1 DEF IInv
  <2>5. SealedHold'
      BY <2>1 DEF IInv, SealedHold, Archived
  <2>6. \A c \in Clients : Request(c)'
      BY <2>1 DEF IInv, Request, StagedAt, User, Owner, Found
  <2> QED BY <2>2, <2>3, <2>4, <2>5, <2>6 DEF IInv, AllGood, Sequences
<1>2. CASE Next
  <2>1. PICK c \in Clients : Receive(c) \/ Handle(c) \/ Fails(c)
      BY <1>2 DEF Next
  <2>2. CASE Authorize(c) \/ WorkspaceExists(c) \/ ResolveMonitor(c)
      BY <2>2, AuthorizeKeeps, WorkspaceExistsKeeps, ResolveKeeps
  <2>3. CASE Me(c) \/ ListWorkspaces(c) \/ ListMonitors(c) \/ GetMonitor(c)
               \/ ListCheckResults(c) \/ ListOpenIncidents(c) \/ ListChannels(c)
      BY <2>3, MeKeeps, ListWorkspacesKeeps, ListMonitorsKeeps, GetMonitorKeeps,
         ListCheckResultsKeeps, ListOpenIncidentsKeeps, ListChannelsKeeps
  <2>4. CASE CreateMonitor(c) \/ PatchReadsStatus(c) \/ PatchUpdates(c) \/ DeleteMonitor(c)
               \/ CreateChannel(c) \/ DeleteChannel(c) \/ CreateCheckResult(c)
      BY <2>4, CreateMonitorKeeps, PatchReadsKeeps, PatchUpdatesKeeps, DeleteMonitorKeeps,
         CreateChannelKeeps, DeleteChannelKeeps, CreateCheckResultKeeps
  <2>5. CASE BeginWorkspace(c) \/ InsertWorkspace(c) \/ InsertMember(c)
               \/ SelectWorkspace(c) \/ CommitWorkspace(c)
      BY <2>5, BeginKeeps, InsertWorkspaceKeeps, InsertMemberKeeps, SelectWorkspaceKeeps,
         CommitKeeps
  <2> QED BY <2>1, <2>2, <2>3, <2>4, <2>5, ReceiveKeeps, FailsKeeps DEF Handle
<1> QED BY <1>1, <1>2

LEMMA AlwaysIInv == Spec => []IInv
BY InitIInv, NextIInv, PTL DEF Spec

-----------------------------------------------------------------------------
(* The client that acts is the one whose place changes. *)
Moves(c) == \A d \in Clients \ {c} : pc'[d] = pc[d]

LEMMA AnswerMoves ==
    ASSUME IInv, NEW c \in Clients, NEW a, Answer(c, a)
    PROVE  Moves(c)
BY DEF Answer, Moves, IInv, TypeOK

LEMMA GotoMoves ==
    ASSUME IInv, NEW c \in Clients, NEW from, NEW to, Goto(c, from, to)
    PROVE  Moves(c)
BY DEF Goto, Moves, IInv, TypeOK

LEMMA WriteMoves ==
    ASSUME IInv, NEW c \in Clients, NEW a, AnswerWrite(c, a)
    PROVE  Moves(c)
BY AnswerMoves DEF AnswerWrite

(* What WritersBelong and RevivedOnlyByOverlap ask of one client *)
Belongs(c) ==
    /\ WritesBelong(c)
    /\ pc[c] # "idle" => sealed[c] \subseteq Archived'

LEMMA QuietBelongs ==
    ASSUME IInv, NEW c \in Clients, UNCHANGED <<monitors, channels, results>>
    PROVE  Belongs(c)
BY DEF Belongs, WritesBelong, Touched, Archived, IInv, SealedHold

LEMMA ReadersBelong ==
    ASSUME IInv, NEW c \in Clients,
           \/ Receive(c) \/ Fails(c) \/ Authorize(c) \/ WorkspaceExists(c) \/ ResolveMonitor(c)
           \/ Me(c) \/ ListWorkspaces(c) \/ ListMonitors(c) \/ GetMonitor(c)
           \/ ListCheckResults(c) \/ ListOpenIncidents(c) \/ ListChannels(c)
           \/ PatchReadsStatus(c)
    PROVE  Moves(c) /\ Belongs(c)
<1>1. UNCHANGED tables
    BY DEF ReadOnly, Receive, Fails, Authorize, WorkspaceExists, ResolveMonitor, Me, ListWorkspaces,
           ListMonitors, GetMonitor, ListCheckResults, ListOpenIncidents, ListChannels,
           PatchReadsStatus
<1>2. Belongs(c)
    BY <1>1, QuietBelongs DEF tables
<1>3. CASE Receive(c)
    BY <1>2, <1>3 DEF Receive, Moves, IInv, TypeOK
<1>4. CASE Fails(c) \/ Authorize(c) \/ WorkspaceExists(c) \/ ResolveMonitor(c) \/ PatchReadsStatus(c)
    BY <1>2, <1>4, AnswerMoves, GotoMoves
       DEF Fails, Authorize, WorkspaceExists, ResolveMonitor, PatchReadsStatus
<1>5. CASE \/ Me(c) \/ ListWorkspaces(c) \/ ListMonitors(c) \/ GetMonitor(c)
           \/ ListCheckResults(c) \/ ListOpenIncidents(c) \/ ListChannels(c)
    BY <1>2, <1>5, AnswerMoves DEF Me, ListWorkspaces, ListMonitors, GetMonitor, ListCheckResults,
       ListOpenIncidents, ListChannels
<1> QED BY <1>3, <1>4, <1>5

LEMMA TransactionsBelong ==
    ASSUME IInv, NEW c \in Clients,
           \/ BeginWorkspace(c) \/ InsertWorkspace(c) \/ InsertMember(c)
           \/ SelectWorkspace(c) \/ CommitWorkspace(c)
    PROVE  Moves(c) /\ Belongs(c)
<1>1. UNCHANGED <<monitors, channels, results>>
    BY DEF ReadOnly, tables, BeginWorkspace, InsertWorkspace, InsertMember, SelectWorkspace,
           CommitWorkspace
<1>2. Moves(c)
    BY AnswerMoves, GotoMoves, WriteMoves
       DEF BeginWorkspace, InsertWorkspace, InsertMember, SelectWorkspace, CommitWorkspace
<1> QED BY <1>1, <1>2, QuietBelongs

LEMMA CreateMonitorBelongs ==
    ASSUME IInv, NEW c \in Clients, CreateMonitor(c)
    PROVE  Moves(c) /\ Belongs(c)
<1>1. At(c, "act") /\ req[c].op = "create_monitor" /\ UNCHANGED <<channels, results>>
    BY DEF CreateMonitor, Acts
<1>2. Moves(c)
    BY AnswerMoves, WriteMoves DEF CreateMonitor
<1>3. CASE UNCHANGED monitors
    BY <1>1, <1>2, <1>3, QuietBelongs
<1> DEFINE m == NewMonitor(Uuid, req[c].workspace, req[c].body)
<1>4. CASE ValidBody(req[c]) /\ monitors' = monitors \cup {m}
  <2>1. m.id = Uuid /\ m.workspace = req[c].workspace /\ m.status = "active"
      BY <1>1, <1>4, AtAct, NewIsStored
  <2> HIDE DEF m
  <2>2. Named(c, m) /\ Member(User(c), m.workspace)
      BY <1>1, <2>1, AtAct DEF Named, Own, Member, MemberIn
  <2>3. Archived' = Archived
      BY <1>4, <2>1 DEF Archived
  <2>4. Touched(monitors, monitors') \subseteq {m}
      BY <1>4 DEF Touched
  <2> QED BY <1>1, <1>2, <2>2, <2>3, <2>4 DEF Belongs, WritesBelong, Touched, IInv, SealedHold
<1> QED BY <1>3, <1>4 DEF CreateMonitor

(* The one monitor of the request's id and workspace is replaced. *)
LEMMA ReplaceBelongs ==
    ASSUME IInv, NEW c \in Clients, NEW m \in Found(c), NEW n,
           n.id = m.id, n.workspace = m.workspace,
           monitors' = (monitors \ {m}) \cup {n}, UNCHANGED <<channels, results>>,
           MemberIn(User(c), req[c].workspace, members),
           n.status = "archived" => m.status = "archived" \/ Owner(User(c), req[c].workspace),
           n.status = "archived" \/ req[c].id \notin sealed[c]
    PROVE  Belongs(c)
<1>1. m \in monitors /\ m.id = req[c].id /\ m.workspace = req[c].workspace
    BY FoundIsOne
<1>2. Touched(monitors, monitors') \subseteq {m, n}
    BY DEF Touched
<1>3. \A o \in {m, n} : Named(c, o) /\ Member(User(c), o.workspace)
    BY <1>1 DEF Named, Member, MemberIn
<1>4. ASSUME NEW o \in monitors, o.id \in Archived' \ Archived
      PROVE  Owner(User(c), o.workspace)
  <2>1. PICK p \in monitors' : p.id = o.id /\ p.status = "archived"
      BY <1>4 DEF Archived
  <2>2. p = n
      BY <1>4, <2>1 DEF Archived
  <2>3. o = m
      BY <1>1, <2>1, <2>2 DEF IInv, TypeOK
  <2>4. m.status # "archived"
      BY <1>4, <2>3 DEF Archived
  <2> QED BY <1>1, <2>1, <2>2, <2>3, <2>4
<1>5. ASSUME pc[c] # "idle", NEW id \in sealed[c]
      PROVE  id \in Archived'
  <2>1. PICK o \in monitors : o.id = id /\ o.status = "archived"
      BY <1>5 DEF IInv, SealedHold, Archived
  <2>2. CASE o = m
    <3>1. n \in monitors' /\ n.id = id /\ n.status = "archived"
        BY <1>1, <1>5, <2>1, <2>2
    <3> QED BY <3>1 DEF Archived
  <2>3. CASE o # m
    <3>1. o \in monitors'
        BY <2>3
    <3> QED BY <2>1, <3>1 DEF Archived
  <2> QED BY <2>2, <2>3
<1> QED BY <1>2, <1>3, <1>4, <1>5 DEF Belongs, WritesBelong, Touched

LEMMA PatchUpdatesBelongs ==
    ASSUME IInv, NEW c \in Clients, PatchUpdates(c)
    PROVE  Moves(c) /\ Belongs(c)
<1>1. pc[c] = "update" /\ UNCHANGED <<channels, results>>
    BY DEF PatchUpdates, At
<1>2. /\ req[c].op = "patch_monitor" /\ ValidBody(req[c]) /\ req[c] \in Requests
      /\ Authenticated(req[c].token) /\ req[c].id \notin sealed[c]
      /\ MemberIn(User(c), req[c].workspace, members)
    BY <1>1, AtPlace DEF IInv, Request, Own
<1>3. PICK m \in Found(c) : TRUE
    BY <1>1 DEF IInv, Request
<1>4. Found(c) = {m} /\ DOMAIN m = Columns /\ Stored(m)
    BY <1>3, FoundIsOne
<1> DEFINE n == Patched(m, req[c].body)
<1>5. /\ n.id = m.id /\ n.workspace = m.workspace
      /\ n.status = "archived" => m.status = "archived"
    BY <1>2, <1>4, PatchedIsStored
<1>6. monitors' = (monitors \ {m}) \cup {n}
  <2>1. {Patched(o, req[c].body) : o \in Found(c)} = {n}
      BY <1>4
  <2> QED BY <1>4, <2>1 DEF PatchUpdates
<1> HIDE DEF n
<1>7. Belongs(c)
    BY <1>1, <1>2, <1>3, <1>5, <1>6, ReplaceBelongs
<1>8. Moves(c)
    BY AnswerMoves, WriteMoves DEF PatchUpdates
<1> QED BY <1>7, <1>8

LEMMA DeleteMonitorBelongs ==
    ASSUME IInv, NEW c \in Clients, DeleteMonitor(c)
    PROVE  Moves(c) /\ Belongs(c)
<1>1. /\ At(c, "act") /\ req[c].op = "delete_monitor"
      /\ monitors' = (monitors \ Found(c))
                       \cup {[m EXCEPT !.status = "archived"] : m \in Found(c)}
      /\ UNCHANGED <<channels, results>>
    BY DEF DeleteMonitor, Acts
<1>2. Moves(c)
    BY AnswerMoves, WriteMoves DEF DeleteMonitor
<1>3. CASE Found(c) = {}
  <2>1. UNCHANGED monitors
      BY <1>1, <1>3
  <2> QED BY <1>1, <1>2, <2>1, QuietBelongs
<1>4. CASE Found(c) # {}
  <2>1. PICK m \in Found(c) : TRUE
      BY <1>4
  <2>2. Found(c) = {m} /\ DOMAIN m = Columns
      BY <2>1, FoundIsOne
  <2> DEFINE n == [m EXCEPT !.status = "archived"]
  <2>3. monitors' = (monitors \ {m}) \cup {n}
      BY <1>1, <2>2
  <2>4. n.id = m.id /\ n.workspace = m.workspace /\ n.status = "archived"
      BY <2>2 DEF Columns
  <2>5. Owner(User(c), req[c].workspace) /\ MemberIn(User(c), req[c].workspace, members)
      BY <1>1, AtAct DEF Own, OwnersOnly
  <2> HIDE DEF n
  <2> QED BY <1>1, <1>2, <2>1, <2>3, <2>4, <2>5, ReplaceBelongs
<1> QED BY <1>3, <1>4

LEMMA ChannelsBelong ==
    ASSUME IInv, NEW c \in Clients, CreateChannel(c) \/ DeleteChannel(c)
    PROVE  Moves(c) /\ Belongs(c)
<1>1. At(c, "act") /\ req[c].op \in {"create_channel", "delete_channel"}
      /\ UNCHANGED <<monitors, results>>
    BY DEF CreateChannel, DeleteChannel, Acts
<1>2. Owner(User(c), req[c].workspace)
    BY <1>1, AtAct DEF OwnersOnly
<1>3. \A h \in Touched(channels, channels') : h.workspace = req[c].workspace
    BY DEF CreateChannel, DeleteChannel, Touched
<1>4. Moves(c)
    BY AnswerMoves, WriteMoves DEF CreateChannel, DeleteChannel
<1>5. Archived' = Archived
    BY <1>1 DEF Archived
<1> QED BY <1>1, <1>2, <1>3, <1>4, <1>5 DEF Belongs, WritesBelong, Named, Touched, IInv, SealedHold

LEMMA CheckResultBelongs ==
    ASSUME IInv, NEW c \in Clients, CreateCheckResult(c)
    PROVE  Moves(c) /\ Belongs(c)
<1>1. At(c, "act") /\ req[c].op = "create_check_result" /\ UNCHANGED <<monitors, channels>>
    BY DEF CreateCheckResult, Acts
<1>2. Moves(c)
    BY AnswerMoves, WriteMoves DEF CreateCheckResult
<1>3. CASE UNCHANGED results
    BY <1>1, <1>2, <1>3, QuietBelongs
<1>4. CASE \E m \in Found(c) : \E r : r.monitor = m.id /\ results' = results \cup {r}
  <2>1. PICK m \in Found(c) : \E r : r.monitor = m.id /\ results' = results \cup {r}
      BY <1>4
  <2>2. m \in monitors /\ Named(c, m) /\ Member(User(c), m.workspace)
      BY <1>1, <2>1, FoundIsOne, AtAct DEF Named, Own, Member, MemberIn
  <2>3. Archived' = Archived
      BY <1>1 DEF Archived
  <2> QED BY <1>1, <1>2, <2>1, <2>2, <2>3 DEF Belongs, WritesBelong, Touched, IInv, SealedHold
<1>5. (UNCHANGED results) \/ \E m \in Found(c) : \E r : r.monitor = m.id /\ results' = results \cup {r}
    BY DEF CreateCheckResult
<1> QED BY <1>3, <1>4, <1>5

LEMMA StepBelongs ==
    ASSUME IInv, Next
    PROVE  \E c \in Clients : Moves(c) /\ Belongs(c)
<1>1. PICK c \in Clients : Receive(c) \/ Handle(c) \/ Fails(c)
    BY DEF Next
<1>2. Moves(c) /\ Belongs(c)
    BY <1>1, ReadersBelong, TransactionsBelong, CreateMonitorBelongs, PatchUpdatesBelongs,
       DeleteMonitorBelongs, ChannelsBelong, CheckResultBelongs DEF Handle
<1> QED BY <1>2

-----------------------------------------------------------------------------
(* Every row, place and request keeps its type; what create_monitor and    *)
(* patch_monitor write passes the constraints of the table.                *)
THEOREM TypeCorrect == Spec => []TypeOK
<1>1. IInv => TypeOK
    BY DEF IInv
<1> QED BY <1>1, AlwaysIInv, PTL

(* A workspace and its owner's membership appear together or not at all,   *)
(* wherever create_workspace is cut off.                                   *)
THEOREM WorkspacesAreWhole == Spec => []WorkspacesHaveTheirOwner
<1>1. IInv => WorkspacesHaveTheirOwner
    BY DEF IInv
<1> QED BY <1>1, AlwaysIInv, PTL

(* No two workspaces, committed or not yet, have one slug, however many    *)
(* create_workspace requests race for it.                                  *)
THEOREM SlugsStayUnique == Spec => []SlugsAreUnique
<1>1. IInv => SlugsAreUnique
    BY DEF IInv
<1> QED BY <1>1, AlwaysIInv, PTL

(* What a 201 told of is in the tables ever after.                         *)
THEOREM AcknowledgedRowsStay == Spec => []AcknowledgedIsStored
<1>1. IInv => AcknowledgedIsStored
    BY DEF IInv, AllGood, Good, Kept, AcknowledgedIsStored
<1> QED BY <1>1, AlwaysIInv, PTL

LEMMA HousedIsHome ==
    ASSUME IInv, NEW q, NEW row, q.op # "me", Housed(q, row, monitors, members)
    PROVE  Member(q.token.sub, Home(q, row))
<1>1. CASE q.op \in {"list_workspaces", "create_workspace"}
    BY <1>1 DEF Housed, Home, Member, MemberIn
<1>2. CASE q.op \in OfMonitors
  <2>1. PICK m \in monitors : m.id = row.monitor /\ MemberIn(q.token.sub, m.workspace, members)
      BY <1>2 DEF Housed, OfMonitors
  <2>2. m = CHOOSE n \in monitors : n.id = row.monitor
      BY <2>1 DEF IInv, TypeOK
  <2>3. Home(q, row) = m.workspace
      BY <1>2, <2>2 DEF Home, OfMonitors
  <2> QED BY <2>1, <2>3 DEF Member, MemberIn
<1>3. CASE q.op \notin {"list_workspaces", "create_workspace"} /\ q.op \notin OfMonitors
    BY <1>3 DEF Housed, Home, Member, MemberIn, OfMonitors
<1> QED BY <1>1, <1>2, <1>3

(* No answer ever holds a row of a workspace whose member the asking user  *)
(* is not.                                                                 *)
THEOREM RowsStayHome == Spec => []RowsStayInTheirWorkspace
<1>1. ASSUME IInv PROVE RowsStayInTheirWorkspace
    BY <1>1, HousedIsHome DEF IInv, AllGood, Good, RowsStayInTheirWorkspace
<1> QED BY <1>1, AlwaysIInv, PTL

(* Every step that touches a monitor, a channel or a result is one of a    *)
(* member, or of an owner where the route asks one, of its workspace, which *)
(* is the one the request in hand named.                                   *)
THEOREM WritersAreMembers == Spec => WritersBelong
<1> DEFINE A == \A c \in Clients : pc'[c] # pc[c] => WritesBelong(c)
<1>1. ASSUME IInv, Next PROVE A
    BY <1>1, StepBelongs DEF Moves, Belongs
<1>2. IInv /\ [Next]_vars => [A]_vars
    BY <1>1
<1> QED BY <1>2, AlwaysIInv, PTL DEF Spec, WritersBelong

(* A patch received once its monitor is archived never revives it: only    *)
(* one that overlaps the archive can.                                      *)
THEOREM RevivalNeedsOverlap == Spec => RevivedOnlyByOverlap
<1> DEFINE A == \A c \in Clients : \A id \in sealed[c] :
         (pc'[c] # pc[c] /\ pc[c] # "idle") => id \in Archived'
<1>1. ASSUME IInv, Next PROVE A
    BY <1>1, StepBelongs DEF Moves, Belongs
<1>2. IInv /\ [Next]_vars => [A]_vars
    BY <1>1
<1> QED BY <1>2, AlwaysIInv, PTL DEF Spec, RevivedOnlyByOverlap

-----------------------------------------------------------------------------
(* The rest of what tells rows apart: the keys of channels and incidents,  *)
(* and the order of results.                                               *)
ChannelsApart ==
    /\ \A h \in channels : h.id \in 1 .. uuids
    /\ \A g, h \in channels : g.id = h.id => g = h

IncidentsApart ==
    /\ incidents \subseteq [id : 1 .. uuids, monitor : Nat, open : BOOLEAN]
    /\ \A i, j \in incidents : i.id = j.id => i = j

ResultsBefore == \A r \in results : r.at \in 1 .. uuids

RowsApart == ChannelsApart /\ IncidentsApart /\ ResultsBefore

LEMMA InitRowsApart == Init => RowsApart
<1> SUFFICES ASSUME NEW s \in Scenarios, InitWith(s.world, s.scripts, s.faults)
             PROVE  RowsApart
    BY DEF Init
<1>1. PossibleWorld(s.world)
    BY ScenariosAssumption
<1>2. /\ channels = s.world.channels /\ results = s.world.results
      /\ incidents = s.world.incidents /\ uuids = 100
    BY DEF InitWith
<1>3. ChannelsApart
    BY <1>1, <1>2 DEF PossibleWorld, ChannelsApart
<1>4. IncidentsApart
    BY <1>1, <1>2 DEF PossibleWorld, IncidentsApart
<1>5. ResultsBefore
    BY <1>1, <1>2 DEF PossibleWorld, ResultsBefore
<1> QED BY <1>3, <1>4, <1>5 DEF RowsApart

(* The rows stay apart while other tables change. *)
LEMMA ApartStays ==
    ASSUME IInv, RowsApart, UNCHANGED <<channels, incidents, results>>,
           uuids' = uuids \/ uuids' = Uuid
    PROVE  RowsApart'
<1>1. uuids \in Nat /\ uuids' \in Nat /\ uuids' >= uuids
    BY DEF IInv, TypeOK, Uuid
<1>2. ChannelsApart' /\ ResultsBefore'
    BY <1>1 DEF RowsApart, ChannelsApart, ResultsBefore
<1>3. IncidentsApart'
    BY <1>1 DEF RowsApart, IncidentsApart
<1> QED BY <1>2, <1>3 DEF RowsApart

(* What a client's step writes is what Tenancy lets its request write, or  *)
(* nothing.                                                                *)
Lawful(c) == Tenants!Writes(Asking(c)) \/ UNCHANGED tables

LEMMA AskingTells ==
    ASSUME NEW c
    PROVE  /\ Asking(c).user = User(c) /\ Asking(c).op = req[c].op
           /\ Asking(c).workspace = req[c].workspace /\ Asking(c).id = req[c].id
BY DEF Asking

LEMMA QuietIsLawful ==
    ASSUME IInv, RowsApart, NEW c, UNCHANGED tables, uuids' = uuids \/ uuids' = Uuid
    PROVE  Lawful(c) /\ RowsApart'
<1>1. RowsApart'
    BY ApartStays DEF tables
<1> QED BY <1>1 DEF Lawful

LEMMA ReadersAreLawful ==
    ASSUME IInv, RowsApart, NEW c \in Clients,
           \/ Receive(c) \/ Fails(c) \/ Authorize(c) \/ WorkspaceExists(c) \/ ResolveMonitor(c)
           \/ Me(c) \/ ListWorkspaces(c) \/ ListMonitors(c) \/ GetMonitor(c)
           \/ ListCheckResults(c) \/ ListOpenIncidents(c) \/ ListChannels(c)
           \/ PatchReadsStatus(c)
           \/ BeginWorkspace(c) \/ InsertWorkspace(c) \/ InsertMember(c) \/ SelectWorkspace(c)
    PROVE  Lawful(c) /\ RowsApart'
<1>1. UNCHANGED tables
    BY DEF ReadOnly, Receive, Fails, Authorize, WorkspaceExists, ResolveMonitor, Me, ListWorkspaces,
           ListMonitors, GetMonitor, ListCheckResults, ListOpenIncidents, ListChannels,
           PatchReadsStatus, BeginWorkspace, InsertWorkspace, InsertMember, SelectWorkspace
<1>2. uuids' = uuids \/ uuids' = Uuid
    BY DEF ReadOnly, Receive, Fails, Authorize, WorkspaceExists, ResolveMonitor, Me, ListWorkspaces,
           ListMonitors, GetMonitor, ListCheckResults, ListOpenIncidents, ListChannels,
           PatchReadsStatus, BeginWorkspace, InsertWorkspace, InsertMember, SelectWorkspace
<1> QED BY <1>1, <1>2, QuietIsLawful

(* The rights that a request was checked for hold when it writes. *)
LEMMA MembersBelong ==
    ASSUME NEW c, MemberIn(User(c), req[c].workspace, members)
    PROVE  Tenants!Belongs(Asking(c))
BY AskingTells DEF MemberIn, Tenants!Belongs

LEMMA OwnersOwn ==
    ASSUME NEW c, Owner(User(c), req[c].workspace)
    PROVE  Tenants!Owns(Asking(c))
BY AskingTells DEF Owner, Tenants!Owns

LEMMA CommitIsLawful ==
    ASSUME IInv, RowsApart, NEW c \in Clients, CommitWorkspace(c)
    PROVE  Lawful(c) /\ RowsApart'
<1>1. pc[c] = "commit"
      /\ UNCHANGED <<monitors, channels, results, incidents, pending, uuids>>
    BY DEF CommitWorkspace, At
<1>2. PICK w : staged[c] = [workspaces |-> {w}, members |-> {OwnerRow(w)}] /\ w.owner = User(c)
    BY <1>1 DEF IInv, Request, StagedAt
<1>3. workspaces' = workspaces \cup {w} /\ members' = members \cup {OwnerRow(w)}
    BY <1>2 DEF CommitWorkspace
<1>4. w \in Spaces /\ w \notin workspaces /\ \A v \in workspaces : v \in Spaces
    BY <1>2 DEF Spaces, IInv, SpacesApart, StagedApart
<1>5. \A v \in workspaces : v.id # w.id /\ v.slug # w.slug
  <2>1. \A u, v \in Spaces : u.slug = v.slug => u = v
      BY DEF IInv, SlugsAreUnique, Spaces
  <2> QED BY <1>4, <2>1 DEF IInv, SpacesApart
<1>6. \A m \in members : m.workspace # w.id
    BY <1>5 DEF IInv, WorkspacesHaveTheirOwner
<1>7. Tenants!OwnerOf(w) = OwnerRow(w)
    BY DEF Tenants!OwnerOf, OwnerRow
<1>8. Asking(c).op = "create_workspace" /\ Asking(c).user = w.owner
    BY <1>1, <1>2, AskingTells DEF IInv, Request
<1>9. w \in workspaces' \ workspaces
    BY <1>3, <1>4
<1>10. Tenants!CreateWorkspace(Asking(c))
    BY <1>1, <1>3, <1>5, <1>6, <1>7, <1>8, <1>9 DEF Tenants!CreateWorkspace, Tenants!New
<1>11. RowsApart'
    BY <1>1, ApartStays
<1> QED BY <1>10, <1>11 DEF Lawful, Tenants!Writes

-----------------------------------------------------------------------------
(* Monitors *)
LEMMA CreateMonitorIsLawful ==
    ASSUME IInv, RowsApart, NEW c \in Clients, CreateMonitor(c)
    PROVE  Lawful(c) /\ RowsApart'
<1>1. /\ At(c, "act") /\ req[c].op = "create_monitor"
      /\ UNCHANGED <<workspaces, members, channels, results, incidents, pending>>
    BY DEF CreateMonitor, Acts
<1>2. CASE UNCHANGED <<monitors, uuids>>
    BY <1>1, <1>2, QuietIsLawful DEF tables
<1> DEFINE m == NewMonitor(Uuid, req[c].workspace, req[c].body)
<1>3. CASE ValidBody(req[c]) /\ monitors' = monitors \cup {m} /\ uuids' = Uuid
  <2>1. m.id = Uuid /\ m.workspace = req[c].workspace /\ m.status = "active"
      BY <1>1, <1>3, AtAct, NewIsStored
  <2> HIDE DEF m
  <2>2. \A n \in monitors : n.id # m.id
      BY <2>1 DEF IInv, TypeOK, Uuid
  <2>3. Tenants!Belongs(Asking(c)) /\ Asking(c).op = "create_monitor"
        /\ m.workspace = Asking(c).workspace
      BY <1>1, <2>1, AtAct, MembersBelong, AskingTells DEF Own
  <2>4. m \in monitors' \ monitors
      BY <1>3, <2>2
  <2>5. Tenants!CreateMonitor(Asking(c))
      BY <1>1, <1>3, <2>1, <2>2, <2>3, <2>4 DEF Tenants!CreateMonitor, Tenants!New
  <2>6. RowsApart'
      BY <1>1, <1>3, ApartStays
  <2> QED BY <2>5, <2>6 DEF Lawful, Tenants!Writes
<1> QED BY <1>2, <1>3 DEF CreateMonitor

LEMMA ReplaceIsLawful ==
    ASSUME IInv, RowsApart, NEW c \in Clients, NEW m \in Found(c), NEW n,
           n.id = m.id, n.workspace = m.workspace, n.kind = m.kind,
           monitors' = (monitors \ {m}) \cup {n},
           UNCHANGED <<workspaces, members, channels, results, incidents, pending, uuids>>,
           \/ /\ req[c].op = "patch_monitor" /\ MemberIn(User(c), req[c].workspace, members)
              /\ n.status = "archived" => m.status = "archived"
           \/ /\ req[c].op = "delete_monitor" /\ Owner(User(c), req[c].workspace)
              /\ n.status = "archived"
    PROVE  Lawful(c) /\ RowsApart'
<1>1. m \in monitors /\ m.id = req[c].id /\ m.workspace = req[c].workspace
    BY DEF Found
<1>2. Tenants!Named(Asking(c), m) /\ Tenants!Named(Asking(c), n)
    BY <1>1, AskingTells DEF Tenants!Named
<1>3. \/ /\ Asking(c).op = "patch_monitor" /\ Tenants!Belongs(Asking(c))
         /\ n.status = "archived" => m.status = "archived"
      \/ /\ Asking(c).op = "delete_monitor" /\ Tenants!Owns(Asking(c))
         /\ n.status = "archived"
    BY MembersBelong, OwnersOwn, AskingTells
<1>4. Tenants!ChangeMonitor(Asking(c))
    BY <1>1, <1>2, <1>3 DEF Tenants!ChangeMonitor
<1>5. RowsApart'
    BY ApartStays
<1> QED BY <1>4, <1>5 DEF Lawful, Tenants!Writes

LEMMA PatchUpdatesIsLawful ==
    ASSUME IInv, RowsApart, NEW c \in Clients, PatchUpdates(c)
    PROVE  Lawful(c) /\ RowsApart'
<1>1. /\ pc[c] = "update"
      /\ UNCHANGED <<workspaces, members, channels, results, incidents, pending, uuids>>
    BY DEF PatchUpdates, At
<1>2. /\ req[c].op = "patch_monitor" /\ ValidBody(req[c]) /\ req[c] \in Requests
      /\ Authenticated(req[c].token)
      /\ MemberIn(User(c), req[c].workspace, members)
    BY <1>1, AtPlace DEF IInv, Request, Own
<1>3. PICK m \in Found(c) : TRUE
    BY <1>1 DEF IInv, Request
<1>4. Found(c) = {m} /\ DOMAIN m = Columns /\ Stored(m)
    BY <1>3, FoundIsOne
<1> DEFINE n == Patched(m, req[c].body)
<1>5. /\ n.id = m.id /\ n.workspace = m.workspace
      /\ n.status = "archived" => m.status = "archived"
    BY <1>2, <1>4, PatchedIsStored
<1>6. n.kind = m.kind
    BY <1>4 DEF Patched, Columns, PatchFields, Counts
<1>7. monitors' = (monitors \ {m}) \cup {n}
  <2>1. {Patched(o, req[c].body) : o \in Found(c)} = {n}
      BY <1>4
  <2> QED BY <1>4, <2>1 DEF PatchUpdates
<1> HIDE DEF n
<1> QED BY <1>1, <1>2, <1>3, <1>5, <1>6, <1>7, ReplaceIsLawful

LEMMA DeleteMonitorIsLawful ==
    ASSUME IInv, RowsApart, NEW c \in Clients, DeleteMonitor(c)
    PROVE  Lawful(c) /\ RowsApart'
<1>1. /\ At(c, "act") /\ req[c].op = "delete_monitor"
      /\ monitors' = (monitors \ Found(c))
                       \cup {[m EXCEPT !.status = "archived"] : m \in Found(c)}
      /\ UNCHANGED <<workspaces, members, channels, results, incidents, pending, uuids>>
    BY DEF DeleteMonitor, Acts
<1>2. CASE Found(c) = {}
  <2>1. UNCHANGED tables
      BY <1>1, <1>2 DEF tables
  <2> QED BY <1>1, <2>1, QuietIsLawful
<1>3. CASE Found(c) # {}
  <2>1. PICK m \in Found(c) : TRUE
      BY <1>3
  <2>2. Found(c) = {m} /\ DOMAIN m = Columns
      BY <2>1, FoundIsOne
  <2> DEFINE n == [m EXCEPT !.status = "archived"]
  <2>3. monitors' = (monitors \ {m}) \cup {n}
      BY <1>1, <2>2
  <2>4. n.id = m.id /\ n.workspace = m.workspace /\ n.kind = m.kind /\ n.status = "archived"
      BY <2>2 DEF Columns
  <2>5. Owner(User(c), req[c].workspace)
      BY <1>1, AtAct DEF Own, OwnersOnly
  <2> HIDE DEF n
  <2> QED BY <1>1, <2>1, <2>3, <2>4, <2>5, ReplaceIsLawful
<1> QED BY <1>2, <1>3

-----------------------------------------------------------------------------
(* Channels *)
LEMMA CreateChannelIsLawful ==
    ASSUME IInv, RowsApart, NEW c \in Clients, CreateChannel(c)
    PROVE  Lawful(c) /\ RowsApart'
<1> DEFINE h == [id |-> Uuid, workspace |-> req[c].workspace,
                 kind |-> req[c].body.kind, target |-> req[c].body.target]
<1>1. /\ At(c, "act") /\ req[c].op = "create_channel"
      /\ UNCHANGED <<workspaces, members, monitors, results, incidents, pending>>
    BY DEF CreateChannel, Acts
<1>2. CASE UNCHANGED <<channels, uuids>>
    BY <1>1, <1>2, QuietIsLawful DEF tables
<1>3. CASE channels' = channels \cup {h} /\ uuids' = Uuid
  <2>1. h.id = Uuid /\ h.workspace = req[c].workspace
      OBVIOUS
  <2> HIDE DEF h
  <2>2. uuids \in Nat /\ Uuid = uuids + 1
      BY DEF IInv, TypeOK, Uuid
  <2>3. \A g \in channels : g.id \in 1 .. uuids /\ g.id # h.id
      BY <2>1, <2>2 DEF RowsApart, ChannelsApart
  <2>4. Tenants!Owns(Asking(c)) /\ Asking(c).op = "create_channel"
        /\ h.workspace = Asking(c).workspace
      BY <1>1, <2>1, AtAct, OwnersOwn, AskingTells DEF OwnersOnly
  <2>5. h \in channels' \ channels
      BY <1>3, <2>3
  <2>6. Tenants!CreateChannel(Asking(c))
      BY <1>1, <1>3, <2>3, <2>4, <2>5 DEF Tenants!CreateChannel, Tenants!New
  <2>7. ChannelsApart'
      BY <1>3, <2>1, <2>2, <2>3 DEF RowsApart, ChannelsApart
  <2>8. IncidentsApart' /\ ResultsBefore'
      BY <1>1, <1>3, <2>2 DEF RowsApart, IncidentsApart, ResultsBefore
  <2> QED BY <2>6, <2>7, <2>8 DEF Lawful, Tenants!Writes, RowsApart
<1> QED BY <1>2, <1>3 DEF CreateChannel

LEMMA DeleteChannelIsLawful ==
    ASSUME IInv, RowsApart, NEW c \in Clients, DeleteChannel(c)
    PROVE  Lawful(c) /\ RowsApart'
<1> DEFINE found == {h \in channels : h.id = req[c].id /\ h.workspace = req[c].workspace}
<1>1. /\ At(c, "act") /\ req[c].op = "delete_channel" /\ channels' = channels \ found
      /\ UNCHANGED <<workspaces, members, monitors, results, incidents, pending, uuids>>
    BY DEF DeleteChannel, Acts
<1>2. RowsApart'
    BY <1>1 DEF RowsApart, ChannelsApart, IncidentsApart, ResultsBefore
<1>3. CASE found = {}
    BY <1>1, <1>3, QuietIsLawful DEF tables
<1>4. CASE found # {}
  <2>1. PICK h \in channels : h.id = req[c].id /\ h.workspace = req[c].workspace
      BY <1>4
  <2>2. found = {h}
      BY <2>1 DEF RowsApart, ChannelsApart
  <2>3. Tenants!Owns(Asking(c)) /\ Asking(c).op = "delete_channel"
        /\ Tenants!Named(Asking(c), h)
      BY <1>1, <2>1, AtAct, OwnersOwn, AskingTells DEF OwnersOnly, Tenants!Named
  <2>4. Tenants!DeleteChannel(Asking(c))
      BY <1>1, <2>2, <2>3 DEF Tenants!DeleteChannel
  <2> QED BY <1>2, <2>4 DEF Lawful, Tenants!Writes
<1> QED BY <1>3, <1>4

-----------------------------------------------------------------------------
(* Results: the newest one is in the window that decides. *)
LEMMA NewestDecides ==
    ASSUME IInv, RowsApart, NEW history, history \subseteq results,
           NEW r, r.at = Uuid, NEW n \in Nat \ {0}, NEW s,
           Streak(history \cup {r}, n, s)
    PROVE  r.status = s
<1>1. \A q \in history \cup {r} : ~(q.at > r.at)
    BY DEF RowsApart, ResultsBefore, IInv, TypeOK, Uuid
<1>2. {q \in history \cup {r} : q.at > r.at} = {}
    BY <1>1
<1>3. Cardinality({q \in history \cup {r} : q.at > r.at}) < n
    BY <1>2, FS_EmptySet
<1>4. r \in Recent(history \cup {r}, n)
    BY <1>3 DEF Recent
<1> QED BY <1>4 DEF Streak

LEMMA CheckResultIsLawful ==
    ASSUME IInv, RowsApart, NEW c \in Clients, CreateCheckResult(c)
    PROVE  Lawful(c) /\ RowsApart'
<1>1. /\ At(c, "act") /\ req[c].op = "create_check_result"
      /\ UNCHANGED <<workspaces, members, monitors, channels>>
    BY DEF CreateCheckResult, Acts
<1>2. CASE UNCHANGED <<results, incidents, pending, uuids>>
    BY <1>1, <1>2, QuietIsLawful DEF tables
<1>3. CASE ~UNCHANGED <<results, incidents, pending, uuids>>
  <2> DEFINE R(m) == [monitor |-> m.id, status |-> req[c].body.status, at |-> Uuid]
             H(m) == {q \in results : q.monitor = m.id} \cup {R(m)}
             Op(m) == /\ m.status = "active" /\ Open(m.id) = {}
                      /\ Streak(H(m), m.failure_threshold, "down")
             Cl(m) == /\ m.status = "active" /\ Open(m.id) # {}
                      /\ Streak(H(m), m.recovery_threshold, "up")
             I(m) == [id |-> Uuid, monitor |-> m.id, open |-> TRUE]
  <2>1. uuids' = Uuid
      BY <1>3 DEF CreateCheckResult
  <2>2. PICK m \in Found(c) :
          /\ results' = results \cup {R(m)}
          /\ incidents' = IF Op(m) THEN incidents \cup {I(m)}
               ELSE IF Cl(m) THEN (incidents \ Open(m.id))
                                    \cup {[i EXCEPT !.open = FALSE] : i \in Open(m.id)}
               ELSE incidents
          /\ pending' = pending \cup
               {[incident |-> Uuid, channel |-> h] :
                  h \in {x \in channels : Op(m) /\ x.workspace = m.workspace}}
      BY <1>3 DEF CreateCheckResult
  <2>3. /\ m \in monitors /\ m.workspace = req[c].workspace /\ m.id \in 1 .. uuids
        /\ m.failure_threshold \in Nat \ {0} /\ m.recovery_threshold \in Nat \ {0}
      BY FoundIsOne DEF Stored, Counts
  <2> DEFINE r == R(m)
             i == I(m)
  <2>4. /\ r.monitor = m.id /\ r.at = Uuid
        /\ i = [id |-> Uuid, monitor |-> m.id, open |-> TRUE] /\ i.id = Uuid
        /\ i.monitor = m.id /\ i.open
      OBVIOUS
  <2>5. uuids \in Nat /\ Uuid = uuids + 1
      BY DEF IInv, TypeOK, Uuid
  <2>6. Tenants!Belongs(Asking(c)) /\ Asking(c).op = "create_check_result"
        /\ Tenants!Named(Asking(c), m)
      BY <1>1, AtAct, MembersBelong, AskingTells DEF Own, Found, Tenants!Named
  <2>7. (\A q \in results : q.at < r.at) /\ r \in results' \ results
      BY <2>2, <2>4, <2>5 DEF RowsApart, ResultsBefore
  <2>8. /\ Op(m) => r.status = "down"
        /\ Cl(m) => r.status = "up"
    <3> DEFINE history == {q \in results : q.monitor = m.id}
    <3>1. history \subseteq results /\ H(m) = history \cup {r}
        OBVIOUS
    <3> HIDE DEF history, r
    <3>2. /\ Streak(history \cup {r}, m.failure_threshold, "down") => r.status = "down"
          /\ Streak(history \cup {r}, m.recovery_threshold, "up") => r.status = "up"
        BY <2>3, <2>4, <3>1, NewestDecides
    <3> QED BY <3>1, <3>2
  <2>9. ChannelsApart' /\ ResultsBefore'
      BY <1>1, <2>1, <2>2, <2>4, <2>5 DEF RowsApart, ChannelsApart, ResultsBefore
  <2>10. \A j \in incidents : j.id \in 1 .. uuids /\ j.id # Uuid
      BY <2>5 DEF RowsApart, IncidentsApart
  <2>11. /\ Op(m) => m.status = "active" /\ \A j \in incidents : ~(j.monitor = m.id /\ j.open)
         /\ Cl(m) => m.status = "active" /\ \E j \in incidents : j.monitor = m.id /\ j.open
    <3>1. /\ Op(m) => m.status = "active" /\ Open(m.id) = {}
          /\ Cl(m) => m.status = "active" /\ Open(m.id) # {}
        OBVIOUS
    <3> HIDE DEF Op, Cl
    <3> QED BY <3>1 DEF Open
  <2> DEFINE Recorded ==
               /\ Tenants!Opens(m, r) \/ Tenants!Closes(m, r) \/ UNCHANGED <<incidents, pending>>
               /\ IncidentsApart'
  <2> HIDE DEF r, i, Op, Cl
  <2>12. ASSUME Op(m) PROVE Recorded
    <3>1. incidents' = incidents \cup {i}
        BY <2>2, <2>12 DEF i
    <3>2. pending' = pending \cup
            {[incident |-> i.id, channel |-> h] : h \in {x \in channels : x.workspace = m.workspace}}
      <4>1. {x \in channels : Op(m) /\ x.workspace = m.workspace}
              = {x \in channels : x.workspace = m.workspace}
          BY <2>12
      <4> QED BY <2>2, <2>4, <4>1
    <3>3. \A j \in incidents : ~(j.monitor = m.id /\ j.open)
        BY <2>12, <2>11
    <3>4. Tenants!OpenOf(m) = {} /\ i \in incidents' \ incidents
        BY <2>4, <2>10, <3>1, <3>3 DEF Tenants!OpenOf
    <3>5. Tenants!Opens(m, r)
        BY <2>4, <2>8, <2>10, <2>12, <2>11, <3>1, <3>2, <3>4 DEF Tenants!Opens, Tenants!New
    <3>6. IncidentsApart'
      <4>1. i \in [id : 1 .. uuids', monitor : Nat, open : BOOLEAN]
          BY <2>1, <2>3, <2>4, <2>5
      <4>2. incidents' \subseteq [id : 1 .. uuids', monitor : Nat, open : BOOLEAN]
          BY <2>1, <2>5, <3>1, <4>1 DEF RowsApart, IncidentsApart
      <4>3. \A j, k \in incidents' : j.id = k.id => j = k
        <5>1. \A j, k \in incidents : j.id = k.id => j = k
            BY DEF RowsApart, IncidentsApart
        <5>2. \A j \in incidents : j.id # i.id
            BY <2>4, <2>10
        <5> QED BY <3>1, <5>1, <5>2
      <4> QED BY <4>2, <4>3 DEF IncidentsApart
    <3> QED BY <3>5, <3>6
  <2>13. ASSUME ~Op(m) /\ Cl(m) PROVE Recorded
    <3>1. Open(m.id) = Tenants!OpenOf(m) /\ Tenants!OpenOf(m) # {}
        BY <2>13, <2>11 DEF Open, Tenants!OpenOf
    <3> DEFINE opened == Tenants!OpenOf(m)
               closed == {[j EXCEPT !.open = FALSE] : j \in opened}
    <3>2. incidents' = (incidents \ opened) \cup closed
        BY <2>2, <2>13, <3>1
    <3>3. pending' = pending
        BY <2>2, <2>13
    <3>4. Tenants!Closes(m, r)
        BY <2>8, <2>11, <2>13, <3>1, <3>2, <3>3 DEF Tenants!Closes
    <3>5. opened \subseteq incidents
        BY DEF Tenants!OpenOf
    <3>6. \A j \in opened : [j EXCEPT !.open = FALSE].id = j.id
        BY <3>5 DEF RowsApart, IncidentsApart
    <3>7. closed \subseteq [id : 1 .. uuids, monitor : Nat, open : BOOLEAN]
        BY <3>5 DEF RowsApart, IncidentsApart
    <3> HIDE DEF opened
    <3>8. incidents' \subseteq [id : 1 .. uuids', monitor : Nat, open : BOOLEAN]
        BY <2>1, <2>5, <3>2, <3>7 DEF RowsApart, IncidentsApart
    <3>9. \A x, y \in incidents' : x.id = y.id => x = y
      <4>1. \A x \in incidents' : \E j \in incidents :
              x.id = j.id /\ x = IF j \in opened THEN [j EXCEPT !.open = FALSE] ELSE j
          BY <3>2, <3>5, <3>6
      <4>2. \A j, k \in incidents : j.id = k.id => j = k
          BY DEF RowsApart, IncidentsApart
      <4> TAKE x, y \in incidents'
      <4>3. PICK j \in incidents :
              x.id = j.id /\ x = IF j \in opened THEN [j EXCEPT !.open = FALSE] ELSE j
          BY <4>1
      <4>4. PICK k \in incidents :
              y.id = k.id /\ y = IF k \in opened THEN [k EXCEPT !.open = FALSE] ELSE k
          BY <4>1
      <4>5. x.id = y.id => j = k
          BY <4>2, <4>3, <4>4
      <4> QED BY <4>3, <4>4, <4>5
    <3> QED BY <3>4, <3>8, <3>9 DEF IncidentsApart
  <2>14. ASSUME ~Op(m) /\ ~Cl(m) PROVE Recorded
    <3>1. UNCHANGED <<incidents, pending>>
        BY <2>2, <2>14
    <3>2. IncidentsApart'
        BY <2>1, <2>5, <3>1 DEF RowsApart, IncidentsApart
    <3> QED BY <3>1, <3>2
  <2>15. Recorded
      BY <2>12, <2>13, <2>14
  <2>16. results' = results \cup {r}
      BY <2>2 DEF r
  <2>17. Tenants!RecordResult(Asking(c))
      BY <1>1, <2>3, <2>4, <2>6, <2>7, <2>15, <2>16 DEF Tenants!RecordResult
  <2> QED BY <2>9, <2>15, <2>17 DEF Lawful, Tenants!Writes, RowsApart
<1> QED BY <1>2, <1>3

(* The requests under way, as Tenancy sees them *)
UnderWay == {Asking(c) : c \in {d \in Clients : ~At(d, "idle")}}

LEMMA HandlerIsOnes ==
    ASSUME IInv, NEW c \in Clients, Handle(c) \/ Fails(c)
    PROVE  pc[c] # "idle" /\ req' = req /\ \E place : pc' = [pc EXCEPT ![c] = place]
<1>1. CASE Authorize(c) \/ WorkspaceExists(c) \/ ResolveMonitor(c) \/ PatchReadsStatus(c)
    BY <1>1 DEF Authorize, WorkspaceExists, ResolveMonitor, PatchReadsStatus, Acts, At, Goto,
                Answer, ReadOnly
<1>2. CASE \/ Me(c) \/ ListWorkspaces(c) \/ ListMonitors(c) \/ GetMonitor(c)
           \/ ListCheckResults(c) \/ ListOpenIncidents(c) \/ ListChannels(c)
    BY <1>2 DEF Me, ListWorkspaces, ListMonitors, GetMonitor, ListCheckResults,
                ListOpenIncidents, ListChannels, Acts, At, Answer, ReadOnly
<1>3. CASE \/ CreateMonitor(c) \/ PatchUpdates(c) \/ DeleteMonitor(c)
           \/ CreateChannel(c) \/ DeleteChannel(c) \/ CreateCheckResult(c)
    BY <1>3 DEF CreateMonitor, PatchUpdates, DeleteMonitor, CreateChannel, DeleteChannel,
                CreateCheckResult, Acts, At, Answer, AnswerWrite
<1>4. CASE \/ BeginWorkspace(c) \/ InsertWorkspace(c) \/ InsertMember(c)
           \/ SelectWorkspace(c) \/ CommitWorkspace(c)
    BY <1>4 DEF BeginWorkspace, InsertWorkspace, InsertMember, SelectWorkspace, CommitWorkspace,
                Acts, At, Goto, Answer, AnswerWrite, ReadOnly
<1>5. CASE Fails(c)
    BY <1>5 DEF Fails, At, Answer
<1> QED BY <1>1, <1>2, <1>3, <1>4, <1>5 DEF Handle

(* A client's step ends its request, or leaves it under way. *)
LEMMA RequestsEnd ==
    ASSUME IInv, NEW c \in Clients, Handle(c) \/ Fails(c)
    PROVE  /\ Asking(c) \in UnderWay
           /\ UnderWay' = UnderWay \ {Asking(c)} \/ UnderWay' = UnderWay
<1>1. PICK place : pc[c] # "idle" /\ req' = req /\ pc' = [pc EXCEPT ![c] = place]
    BY HandlerIsOnes
<1>2. pc'[c] = place /\ \A d \in Clients \ {c} : pc'[d] = pc[d]
    BY <1>1 DEF IInv, TypeOK
<1>3. \A d \in Clients : Asking(d)' = Asking(d)
    BY <1>1 DEF Asking, User
<1>4. \A q : q \in UnderWay <=> \E d \in Clients : pc[d] # "idle" /\ q = Asking(d)
    BY DEF UnderWay, At
<1>5. \A q : q \in UnderWay' <=> \E d \in Clients : pc'[d] # "idle" /\ q = Asking(d)
    BY <1>3 DEF UnderWay, At
<1>6. Asking(c) \in UnderWay
    BY <1>1, <1>4
<1> HIDE DEF UnderWay
<1>7. CASE place # "idle" \/ \E d \in Clients \ {c} : pc[d] # "idle" /\ Asking(d) = Asking(c)
    BY <1>1, <1>2, <1>4, <1>5, <1>7
<1>8. CASE place = "idle" /\ \A d \in Clients \ {c} : pc[d] # "idle" => Asking(d) # Asking(c)
    BY <1>1, <1>2, <1>4, <1>5, <1>8
<1> QED BY <1>6, <1>7, <1>8

LEMMA RequestsCome ==
    ASSUME IInv, NEW c \in Clients, Receive(c)
    PROVE  UnderWay' = UnderWay \/ \E q \in UnderWay' \ UnderWay : UnderWay' = UnderWay \cup {q}
<1>1. pc[c] = "idle" /\ \A d \in Clients \ {c} : pc'[d] = pc[d] /\ req'[d] = req[d]
    BY DEF Receive, At, IInv, TypeOK
<1>2. \A d \in Clients \ {c} : Asking(d)' = Asking(d)
    BY <1>1 DEF Asking, User
<1>3. \A q : q \in UnderWay <=> \E d \in Clients \ {c} : pc[d] # "idle" /\ q = Asking(d)
    BY <1>1 DEF UnderWay, At
<1>4. \A q : q \in UnderWay' <=>
        \/ \E d \in Clients \ {c} : pc[d] # "idle" /\ q = Asking(d)
        \/ pc'[c] # "idle" /\ q = Asking(c)'
    BY <1>1, <1>2 DEF UnderWay, At
<1> QED BY <1>3, <1>4

LEMMA StepsAreLawful ==
    IInv /\ RowsApart /\ [Next]_vars => [Tenants!Next]_(Tenants!tenancyVars) /\ RowsApart'
<1> SUFFICES ASSUME IInv, RowsApart, [Next]_vars
             PROVE  [Tenants!Next]_(Tenants!tenancyVars) /\ RowsApart'
    OBVIOUS
<1>1. CASE UNCHANGED vars
  <2>1. UNCHANGED tables /\ uuids' = uuids /\ UnderWay' = UnderWay
      BY <1>1 DEF vars, UnderWay, At, Asking, User
  <2>2. RowsApart'
      BY <2>1, ApartStays DEF tables
  <2> QED BY <2>1, <2>2 DEF Tenants!tenancyVars, Tenants!rows, tables, UnderWay
<1>2. ASSUME NEW c \in Clients, Receive(c)
      PROVE  [Tenants!Next]_(Tenants!tenancyVars) /\ RowsApart'
  <2>1. RowsApart' /\ UNCHANGED tables
      BY <1>2, ReadersAreLawful DEF Receive
  <2>2. UNCHANGED Tenants!tenancyVars \/ Tenants!Ask
      BY <1>2, <2>1, RequestsCome DEF Tenants!tenancyVars, Tenants!rows, tables, UnderWay, Tenants!Ask
  <2> QED BY <2>1, <2>2 DEF Tenants!Next
<1>3. ASSUME NEW c \in Clients, Handle(c) \/ Fails(c)
      PROVE  [Tenants!Next]_(Tenants!tenancyVars) /\ RowsApart'
  <2>1. Lawful(c) /\ RowsApart'
      BY <1>3, ReadersAreLawful, CommitIsLawful, CreateMonitorIsLawful, PatchUpdatesIsLawful,
         DeleteMonitorIsLawful, CreateChannelIsLawful, DeleteChannelIsLawful, CheckResultIsLawful
         DEF Handle
  <2>2. Tenants!End(Asking(c))
      BY <1>3, <2>1, RequestsEnd DEF Lawful, Tenants!End, Tenants!rows, tables, UnderWay
  <2> QED BY <1>3, <2>1, <2>2, RequestsEnd DEF Tenants!Next, UnderWay
<1> QED BY <1>1, <1>2, <1>3 DEF Next

(* Requests that interleave statement by statement, fail and are cut off   *)
(* write what Tenancy writes in single steps: no right, monitor or slug    *)
(* that was looked up earlier is stale when the write that needs it comes. *)
THEOREM RoutesAreTenancy == Spec => ImplementsTenancy
<1>1. Init => Tenants!Init
  <2> SUFFICES ASSUME Init PROVE Tenants!Init
      OBVIOUS
  <2>1. IInv /\ RowsApart
      BY InitIInv, InitRowsApart
  <2>2. pending = {} /\ \A c \in Clients : At(c, "idle")
      BY DEF Init, InitWith, At
  <2>3. \A w \in workspaces : OwnerRow(w) \in members
      BY <2>1 DEF IInv, WorkspacesHaveTheirOwner
  <2>4. \A v, w \in workspaces : v.id = w.id \/ v.slug = w.slug => v = w
      BY <2>1 DEF IInv, SpacesApart, SlugsAreUnique, Spaces
  <2> QED BY <2>1, <2>2, <2>3, <2>4 DEF Tenants!Init, Tenants!Apart, Tenants!OwnerOf, OwnerRow,
       RowsApart, ChannelsApart, IncidentsApart, IInv, TypeOK
<1> QED BY <1>1, InitRowsApart, StepsAreLawful, AlwaysIInv, PTL
        DEF Spec, ImplementsTenancy, Tenants!Spec
=============================================================================
