------------------------- MODULE IncidentEvaluation -------------------------
(***************************************************************************)
(* The transactions that write a check result and evaluate its monitor's   *)
(* incident: phase 2 of check_once in signalnode-core, and the API's       *)
(* create_check_result.  Both call evaluate_incident.  Each action is one  *)
(* SQL statement or one step between two of them; what a transaction wrote *)
(* stays in tx[w] until its COMMIT (READ COMMITTED: the others see the     *)
(* committed tables only, a transaction sees them and its own writes).     *)
(*                                                                         *)
(* The modelled tables are those of one workspace; no statement here reads *)
(* another workspace's rows.                                               *)
(***************************************************************************)
EXTENDS CheckHistory

CONSTANTS
    Monitors,     \* rows of monitors
    Channels,     \* rows of notification_channels that may exist
    Thresholds,   \* [failure, recovery] pairs a monitor may be given
    Statuses,     \* the values of monitors.status patched in, of "active", "paused", "archived"
    CoreWriters,  \* run_checker loops (one per signalnode-core process)
    ApiWriters,   \* concurrent POST .../check-results requests
    MaxWrites     \* bound: write transactions begun in a behaviour

Writers == CoreWriters \cup ApiWriters

ASSUME WritersAssumption == CoreWriters \cap ApiWriters = {}

ASSUME MonitorsAssumption == Monitors # {}

ASSUME ThresholdsAssumption ==
    /\ Thresholds \subseteq [failure : Nat \ {0}, recovery : Nat \ {0}]
    /\ Thresholds # {}

ASSUME StatusesAssumption ==
    "active" \in Statuses /\ Statuses \subseteq {"active", "paused", "archived"}

ASSUME MaxWritesAssumption == MaxWrites \in Nat

VARIABLES
    monitors,   \* the monitors table: status and thresholds
    channels,   \* the notification_channels table
    results,    \* the committed check_results, each with whether it was judged:
                \* whether its transaction called evaluate_incident
    incidents,  \* the committed incidents, with who opened each, by which
                \* failure threshold and on what evidence;
                \* closed_at is NOW() of the transaction that closed it, 0 for NULL
    pending,    \* the committed pending_notifications: [incident, channel]
    clock,      \* write transactions begun so far: NOW() of the last one
    pc, todo,   \* a writer's place, and the outcomes it has still to write
    job, tx,    \* the outcome being written, and its transaction's own writes
    reported    \* [writer, at] of the writes reported as done (a 201, a log line)

vars == <<monitors, channels, results, incidents, pending, clock, pc, todo,
          job, tx, reported>>
tables == <<results, incidents, pending>>

Times == 1 .. MaxWrites
Outcome == [monitor : Monitors, status : {"up", "degraded", "down"},
            failure : Nat, recovery : Nat]
Row == [monitor : Monitors, status : {"up", "degraded", "down"}, at : Times, judged : BOOLEAN]

(* A transaction that has written nothing yet *)
NoWrites(t) == [at |-> t, evidence |-> {}, snapshot |-> {}, notes |-> {},
                closing |-> {}, aborted |-> FALSE]

Idle == [monitor |-> CHOOSE m \in Monitors : TRUE, status |-> "down",
         failure |-> 0, recovery |-> 0]

Init ==
    /\ monitors \in [Monitors -> [status : {"active"}, th : Thresholds]]
    /\ channels \in SUBSET Channels
    /\ results = {} /\ incidents = {} /\ pending = {}
    /\ clock = 0
    /\ pc = [w \in Writers |-> "idle"]
    /\ todo = [w \in Writers |-> {}]
    /\ job = [w \in Writers |-> Idle]
    /\ tx = [w \in Writers |-> NoWrites(0)]
    /\ reported = {}

-----------------------------------------------------------------------------
(* What a statement of writer w sees *)

(* The thresholds of a job are those evaluate_incident is called with; an  *)
(* API request has none before it calls it.                                *)
Evaluates(w) == job[w].failure # 0

OwnRow(w) == [monitor |-> job[w].monitor, status |-> job[w].status, at |-> tx[w].at,
              judged |-> Evaluates(w)]

(* Mutant: the windows are read before the result is inserted. *)
HistoryBeforeInsert(w) == {r \in results : r.monitor = job[w].monitor}

(* check_results of the job's monitor: the committed rows and w's own *)
History(w) == {r \in results : r.monitor = job[w].monitor} \cup {OwnRow(w)}

IsOpen(i) == i.closed_at = 0

(* incidents WHERE monitor_id = $1 AND closed_at IS NULL.  The statements   *)
(* that read it run before w has an incident of its own.                    *)
OpenIncidents(m) == {i \in incidents : i.monitor = m /\ IsOpen(i)}

Goto(w, from, to) == pc[w] = from /\ pc' = [pc EXCEPT ![w] = to]

-----------------------------------------------------------------------------
(* check_once, phase 1 and the probes, as phase 2 sees them: a batch of     *)
(* monitors, active when they were claimed, each with the thresholds the    *)
(* claim read and the outcome of its probe ("up" or "down", no other).      *)
ClaimAndProbe(w, batch) ==
    /\ w \in CoreWriters
    /\ batch # {}
    /\ \A m \in batch : monitors[m].status = "active"
    /\ Goto(w, "idle", "next")
    /\ \E probe \in [batch -> {"up", "down"}] :
          todo' = [todo EXCEPT ![w] =
                     {[monitor |-> m, status |-> probe[m],
                       failure |-> monitors[m].th.failure,
                       recovery |-> monitors[m].th.recovery] : m \in batch}]
    /\ UNCHANGED <<monitors, channels, tables, clock, job, tx, reported>>

(* pool.begin() for the next outcome; NOW() is fixed here *)
BeginWrite(w, o) ==
    /\ o \in todo[w]
    /\ clock < MaxWrites
    /\ Goto(w, "next", "insertResult")
    /\ clock' = clock + 1
    /\ todo' = [todo EXCEPT ![w] = @ \ {o}]
    /\ job' = [job EXCEPT ![w] = o]
    /\ tx' = [tx EXCEPT ![w] = NoWrites(clock + 1)]
    /\ UNCHANGED <<monitors, channels, tables, reported>>

(* begin failed: the outcome is dropped and the loop goes on *)
BeginFails(w, o) ==
    /\ o \in todo[w]
    /\ pc[w] = "next"
    /\ todo' = [todo EXCEPT ![w] = @ \ {o}]
    /\ UNCHANGED <<monitors, channels, tables, clock, pc, job, tx, reported>>

EndBatch(w) ==
    /\ todo[w] = {}
    /\ Goto(w, "next", "idle")
    /\ UNCHANGED <<monitors, channels, tables, clock, todo, job, tx, reported>>

(* Mutant: the status in the request is not checked. *)
PostAnyStatus(w, m, s) ==
    /\ w \in ApiWriters
    /\ clock < MaxWrites
    /\ Goto(w, "idle", "insertResult")
    /\ clock' = clock + 1
    /\ \E any \in {s, "unknown"} :
          job' = [job EXCEPT ![w] = [monitor |-> m, status |-> any,
                                     failure |-> 0, recovery |-> 0]]
    /\ tx' = [tx EXCEPT ![w] = NoWrites(clock + 1)]
    /\ UNCHANGED <<monitors, channels, tables, todo, reported>>

(* create_check_result, up to its begin: the caller is a member and the     *)
(* monitor exists, and a status other than the three is refused.            *)
PostResult(w, m, s) ==
    /\ w \in ApiWriters
    /\ clock < MaxWrites
    /\ Goto(w, "idle", "insertResult")
    /\ clock' = clock + 1
    /\ job' = [job EXCEPT ![w] = [monitor |-> m, status |-> s,
                                  failure |-> 0, recovery |-> 0]]
    /\ tx' = [tx EXCEPT ![w] = NoWrites(clock + 1)]
    /\ UNCHANGED <<monitors, channels, tables, todo, reported>>

(* INSERT INTO check_results *)
InsertResult(w) ==
    /\ Goto(w, "insertResult",
            IF w \in CoreWriters THEN "selectOpen" ELSE "readMonitor")
    /\ UNCHANGED <<monitors, channels, tables, clock, todo, job, tx, reported>>

(* The API reads the monitor's status and thresholds in its transaction and *)
(* evaluates active monitors only.                                          *)
ReadMonitor(w) ==
    LET mon == monitors[job[w].monitor]
    IN  /\ Goto(w, "readMonitor",
                IF mon.status = "active" THEN "selectOpen" ELSE "commit")
        /\ job' = IF mon.status = "active"
                    THEN [job EXCEPT ![w] = [@ EXCEPT !.failure = mon.th.failure,
                                                      !.recovery = mon.th.recovery]]
                    ELSE job
        /\ UNCHANGED <<monitors, channels, tables, clock, todo, tx, reported>>

-----------------------------------------------------------------------------
(* evaluate_incident, statement by statement *)

(* Mutant: incidents already open are not looked up. *)
SelectNoOpenIncident(w) ==
    /\ Goto(w, "selectOpen", "failureWindow")
    /\ UNCHANGED <<monitors, channels, tables, clock, todo, job, tx, reported>>

SelectOpenIncident(w) ==
    /\ Goto(w, "selectOpen",
            IF OpenIncidents(job[w].monitor) = {} THEN "failureWindow" ELSE "recoveryWindow")
    /\ UNCHANGED <<monitors, channels, tables, clock, todo, job, tx, reported>>

SelectFailureWindow(w) ==
    LET crossed == Streak(History(w), job[w].failure, "down")
    IN  /\ Goto(w, "failureWindow", IF crossed THEN "insertIncident" ELSE "commit")
        /\ tx' = [tx EXCEPT ![w].evidence =
                    IF crossed THEN Recent(History(w), job[w].failure) ELSE {}]
        /\ UNCHANGED <<monitors, channels, tables, clock, todo, job, reported>>

(* INSERT INTO incidents, then SELECT the channels that exist now *)
InsertIncident(w) ==
    /\ Goto(w, "insertIncident", "insertPending")
    /\ tx' = [tx EXCEPT ![w].snapshot = channels]
    /\ UNCHANGED <<monitors, channels, tables, clock, todo, job, reported>>

(* One INSERT INTO pending_notifications per channel read *)
InsertPending(w, c) ==
    /\ pc[w] = "insertPending"
    /\ c \in tx[w].snapshot \ tx[w].notes
    /\ tx' = [tx EXCEPT ![w].notes = @ \cup {c}]
    /\ UNCHANGED <<monitors, channels, tables, clock, pc, todo, job, reported>>

FanOutDone(w) ==
    /\ tx[w].notes = tx[w].snapshot
    /\ Goto(w, "insertPending", "commit")
    /\ UNCHANGED <<monitors, channels, tables, clock, todo, job, tx, reported>>

(* Mutant: the failure threshold is used for the recovery window. *)
SelectRecoveryWindowByFailure(w) ==
    /\ Goto(w, "recoveryWindow",
            IF Streak(History(w), job[w].failure, "up") THEN "close" ELSE "commit")
    /\ UNCHANGED <<monitors, channels, tables, clock, todo, job, tx, reported>>

SelectRecoveryWindow(w) ==
    /\ Goto(w, "recoveryWindow",
            IF Streak(History(w), job[w].recovery, "up") THEN "close" ELSE "commit")
    /\ UNCHANGED <<monitors, channels, tables, clock, todo, job, tx, reported>>

(* UPDATE incidents SET closed_at, in two steps because of row locks: its   *)
(* snapshot is taken when it starts, and it waits while another transaction *)
(* holds one of those rows; a row closed meanwhile no longer matches.       *)
StartClose(w) ==
    /\ Goto(w, "close", "closeLocked")
    /\ tx' = [tx EXCEPT ![w].closing = {i.id : i \in OpenIncidents(job[w].monitor)}]
    /\ UNCHANGED <<monitors, channels, tables, clock, todo, job, reported>>

HoldsClosed(v) == IF pc[v] = "commit" THEN tx[v].closing ELSE {}

(* Mutant: a row that was closed while it waited is closed again. *)
FinishCloseAgain(w) ==
    /\ \A v \in Writers \ {w} : HoldsClosed(v) \cap tx[w].closing = {}
    /\ Goto(w, "closeLocked", "commit")
    /\ UNCHANGED <<monitors, channels, tables, clock, todo, job, tx, reported>>

FinishClose(w) ==
    /\ \A v \in Writers \ {w} : HoldsClosed(v) \cap tx[w].closing = {}
    /\ Goto(w, "closeLocked", "commit")
    /\ tx' = [tx EXCEPT ![w].closing =
                @ \cap {i.id : i \in OpenIncidents(job[w].monitor)}]
    /\ UNCHANGED <<monitors, channels, tables, clock, todo, job, reported>>

-----------------------------------------------------------------------------
(* How a transaction ends *)

Opened(w) == tx[w].evidence # {}

NewIncident(w) ==
    [id |-> tx[w].at, monitor |-> job[w].monitor, closed_at |-> 0, by |-> w,
     failure |-> job[w].failure, evidence |-> tx[w].evidence, told |-> tx[w].snapshot]

(* An incident's row as w's UPDATE leaves it *)
Updated(w, i) == [i EXCEPT !.closed_at = IF i.id \in tx[w].closing THEN tx[w].at ELSE @]

(* COMMIT publishes what the transaction wrote; PostgreSQL answers the     *)
(* COMMIT of an aborted transaction with a ROLLBACK and no error.          *)
Publish(w) ==
    IF tx[w].aborted THEN UNCHANGED tables ELSE
    /\ results' = results \cup {OwnRow(w)}
    /\ incidents' =
         {Updated(w, i) : i \in incidents}
         \cup (IF Opened(w) THEN {NewIncident(w)} ELSE {})
    /\ pending' = pending \cup {[incident |-> tx[w].at, channel |-> c] : c \in tx[w].notes}

AfterWrite(w) == IF w \in CoreWriters THEN "next" ELSE "idle"

Leave(w) ==
    /\ job' = [job EXCEPT ![w] = Idle]
    /\ tx' = [tx EXCEPT ![w] = NoWrites(0)]

(* commit returned Ok: "check result written" is logged, or 201 is answered *)
Commit(w) ==
    /\ Goto(w, "commit", AfterWrite(w))
    /\ Publish(w)
    /\ reported' = reported \cup {[writer |-> w, at |-> tx[w].at]}
    /\ Leave(w)
    /\ UNCHANGED <<monitors, channels, clock, todo>>

(* commit returned an error: nothing was committed, or the answer was lost *)
CommitFails(w) ==
    /\ Goto(w, "commit", AfterWrite(w))
    /\ Publish(w) \/ UNCHANGED tables
    /\ Leave(w)
    /\ UNCHANGED <<monitors, channels, clock, todo, reported>>

Writing == {"insertResult", "readMonitor"}
Evaluating == {"selectOpen", "failureWindow", "insertIncident", "insertPending",
               "recoveryWindow", "close", "closeLocked"}

(* The INSERT of the result, or the API's read, fails: both callers drop the *)
(* transaction, which rolls it back.                                         *)
WriteFails(w) ==
    /\ \E p \in Writing : Goto(w, p, AfterWrite(w))
    /\ Leave(w)
    /\ UNCHANGED <<monitors, channels, tables, clock, todo, reported>>

(* Mutant: the failed statement does not abort the transaction. *)
EvaluationFailsHalfDone(w) ==
    /\ w \in CoreWriters
    /\ \E p \in Evaluating : Goto(w, p, "commit")
    /\ UNCHANGED <<monitors, channels, tables, clock, todo, job, tx, reported>>

(* A statement of evaluate_incident fails in the core: the error is logged,  *)
(* the transaction is now aborted, and the code goes on to commit it.        *)
EvaluationFailsCore(w) ==
    /\ w \in CoreWriters
    /\ \E p \in Evaluating : Goto(w, p, "commit")
    /\ tx' = [tx EXCEPT ![w] = [@ EXCEPT !.aborted = TRUE, !.closing = {}]]
    /\ UNCHANGED <<monitors, channels, tables, clock, todo, job, reported>>

(* Mutant: the API logs the error and commits, as the core does. *)
EvaluationFailsUnreported(w) ==
    /\ w \in ApiWriters
    /\ \E p \in Evaluating : Goto(w, p, "commit")
    /\ tx' = [tx EXCEPT ![w].aborted = TRUE]
    /\ UNCHANGED <<monitors, channels, tables, clock, todo, job, reported>>

(* In the API: 500, and the dropped transaction rolls back *)
EvaluationFailsApi(w) ==
    /\ w \in ApiWriters
    /\ \E p \in Evaluating : Goto(w, p, "idle")
    /\ Leave(w)
    /\ UNCHANGED <<monitors, channels, tables, clock, todo, reported>>

(* The process dies: its transaction rolls back, its batch is forgotten *)
Crash(w) ==
    /\ pc[w] # "idle"
    /\ pc' = [pc EXCEPT ![w] = "idle"]
    /\ todo' = [todo EXCEPT ![w] = {}]
    /\ Leave(w)
    /\ UNCHANGED <<monitors, channels, tables, clock, reported>>

-----------------------------------------------------------------------------
(* The other API handlers that write what the above reads *)

(* The UPDATE of patch_monitor; it has no condition on the current status, *)
(* which the handler read in an earlier transaction                        *)
PatchMonitor(m, s, th) ==
    /\ s \in Statuses \ {"archived"}
    /\ monitors' = [monitors EXCEPT ![m] = [status |-> s, th |-> th]]
    /\ UNCHANGED <<channels, tables, clock, pc, todo, job, tx, reported>>

(* The UPDATE of delete_monitor *)
ArchiveMonitor(m) ==
    /\ "archived" \in Statuses
    /\ monitors' = [monitors EXCEPT ![m].status = "archived"]
    /\ UNCHANGED <<channels, tables, clock, pc, todo, job, tx, reported>>

CreateChannel(c) ==
    /\ channels' = channels \cup {c}
    /\ UNCHANGED <<monitors, tables, clock, pc, todo, job, tx, reported>>

DeleteChannel(c) ==
    /\ channels' = channels \ {c}
    /\ UNCHANGED <<monitors, tables, clock, pc, todo, job, tx, reported>>

-----------------------------------------------------------------------------
Step(w) ==
    \/ \E batch \in SUBSET Monitors : ClaimAndProbe(w, batch)
    \/ \E o \in todo[w] : BeginWrite(w, o) \/ BeginFails(w, o)
    \/ EndBatch(w)
    \/ \E m \in Monitors, s \in {"up", "degraded", "down"} : PostResult(w, m, s)
    \/ InsertResult(w) \/ ReadMonitor(w)
    \/ SelectOpenIncident(w) \/ SelectFailureWindow(w) \/ SelectRecoveryWindow(w)
    \/ InsertIncident(w) \/ FanOutDone(w)
    \/ \E c \in Channels : InsertPending(w, c)
    \/ StartClose(w) \/ FinishClose(w)
    \/ Commit(w) \/ CommitFails(w)
    \/ WriteFails(w) \/ EvaluationFailsCore(w) \/ EvaluationFailsApi(w)
    \/ Crash(w)

Administer ==
    \/ \E m \in Monitors, s \in Statuses, th \in Thresholds : PatchMonitor(m, s, th)
    \/ \E m \in Monitors : ArchiveMonitor(m)
    \/ \E c \in Channels : CreateChannel(c) \/ DeleteChannel(c)

Next == Administer \/ \E w \in Writers : Step(w)

Spec == Init /\ [][Next]_vars

(* Nothing in the code keeps two transactions from writing results of one   *)
(* monitor at a time; where none do, the writes of each monitor are serial, *)
(* however many engines and requests write those of others meanwhile.       *)
Busy(w) == pc[w] \notin {"idle", "next"}

SerialWrites ==
    \A v, w \in Writers : v # w /\ Busy(v) /\ Busy(w) => job[v].monitor # job[w].monitor

(* An administration begins no write. *)
SerialNext == Administer \/ \E w \in Writers : Step(w) /\ SerialWrites'

SerialSpec == Init /\ [][SerialNext]_vars

-----------------------------------------------------------------------------
TypeOK ==
    /\ monitors \in [Monitors -> [status : Statuses, th : Thresholds]]
    /\ channels \subseteq Channels
    /\ results \subseteq Row
    /\ incidents \subseteq [id : Times, monitor : Monitors, closed_at : 0 .. MaxWrites,
                            by : Writers, failure : Nat,
                            evidence : SUBSET Row, told : SUBSET Channels]
    /\ pending \subseteq [incident : Times, channel : Channels]
    /\ clock \in 0 .. MaxWrites
    /\ pc \in [Writers -> {"idle", "next", "commit"} \cup Writing \cup Evaluating]
    /\ todo \in [Writers -> SUBSET Outcome]
    /\ job \in [Writers -> Outcome]
    /\ tx \in [Writers -> [at : 0 .. MaxWrites, evidence : SUBSET Row,
                           snapshot : SUBSET Channels, notes : SUBSET Channels,
                           closing : SUBSET Times, aborted : BOOLEAN]]
    /\ reported \subseteq [writer : Writers, at : Times]

(* Fan-out is all or nothing: an incident's pending notifications are       *)
(* exactly the channels its transaction read, whatever failed, crashed or   *)
(* was added and deleted while they were inserted one by one.               *)
FanOutComplete ==
    /\ \A i \in incidents : {n.channel : n \in {x \in pending : x.incident = i.id}} = i.told
    /\ \A n \in pending : \E i \in incidents : i.id = n.incident

(* An incident in the table rests on as many check results as the failure   *)
(* threshold it was opened by asks for, a threshold its monitor was given,  *)
(* all down and all in the table themselves: no failure or crash keeps an   *)
(* incident and loses a result that opened it.                              *)
OpenedOnEvidence ==
    \A i \in incidents :
        /\ i.evidence \subseteq {r \in results : r.monitor = i.monitor /\ r.status = "down"}
        /\ Cardinality(i.evidence) = i.failure
        /\ \E th \in Thresholds : i.failure = th.failure

(* A 201 means the result is in the table. *)
AcknowledgedIsDurable ==
    \A p \in reported : p.writer \in ApiWriters => \E r \in results : r.at = p.at

(* "check result written" means it is: a failed evaluation costs the        *)
(* evaluation, not the result.                                              *)
LoggedIsDurable ==
    \A p \in reported : p.writer \in CoreWriters => \E r \in results : r.at = p.at

(* A monitor has at most one open incident. *)
AtMostOneOpen ==
    \A i, j \in incidents : IsOpen(i) /\ IsOpen(j) /\ i.monitor = j.monitor => i = j

(* Evaluations that overlap may each open an incident, and no others may:   *)
(* however transactions interleave, a monitor has one open incident of each *)
(* process or request at most, since a writer looks before it opens.        *)
OneOpenPerWriter ==
    \A i, j \in incidents :
        IsOpen(i) /\ IsOpen(j) /\ i.monitor = j.monitor /\ i.by = j.by => i = j

(* A monitor whose latest result was judged and ends a full streak of downs *)
(* has an open incident, whatever was posted while it was paused, failed or *)
(* crashed before.  (For one pair of thresholds: a patch re-evaluates       *)
(* nothing.)                                                                *)
NoMissedCrossing ==
    \A m \in Monitors, th \in Thresholds :
        LET rows == {r \in results : r.monitor = m}
        IN  /\ Streak(rows, th.failure, "down")
            /\ \E r \in rows : r.judged /\ \A q \in rows : q.at <= r.at
            => OpenIncidents(m) # {}

(* Evaluation runs only while the monitor is active: no step opens an       *)
(* incident of a monitor that is paused or archived.                        *)
OpenedWhileActive ==
    [][\A i \in incidents' :
          i.id \notin {j.id : j \in incidents} => monitors[i.monitor].status = "active"]_vars

(* An incident in the table changes once: it is closed, as of the time of a *)
(* result of its own monitor that was judged and is in the table with it,   *)
(* beside as many ups as the recovery threshold asks for.  No failure or    *)
(* crash closes an incident and loses the results that closed it; a second  *)
(* closer that waited for the first leaves what it finds closed alone.      *)
(* (The ups need not be later than its downs: an incident that another      *)
(* transaction opens between the window's SELECT and the UPDATE is closed   *)
(* with the others.)                                                        *)
ClosedOnEvidence ==
    [][\A i \in incidents \ incidents' :
          /\ IsOpen(i)
          /\ \E r \in results' : /\ r.monitor = i.monitor /\ r.judged
                                 /\ [i EXCEPT !.closed_at = r.at] \in incidents'
          /\ \E th \in Thresholds :
             \E ups \in SUBSET {r \in results' : r.monitor = i.monitor /\ r.status = "up"} :
                 Cardinality(ups) = th.recovery]_vars

(* Serial writes of each monitor, evaluated, are the lifecycle of          *)
(* IncidentLifecycle.  A result is on its way to be kept and not judged    *)
(* once the API has found its monitor paused or archived.                  *)
Waived(m) == \E w \in Writers : pc[w] = "commit" /\ job[w].monitor = m /\ ~Evaluates(w)

Lifecycle == INSTANCE IncidentLifecycle
    WITH history <- results,
         open <- {m \in Monitors : OpenIncidents(m) # {}},
         active <- {m \in Monitors : monitors[m].status = "active"},
         waived <- {m \in Monitors : Waived(m)}

ImplementsLifecycle == Lifecycle!Spec
=============================================================================
