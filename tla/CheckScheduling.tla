--------------------------- MODULE CheckScheduling ---------------------------
(***************************************************************************)
(* check_once and run_checker of signalnode-core: several processes claim  *)
(* the monitors that are due, stamp them, probe them and write a result    *)
(* each.  What a result does to the monitor's incident is in               *)
(* IncidentEvaluation; here a result is only written or not.               *)
(*                                                                         *)
(* NOW() is the time at which the claiming transaction began.  The claim's *)
(* SELECT locks the rows it returns (FOR UPDATE) and passes over rows that *)
(* are locked (SKIP LOCKED): those another claim holds, and those on which *)
(* an INSERT INTO check_results, of an engine or of the API, holds its     *)
(* foreign key's share lock at that moment.                                *)
(***************************************************************************)
EXTENDS Naturals, FiniteSets

CONSTANTS
    Monitors,
    Engines,      \* signalnode-core processes
    Intervals,    \* the values of monitors.interval_secs, in seconds
    BatchLimit,   \* LIMIT 50
    MaxTime       \* bound: the clock stops here

ASSUME IntervalsAssumption == Intervals \subseteq Nat \ {0}
ASSUME BatchLimitAssumption == BatchLimit \in Nat \ {0}
ASSUME MaxTimeAssumption == MaxTime \in Nat \ {0}
ASSUME MonitorsAssumption == IsFiniteSet(Monitors)

Never == 0        \* last_checked_at IS NULL; the clock starts after it

VARIABLES
    now,          \* the database's clock
    active,       \* monitors with status 'active'
    interval,     \* monitors.interval_secs
    lastChecked,  \* monitors.last_checked_at
    pc, began,    \* an engine's place, and NOW() of its claim
    batch,        \* the monitors it claimed and has still to write
    stampFailed,  \* a stamping UPDATE failed: its claim is aborted
    left,         \* history: the due rows that the LIMIT of its claim left behind
    passedOver    \* history: how many claims have left a monitor behind and were
                  \* committed since it was last stamped

turns == <<left, passedOver>>

vars == <<now, active, interval, lastChecked, pc, began, batch, stampFailed, left, passedOver>>

Init ==
    /\ now = 1
    /\ active = Monitors
    /\ interval \in [Monitors -> Intervals]
    /\ lastChecked = [m \in Monitors |-> Never]
    /\ pc = [e \in Engines |-> "sleep"]
    /\ began = [e \in Engines |-> 1]
    /\ batch = [e \in Engines |-> {}]
    /\ stampFailed = [e \in Engines |-> FALSE]
    /\ left = [e \in Engines |-> {}]
    /\ passedOver = [m \in Monitors |-> 0]

Goto(e, from, to) == pc[e] = from /\ pc' = [pc EXCEPT ![e] = to]

(* Rows an engine's open claim holds; an aborted transaction holds none *)
Claimed(e) == IF pc[e] \in {"stamp", "commit"} /\ ~stampFailed[e] THEN batch[e] ELSE {}

(* Mutant: the claim's SELECT does not lock its rows. *)
LockedNothing == {}

Locked == UNION {Claimed(e) : e \in Engines}

-----------------------------------------------------------------------------
(* Phase 1: claim and stamp *)

Begin(e) ==
    /\ Goto(e, "sleep", "select")
    /\ began' = [began EXCEPT ![e] = now]
    /\ UNCHANGED <<now, active, interval, lastChecked, batch, stampFailed, turns>>

Due(m, t) ==
    /\ m \in active
    /\ lastChecked[m] = Never \/ lastChecked[m] + interval[m] <= t

(* Mutant: FOR UPDATE SKIP LOCKED is missing. *)
ClaimableAnyRow(e) == {m \in Monitors : Due(m, began[e])}

Claimable(e) == {m \in Monitors \ Locked : Due(m, began[e])}

Batches(due) ==
    {s \in SUBSET due :
        Cardinality(s) = IF Cardinality(due) < BatchLimit THEN Cardinality(due) ELSE BatchLimit}

(* Mutant: the claim's SELECT has no ORDER BY. *)
AnyBatch(due) == Batches(due)

(* ORDER BY last_checked_at ASC NULLS FIRST LIMIT BatchLimit *)
Oldest(due) == {s \in Batches(due) : \A m \in s, d \in due \ s : lastChecked[m] <= lastChecked[d]}

SelectDue(e) ==
    /\ \E inserting \in SUBSET Monitors :
          \E s \in Oldest(Claimable(e) \ inserting) :
             /\ batch' = [batch EXCEPT ![e] = s]
             /\ left' = [left EXCEPT ![e] = (Claimable(e) \ inserting) \ s]
             /\ Goto(e, "select", IF s = {} THEN "sleep" ELSE "stamp")
    /\ UNCHANGED <<now, active, interval, lastChecked, began, stampFailed, passedOver>>

(* The SELECT fails: check_once returns *)
SelectFails(e) ==
    /\ Goto(e, "select", "sleep")
    /\ UNCHANGED <<now, active, interval, lastChecked, began, batch, stampFailed, turns>>

(* One UPDATE per monitor, all in the claim's transaction *)
Stamp(e) ==
    /\ Goto(e, "stamp", "commit")
    /\ UNCHANGED <<now, active, interval, lastChecked, began, batch, stampFailed, turns>>

(* An UPDATE fails: the error is logged and the loop goes on *)
StampFails(e) ==
    /\ Goto(e, "stamp", "commit")
    /\ stampFailed' = [stampFailed EXCEPT ![e] = TRUE]
    /\ UNCHANGED <<now, active, interval, lastChecked, began, batch, turns>>

(* Mutant: the column is set to the time of the next check. *)
StampedNextDue(e) ==
    [m \in Monitors |-> IF m \in batch[e] /\ ~stampFailed[e]
                          THEN began[e] + interval[m] ELSE lastChecked[m]]

(* last_checked_at as the claim leaves it *)
Stamped(e) ==
    [m \in Monitors |-> IF m \in batch[e] /\ ~stampFailed[e] THEN began[e] ELSE lastChecked[m]]

(* The claim ends, and with it the wait of the monitors it stamped. *)
Turn(e, stamped) ==
    /\ left' = [f \in Engines |-> IF f = e THEN {} ELSE left[f] \ stamped]
    /\ passedOver' = [m \in Monitors |->
          IF m \in stamped THEN 0
          ELSE IF stamped # {} /\ m \in left[e] THEN passedOver[m] + 1 ELSE passedOver[m]]

(* commit returned Ok (as it does for an aborted transaction, which it rolls *)
(* back), and every monitor of the batch is probed, concurrently.            *)
CommitClaim(e) ==
    /\ Goto(e, "commit", "check")
    /\ lastChecked' = Stamped(e) /\ Turn(e, Claimed(e))
    /\ stampFailed' = [stampFailed EXCEPT ![e] = FALSE]
    /\ UNCHANGED <<now, active, interval, began, batch>>

(* commit returned an error: not committed, or committed and not answered *)
CommitClaimFails(e) ==
    /\ Goto(e, "commit", "sleep")
    /\ \/ lastChecked' = Stamped(e) /\ Turn(e, Claimed(e))
       \/ UNCHANGED lastChecked /\ Turn(e, {})
    /\ batch' = [batch EXCEPT ![e] = {}]
    /\ stampFailed' = [stampFailed EXCEPT ![e] = FALSE]
    /\ UNCHANGED <<now, active, interval, began>>

-----------------------------------------------------------------------------
(* The probes and phase 2.  Time passes until every probe has answered or   *)
(* timed out; then each result is written in a transaction of its own, whose *)
(* INSERT waits for a claim that holds the monitor's row, and which commits  *)
(* or does not: the loop goes on with the rest.                              *)
WriteResult(e, m) ==
    /\ pc[e] = "check"
    /\ m \in batch[e] \ Locked
    /\ batch' = [batch EXCEPT ![e] = @ \ {m}]
    /\ UNCHANGED <<now, active, interval, lastChecked, pc, began, stampFailed, turns>>

EndRound(e) ==
    /\ batch[e] = {}
    /\ Goto(e, "check", "sleep")
    /\ UNCHANGED <<now, active, interval, lastChecked, began, batch, stampFailed, turns>>

Crash(e) ==
    /\ pc[e] # "sleep"
    /\ pc' = [pc EXCEPT ![e] = "sleep"]
    /\ batch' = [batch EXCEPT ![e] = {}]
    /\ stampFailed' = [stampFailed EXCEPT ![e] = FALSE]
    /\ left' = [left EXCEPT ![e] = {}]
    /\ UNCHANGED <<now, active, interval, lastChecked, began, passedOver>>

-----------------------------------------------------------------------------
(* The API beside it, and time *)

(* The UPDATE of patch_monitor or delete_monitor waits for a claim that    *)
(* holds the row.                                                          *)
Patch(m) ==
    /\ m \notin Locked
    /\ active' = (active \ {m}) \/ active' = active \cup {m}
    /\ \E i \in Intervals : interval' = [interval EXCEPT ![m] = i]
    /\ UNCHANGED <<now, lastChecked, pc, began, batch, stampFailed, turns>>

Tick ==
    /\ now < MaxTime
    /\ now' = now + 1
    /\ UNCHANGED <<active, interval, lastChecked, pc, began, batch, stampFailed, turns>>

Check(e) ==
    \/ Begin(e) \/ SelectDue(e) \/ SelectFails(e) \/ Stamp(e) \/ StampFails(e)
    \/ CommitClaim(e) \/ CommitClaimFails(e)
    \/ \E m \in Monitors : WriteResult(e, m)
    \/ EndRound(e) \/ Crash(e)

Next ==
    \/ \E e \in Engines : Check(e)
    \/ \E m \in Monitors : Patch(m)
    \/ Tick

Spec == Init /\ [][Next]_vars

-----------------------------------------------------------------------------
TypeOK ==
    /\ now \in 1 .. MaxTime
    /\ active \subseteq Monitors
    /\ interval \in [Monitors -> Intervals]
    /\ lastChecked \in [Monitors -> 0 .. MaxTime]
    /\ pc \in [Engines -> {"sleep", "select", "stamp", "commit", "check"}]
    /\ began \in [Engines -> 1 .. MaxTime]
    /\ batch \in [Engines -> SUBSET Monitors]
    /\ stampFailed \in [Engines -> BOOLEAN]
    /\ left \in [Engines -> SUBSET Monitors]
    /\ passedOver \in [Monitors -> Nat]

(* No monitor is held by two claims that are still to be committed. *)
ClaimsExclusive ==
    \A e, f \in Engines : e # f => Claimed(e) \cap Claimed(f) = {}

(* A claim that will be stamped is still due: whatever other processes did   *)
(* between its BEGIN, its SELECT and its COMMIT, two of them never check a   *)
(* monitor for the same interval.                                            *)
ClaimsStillDue ==
    \A e \in Engines : \A m \in Claimed(e) :
        lastChecked[m] = Never \/ lastChecked[m] + interval[m] <= began[e]

(* A batch holds only so many, but no due monitor starves: the claims that   *)
(* leave it behind for their LIMIT, and are committed before it is stamped,  *)
(* are fewer than the batches that hold all monitors.  (What an INSERT or    *)
(* another claim has locked is passed over and not left behind.)             *)
PassedOverInTurn ==
    \A m \in Monitors : passedOver[m] * BatchLimit < Cardinality(Monitors)

(* A stamp only moves forward, by an interval at least, though the process  *)
(* that writes it may have read the clock before another one did.  (Every   *)
(* claim of CheckSchedule keeps to this.)                                   *)
StampsMoveForward ==
    [][\A m \in Monitors :
          lastChecked[m] # Never /\ lastChecked'[m] # lastChecked[m]
          => lastChecked[m] + interval[m] <= lastChecked'[m]]_vars

(* A database error while claiming leaves the monitors unclaimed and the    *)
(* round ends: no monitor is probed that was not stamped.                   *)
ProbedOnlyIfStamped ==
    \A e \in Engines : pc[e] = "check" => \A m \in batch[e] : began[e] <= lastChecked[m]

(* Though its BEGIN, SELECT, UPDATEs and COMMIT are apart, and patches and   *)
(* other processes' claims come between, a claim is one step of              *)
(* CheckSchedule: what it stamps is active and due when it commits.          *)
Schedule == INSTANCE CheckSchedule
    WITH probing <- [e \in Engines |-> IF pc[e] = "check" THEN batch[e] ELSE {}]

ImplementsSchedule == Schedule!Spec
=============================================================================
