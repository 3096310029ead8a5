-------------------------- MODULE LifecycleProofs --------------------------
(***************************************************************************)
(* Where no two transactions write results of one monitor at a time,       *)
(* IncidentEvaluation implements IncidentLifecycle, opens no second        *)
(* incident and misses no crossing, for any number of engines, requests    *)
(* and monitors, and whatever fails, crashes, pauses or is patched.        *)
(***************************************************************************)
EXTENDS IncidentEvaluationProofs

Rows(m) == {r \in results : r.monitor = m}
Ids(m) == {i.id : i \in OpenIncidents(m)}

FromPair(o) == \E th \in Thresholds : o.failure = th.failure /\ o.recovery = th.recovery

(* What the two windows find *)
DownsEnd(w) == Streak(History(w), job[w].failure, "down")
UpsEnd(w) == Streak(History(w), job[w].recovery, "up")

(* A transaction that is to commit does what the history it ends asks for,  *)
(* or nothing if it has not evaluated.                                      *)
Verdict(w) ==
    IF ~Evaluates(w) THEN ~Opened(w) /\ tx[w].closing = {}
    ELSE IF OpenIncidents(job[w].monitor) = {}
    THEN tx[w].closing = {} /\ (Opened(w) <=> DownsEnd(w))
    ELSE /\ ~Opened(w)
         /\ tx[w].closing = IF UpsEnd(w) THEN Ids(job[w].monitor) ELSE {}

(* Thresholds come in pairs, and an API request that has not read its       *)
(* monitor has none.                                                        *)
Reading(w) ==
    /\ \A o \in todo[w] : w \in CoreWriters /\ FromPair(o)
    /\ pc[w] = "insertResult" => IF w \in CoreWriters THEN FromPair(job[w]) ELSE ~Evaluates(w)
    /\ pc[w] = "readMonitor" => ~Evaluates(w)
    /\ pc[w] \in Evaluating => FromPair(job[w])
    /\ pc[w] = "commit" /\ Evaluates(w) => FromPair(job[w])

(* What a writer has found on its way to the verdict: it is the last to     *)
(* have begun on its monitor, whose incidents are as it read them.          *)
Judging(w) ==
    /\ Busy(w) => \A r \in results : r.monitor = job[w].monitor => r.at < tx[w].at
    /\ pc[w] \in {"failureWindow", "insertIncident", "insertPending"} =>
         OpenIncidents(job[w].monitor) = {}
    /\ pc[w] \in {"insertIncident", "insertPending"} => DownsEnd(w)
    /\ pc[w] \in {"recoveryWindow", "close", "closeLocked"} =>
         OpenIncidents(job[w].monitor) # {}
    /\ pc[w] \in {"close", "closeLocked"} => UpsEnd(w)
    /\ pc[w] # "commit" =>
         tx[w].closing = IF pc[w] = "closeLocked" THEN Ids(job[w].monitor) ELSE {}
    /\ pc[w] = "commit" /\ ~tx[w].aborted => Verdict(w)

Serial ==
    /\ IInv /\ SerialWrites /\ IdsApart /\ AtMostOneOpen
    /\ \A r \in results : r.at <= clock
    /\ \A w \in Writers : Reading(w) /\ Judging(w)

-----------------------------------------------------------------------------
(* Lifecycle's operators on histories are those of CheckHistory. *)
LEMMA SameCardinality == \A S : Lifecycle!Cardinality(S) = Cardinality(S)
BY DEF Lifecycle!Cardinality, Cardinality

LEMMA SameStreak ==
    ASSUME NEW h, NEW n, NEW s
    PROVE  Lifecycle!Streak(h, n, s) <=> Streak(h, n, s)
<1>1. Lifecycle!Recent(h, n) = Recent(h, n)
    BY SameCardinality DEF Lifecycle!Recent, Recent
<1> QED BY <1>1, SameCardinality DEF Lifecycle!Streak, Streak

(* The latest row is in every window. *)
LEMMA LatestIsRecent ==
    ASSUME NEW h, NEW r \in h, \A q \in h : ~(q.at > r.at), NEW n \in Nat \ {0}, NEW s,
           Streak(h, n, s)
    PROVE  r.status = s
<1>1. {q \in h : q.at > r.at} = {}
    OBVIOUS
<1>2. r \in Recent(h, n)
    BY <1>1, FS_EmptySet DEF Recent
<1> QED BY <1>2 DEF Streak

-----------------------------------------------------------------------------
LEMMA PairEvaluates == \A w \in Writers : FromPair(job[w]) => Evaluates(w)
BY ThresholdsAssumption DEF FromPair, Evaluates

LEMMA InitSerial == Init => Serial
<1> SUFFICES ASSUME Init PROVE Serial
    OBVIOUS
<1>1. IInv
    BY InitIInv
<1>2. IdsApart /\ AtMostOneOpen /\ \A r \in results : r.at <= clock
    BY DEF Init, IdsApart, AtMostOneOpen
<1>3. SerialWrites /\ \A w \in Writers : Reading(w) /\ Judging(w)
    BY DEF Init, SerialWrites, Reading, Judging, Busy, Evaluating, NoWrites
<1> QED BY <1>1, <1>2, <1>3 DEF Serial

(* What a writer sees depends on its outcome, its NOW() and the rows of its *)
(* monitor.                                                                 *)
LEMMA SameView ==
    ASSUME NEW w \in Writers, NEW m, job[w].monitor = m,
           Rows(m)' = Rows(m), OpenIncidents(m)' = OpenIncidents(m),
           job'[w] = job[w], tx'[w].at = tx[w].at
    PROVE  /\ OpenIncidents(job[w].monitor)' = OpenIncidents(job[w].monitor)
           /\ Ids(job[w].monitor)' = Ids(job[w].monitor)
           /\ DownsEnd(w)' <=> DownsEnd(w)
           /\ UpsEnd(w)' <=> UpsEnd(w)
<1>1. OpenIncidents(job[w].monitor)' = OpenIncidents(job[w].monitor)
    BY DEF OpenIncidents
<1>2. History(w) = Rows(m) \cup {OwnRow(w)} /\ History(w)' = Rows(m)' \cup {OwnRow(w)'}
    BY DEF History, Rows
<1>3. OwnRow(w)' = OwnRow(w)
    BY DEF OwnRow, Evaluates
<1> QED BY <1>1, <1>2, <1>3 DEF Ids, DownsEnd, UpsEnd

LEMMA SameTables ==
    ASSUME UNCHANGED <<results, incidents>>, NEW m
    PROVE  Rows(m)' = Rows(m) /\ OpenIncidents(m)' = OpenIncidents(m)
BY DEF Rows, OpenIncidents

(* A writer that does not move keeps what it found while the rows of its    *)
(* monitor stay as they are.                                                *)
LEMMA StandingJudges ==
    ASSUME NEW v \in Writers, Reading(v), Judging(v),
           pc'[v] = pc[v], todo'[v] = todo[v], job'[v] = job[v], tx'[v] = tx[v],
           NEW m, m = job[v].monitor,
           Busy(v) => Rows(m)' = Rows(m) /\ OpenIncidents(m)' = OpenIncidents(m)
    PROVE  Reading(v)' /\ Judging(v)'
<1>1. Reading(v)'
    BY DEF Reading, Evaluates, FromPair
<1>2. CASE Busy(v)
  <2>1. /\ OpenIncidents(job[v].monitor)' = OpenIncidents(job[v].monitor)
        /\ Ids(job[v].monitor)' = Ids(job[v].monitor)
        /\ (DownsEnd(v)' <=> DownsEnd(v)) /\ (UpsEnd(v)' <=> UpsEnd(v))
      BY <1>2, SameView
  <2>2. \A r \in results' : r.monitor = m => r \in results
      BY <1>2 DEF Rows
  <2>3. Evaluates(v)' <=> Evaluates(v)
      BY DEF Evaluates
  <2>4. pc[v] = "commit" /\ ~tx[v].aborted => Verdict(v)'
      BY <2>1, <2>3 DEF Judging, Verdict, Opened
  <2> QED BY <1>1, <1>2, <2>1, <2>2, <2>4 DEF Judging, Busy
<1>3. CASE ~Busy(v)
    BY <1>1, <1>3 DEF Judging, Busy
<1> QED BY <1>2, <1>3

(* Its own steps keep the thresholds it evaluates with. *)
LEMMA ReadingStep ==
    ASSUME IInv, NEW w \in Writers, Reading(w), Step(w)
    PROVE  Reading(w)'
<1>t. /\ pc \in [Writers -> {"idle", "next", "commit"} \cup Writing \cup Evaluating]
      /\ job \in [Writers -> Outcome] /\ todo \in [Writers -> SUBSET Outcome]
    BY DEF IInv, TypeOK
<1>1. ASSUME NEW batch \in SUBSET Monitors, ClaimAndProbe(w, batch) PROVE Reading(w)'
  <2>1. pc'[w] = "next"
      BY <1>t, <1>1 DEF ClaimAndProbe, Goto
  <2>2. \A o \in todo'[w] : w \in CoreWriters /\ FromPair(o)
    <3>1. PICK probe \in [batch -> {"up", "down"}] :
            todo' = [todo EXCEPT ![w] =
                       {[monitor |-> m, status |-> probe[m],
                         failure |-> monitors[m].th.failure,
                         recovery |-> monitors[m].th.recovery] : m \in batch}]
        BY <1>1 DEF ClaimAndProbe
    <3>2. \A m \in batch : monitors[m].th \in Thresholds
        BY DEF IInv, TypeOK
    <3> QED BY <1>t, <1>1, <3>1, <3>2 DEF ClaimAndProbe, FromPair
  <2> QED BY <2>1, <2>2 DEF Reading, Evaluating
<1>2. ASSUME NEW o \in todo[w], BeginWrite(w, o) PROVE Reading(w)'
  <2>1. /\ pc'[w] = "insertResult" /\ job'[w] = o /\ todo'[w] \subseteq todo[w]
        /\ w \in CoreWriters /\ FromPair(o)
      BY <1>t, <1>2 DEF BeginWrite, Goto, Reading
  <2> QED BY <2>1 DEF Reading, Evaluating, FromPair
<1>3. ASSUME NEW m \in Monitors, NEW s \in {"up", "degraded", "down"}, PostResult(w, m, s)
      PROVE  Reading(w)'
  <2>1. /\ pc'[w] = "insertResult" /\ w \notin CoreWriters /\ todo' = todo
        /\ job'[w].failure = 0
      BY <1>t, <1>3, WritersAssumption DEF PostResult, Goto
  <2> QED BY <2>1 DEF Reading, Evaluating, Evaluates, FromPair
<1>4. CASE InsertResult(w)
  <2>1. /\ pc[w] = "insertResult" /\ UNCHANGED <<todo, job>>
        /\ pc'[w] = IF w \in CoreWriters THEN "selectOpen" ELSE "readMonitor"
      BY <1>t, <1>4 DEF InsertResult, Goto
  <2> QED BY <2>1 DEF Reading, Evaluating, Evaluates, FromPair
<1>5. CASE ReadMonitor(w)
  <2> DEFINE mon == monitors[job[w].monitor]
  <2>1. /\ pc[w] = "readMonitor" /\ UNCHANGED todo
        /\ pc'[w] = IF mon.status = "active" THEN "selectOpen" ELSE "commit"
        /\ job' = IF mon.status = "active"
                    THEN [job EXCEPT ![w] = [job[w] EXCEPT !.failure = mon.th.failure,
                                                           !.recovery = mon.th.recovery]]
                    ELSE job
      BY <1>t, <1>5 DEF ReadMonitor, Goto
  <2>2. mon.th \in Thresholds /\ job[w] \in Outcome
      BY <1>t DEF IInv, TypeOK, Outcome
  <2>3. ~Evaluates(w)
      BY <2>1 DEF Reading
  <2>4. CASE mon.status = "active"
    <3>1. job'[w].failure = mon.th.failure /\ job'[w].recovery = mon.th.recovery
        BY <1>t, <2>1, <2>2, <2>4 DEF Outcome
    <3>2. FromPair(job'[w])
        BY <2>2, <3>1 DEF FromPair
    <3> QED BY <2>1, <2>4, <3>2 DEF Reading, Evaluating, FromPair
  <2>5. CASE mon.status # "active"
      BY <2>1, <2>3, <2>5 DEF Reading, Evaluating, Evaluates, FromPair
  <2> QED BY <2>4, <2>5
<1>6. CASE \/ SelectOpenIncident(w) \/ SelectFailureWindow(w) \/ SelectRecoveryWindow(w)
           \/ InsertIncident(w) \/ FanOutDone(w) \/ (\E c \in Channels : InsertPending(w, c))
           \/ StartClose(w) \/ FinishClose(w) \/ EvaluationFailsCore(w)
  <2>1. pc[w] \in Evaluating /\ pc'[w] \in Evaluating \cup {"commit"} /\ UNCHANGED <<todo, job>>
      BY <1>t, <1>6 DEF SelectOpenIncident, SelectFailureWindow, SelectRecoveryWindow,
         InsertIncident, FanOutDone, InsertPending, StartClose, FinishClose,
         EvaluationFailsCore, Goto, Evaluating
  <2> QED BY <2>1 DEF Reading, Evaluating, FromPair
<1>7. CASE \/ (\E o \in todo[w] : BeginFails(w, o)) \/ EndBatch(w)
           \/ Commit(w) \/ CommitFails(w) \/ WriteFails(w) \/ EvaluationFailsApi(w) \/ Crash(w)
  <2>1. pc'[w] \in {"idle", "next"} /\ todo'[w] \subseteq todo[w]
      BY <1>t, <1>7 DEF BeginFails, EndBatch, Commit, CommitFails, WriteFails,
         EvaluationFailsApi, Crash, Goto, AfterWrite
  <2> QED BY <2>1 DEF Reading, Evaluating, FromPair
<1> QED BY <1>1, <1>2, <1>3, <1>4, <1>5, <1>6, <1>7 DEF Step

(* A step within its own transaction takes a writer towards the verdict. *)
LEMMA JudgingStep ==
    ASSUME Serial, NEW w \in Writers, Step(w), ~Commit(w), ~CommitFails(w)
    PROVE  Judging(w)'
<1>0. /\ Judging(w) /\ Reading(w) /\ IInv /\ UNCHANGED <<results, incidents>>
    BY OnlyCommits DEF Serial, tables
<1>m. PICK m : m = job[w].monitor
    OBVIOUS
<1>r. clock \in Nat /\ \A r \in results : r.at \in Nat /\ r.at <= clock
    BY <1>0, MaxWritesAssumption DEF Serial, IInv, TypeOK, Row, Times
<1>t. /\ pc[w] \in {"idle", "next", "commit"} \cup Writing \cup Evaluating /\ tx[w] \in TxType
      /\ pc \in [Writers -> {"idle", "next", "commit"} \cup Writing \cup Evaluating]
      /\ tx \in [Writers -> TxType] /\ job \in [Writers -> Outcome]
    BY <1>0 DEF IInv, TypeOK, TxType
<1>v. ASSUME job' = job, tx'[w].at = tx[w].at
      PROVE  /\ OpenIncidents(job[w].monitor)' = OpenIncidents(job[w].monitor)
             /\ Ids(job[w].monitor)' = Ids(job[w].monitor)
             /\ DownsEnd(w)' <=> DownsEnd(w)
             /\ UpsEnd(w)' <=> UpsEnd(w)
             /\ Evaluates(w)' <=> Evaluates(w)
    BY <1>0, <1>m, <1>v, SameTables, SameView DEF Evaluates
<1>e. pc[w] \in Evaluating => Evaluates(w)
    BY <1>0, PairEvaluates DEF Reading
<1>1. CASE \/ (\E batch \in SUBSET Monitors : ClaimAndProbe(w, batch))
           \/ (\E o \in todo[w] : BeginFails(w, o)) \/ EndBatch(w)
  <2>1. /\ pc[w] \in {"idle", "next"} /\ pc'[w] \in {"idle", "next"} /\ UNCHANGED <<job, tx>>
      BY <1>t, <1>1 DEF ClaimAndProbe, BeginFails, EndBatch, Goto
  <2> QED BY <1>0, <2>1 DEF Judging, Busy
<1>2. CASE \/ (\E o \in todo[w] : BeginWrite(w, o))
           \/ (\E n \in Monitors, s \in {"up", "degraded", "down"} : PostResult(w, n, s))
  <2>1. pc'[w] = "insertResult" /\ tx'[w] = NoWrites(clock + 1)
      BY <1>t, <1>2 DEF BeginWrite, PostResult, Goto
  <2>2. tx'[w].at = clock + 1 /\ tx'[w].closing = {}
      BY <2>1 DEF NoWrites
  <2>3. \A r \in results' : r.at < tx'[w].at
      BY <1>0, <1>r, <2>2
  <2> QED BY <2>1, <2>2, <2>3 DEF Judging
<1>3. CASE InsertResult(w)
  <2>1. /\ pc[w] = "insertResult" /\ pc'[w] \in {"selectOpen", "readMonitor"}
        /\ UNCHANGED <<job, tx>>
      BY <1>t, <1>3 DEF InsertResult, Goto
  <2> QED BY <1>0, <2>1 DEF Judging, Busy
<1>4. CASE ReadMonitor(w)
  <2>1. /\ pc[w] = "readMonitor" /\ pc'[w] \in {"selectOpen", "commit"} /\ tx' = tx
        /\ pc'[w] = "commit" => job' = job
      BY <1>t, <1>4 DEF ReadMonitor, Goto
  <2>2. job'[w].monitor = job[w].monitor
      BY <1>t, <1>4 DEF ReadMonitor, Outcome
  <2>3. ~Evaluates(w) /\ ~Opened(w) /\ tx[w].closing = {}
      BY <1>0, <2>1 DEF Reading, Judging, IInv, Running, Staging, Opened
  <2>4. pc'[w] = "commit" => Verdict(w)'
      BY <1>v, <2>1, <2>3 DEF Verdict, Opened
  <2> QED BY <1>0, <2>1, <2>2, <2>3, <2>4 DEF Judging, Busy
<1>5. CASE SelectOpenIncident(w)
  <2>1. /\ pc[w] = "selectOpen" /\ UNCHANGED <<job, tx>>
        /\ pc'[w] = IF OpenIncidents(job[w].monitor) = {} THEN "failureWindow" ELSE "recoveryWindow"
      BY <1>t, <1>5 DEF SelectOpenIncident, Goto
  <2> QED BY <1>0, <1>v, <2>1 DEF Judging, Busy
<1>6. CASE SelectFailureWindow(w)
  <2> DEFINE e == IF DownsEnd(w) THEN Recent(History(w), job[w].failure) ELSE {}
  <2>1. /\ pc[w] = "failureWindow" /\ job' = job
        /\ pc'[w] = IF DownsEnd(w) THEN "insertIncident" ELSE "commit"
        /\ tx' = [tx EXCEPT ![w].evidence = e]
      BY <1>t, <1>6 DEF SelectFailureWindow, Goto, DownsEnd
  <2>2. /\ tx'[w].evidence = e /\ tx'[w].closing = tx[w].closing /\ tx'[w].at = tx[w].at
      BY <1>t, <2>1 DEF TxType
  <2>3. ~DownsEnd(w) => e = {}
      OBVIOUS
  <2> HIDE DEF e
  <2>4. OpenIncidents(job[w].monitor) = {} /\ tx[w].closing = {}
      BY <1>0, <2>1 DEF Judging
  <2>5. CASE DownsEnd(w)
      BY <1>0, <1>v, <2>1, <2>2, <2>4, <2>5 DEF Judging, Busy
  <2>6. CASE ~DownsEnd(w)
    <3>1. Verdict(w)'
        BY <1>e, <1>v, <2>1, <2>2, <2>3, <2>4, <2>6 DEF Verdict, Opened, Evaluating
    <3> QED BY <1>0, <2>1, <2>2, <2>6, <3>1 DEF Judging, Busy
  <2> QED BY <2>5, <2>6
<1>7. CASE InsertIncident(w) \/ \E c \in Channels : InsertPending(w, c)
  <2>1. /\ pc[w] \in {"insertIncident", "insertPending"} /\ pc'[w] = "insertPending"
        /\ job' = job
      BY <1>t, <1>7 DEF InsertIncident, InsertPending, Goto
  <2>2. tx'[w].closing = tx[w].closing /\ tx'[w].at = tx[w].at
    <3>1. CASE InsertIncident(w)
        BY <1>t, <3>1 DEF InsertIncident, TxType
    <3>2. CASE \E c \in Channels : InsertPending(w, c)
        BY <1>t, <3>2 DEF InsertPending, TxType
    <3> QED BY <1>7, <3>1, <3>2
  <2> QED BY <1>0, <1>v, <2>1, <2>2 DEF Judging, Busy
<1>8. CASE FanOutDone(w)
  <2>1. /\ pc[w] = "insertPending" /\ pc'[w] = "commit" /\ UNCHANGED <<job, tx>>
      BY <1>t, <1>8 DEF FanOutDone, Goto
  <2>2. Opened(w)
      BY <1>0, <2>1 DEF IInv, Running, Staging, Opened
  <2>3. Verdict(w)'
      BY <1>0, <1>e, <1>v, <2>1, <2>2 DEF Judging, Verdict, Opened, Evaluating
  <2> QED BY <1>0, <2>1, <2>3 DEF Judging, Busy
<1>9. CASE SelectRecoveryWindow(w)
  <2>1. /\ pc[w] = "recoveryWindow" /\ UNCHANGED <<job, tx>>
        /\ pc'[w] = IF UpsEnd(w) THEN "close" ELSE "commit"
      BY <1>t, <1>9 DEF SelectRecoveryWindow, Goto, UpsEnd
  <2>2. /\ ~Opened(w) /\ tx[w].closing = {} /\ OpenIncidents(job[w].monitor) # {}
      BY <1>0, <2>1 DEF IInv, Running, Staging, Opened, Judging
  <2>3. ~UpsEnd(w) => Verdict(w)'
      BY <1>e, <1>v, <2>1, <2>2 DEF Verdict, Opened, Evaluating
  <2> QED BY <1>0, <1>v, <2>1, <2>2, <2>3 DEF Judging, Busy
<1>10. CASE StartClose(w)
  <2>1. /\ pc[w] = "close" /\ pc'[w] = "closeLocked" /\ job' = job
        /\ tx' = [tx EXCEPT ![w].closing = Ids(job[w].monitor)]
      BY <1>t, <1>10 DEF StartClose, Goto, Ids
  <2>2. tx'[w].closing = Ids(job[w].monitor) /\ tx'[w].at = tx[w].at
      BY <1>t, <2>1 DEF TxType
  <2> QED BY <1>0, <1>v, <2>1, <2>2 DEF Judging, Busy
<1>11. CASE FinishClose(w)
  <2>1. /\ pc[w] = "closeLocked" /\ pc'[w] = "commit" /\ job' = job
        /\ tx' = [tx EXCEPT ![w].closing = tx[w].closing \cap Ids(job[w].monitor)]
      BY <1>t, <1>11 DEF FinishClose, Goto, Ids
  <2>2. /\ tx[w].closing = Ids(job[w].monitor) /\ UpsEnd(w) /\ ~Opened(w)
        /\ OpenIncidents(job[w].monitor) # {}
      BY <1>0, <2>1 DEF Judging, IInv, Running, Staging, Opened
  <2>3. /\ tx'[w].closing = Ids(job[w].monitor) /\ tx'[w].at = tx[w].at
        /\ tx'[w].evidence = tx[w].evidence
      BY <1>t, <2>1, <2>2 DEF TxType
  <2>4. Verdict(w)'
      BY <1>e, <1>v, <2>1, <2>2, <2>3 DEF Verdict, Opened, Evaluating
  <2> QED BY <1>0, <2>1, <2>3, <2>4 DEF Judging, Busy
<1>12. CASE EvaluationFailsCore(w)
  <2>1. /\ pc[w] \in Evaluating /\ pc'[w] = "commit" /\ job' = job
        /\ tx' = [tx EXCEPT ![w] = [tx[w] EXCEPT !.aborted = TRUE, !.closing = {}]]
      BY <1>t, <1>12 DEF EvaluationFailsCore, Goto
  <2>2. tx'[w].aborted /\ tx'[w].at = tx[w].at
      BY <1>t, <2>1 DEF TxType
  <2> QED BY <1>0, <2>1, <2>2 DEF Judging, Busy, Evaluating
<1>13. CASE WriteFails(w) \/ EvaluationFailsApi(w) \/ Crash(w)
  <2>1. /\ pc'[w] \in {"idle", "next"} /\ tx'[w] = NoWrites(0)
      BY <1>t, <1>13 DEF WriteFails, EvaluationFailsApi, Crash, Goto, AfterWrite, Leave
  <2>2. tx'[w].closing = {}
      BY <2>1 DEF NoWrites
  <2> QED BY <2>1, <2>2 DEF Judging, Busy
<1> QED BY <1>1, <1>2, <1>3, <1>4, <1>5, <1>6, <1>7, <1>8, <1>9, <1>10, <1>11, <1>12, <1>13
        DEF Step

-----------------------------------------------------------------------------
(* What a COMMIT publishes: its own row and, of its own monitor's           *)
(* incidents, what its verdict asks for.                                    *)
LEMMA PublishOpens ==
    ASSUME Serial, NEW w \in Writers, pc[w] = "commit", Publish(w), ~tx[w].aborted,
           NEW m, m = job[w].monitor
    PROVE  /\ results' = results \cup {OwnRow(w)} /\ IdsApart' /\ AtMostOneOpen'
           /\ \A n \in Monitors \ {m} :
                Rows(n)' = Rows(n) /\ OpenIncidents(n)' = OpenIncidents(n)
           /\ OpenIncidents(m)' # {} <=>
                IF ~Evaluates(w) THEN OpenIncidents(m) # {}
                ELSE IF OpenIncidents(m) = {} THEN DownsEnd(w) ELSE ~UpsEnd(w)
<1> DEFINE new == NewIncident(w)
           After(i) == Updated(w, i)
<1>1. /\ results' = results \cup {OwnRow(w)}
      /\ incidents' = {After(i) : i \in incidents} \cup (IF Opened(w) THEN {new} ELSE {})
    BY DEF Publish
<1>t. tx[w].at \in Times
    BY OwnRowType DEF Serial, IInv, Busy
<1>2. \A i \in incidents : /\ After(i).id = i.id /\ After(i).monitor = i.monitor
                           /\ IsOpen(After(i)) <=> IsOpen(i) /\ i.id \notin tx[w].closing
                           /\ i.id \notin tx[w].closing => After(i) = i
    BY <1>t, UpdatedIs DEF Serial, IInv
<1>3. new.id = tx[w].at /\ new.monitor = m /\ IsOpen(new)
    BY NewIncidentIs
<1>4. \A i \in incidents : i.id # tx[w].at
    BY DEF Serial, IInv, Tickets, Busy
<1>5. Verdict(w) /\ tx[w].closing \subseteq Ids(m)
    BY DEF Serial, Judging, Verdict
<1> HIDE DEF After, new
<1>6. \A k \in incidents' : (k = new /\ Opened(w)) \/ \E i \in incidents : k = After(i)
    BY <1>1
<1>7. (\A i \in incidents : After(i) \in incidents') /\ (Opened(w) => new \in incidents')
    BY <1>1
<1>8. IdsApart'
  <2> SUFFICES ASSUME NEW k \in incidents', NEW l \in incidents', k.id = l.id PROVE k = l
      BY DEF IdsApart
  <2> QED BY <1>2, <1>3, <1>4, <1>6 DEF Serial, IdsApart
<1>n. Opened(w) => OpenIncidents(m) = {}
    BY <1>5 DEF Verdict
<1>o. AtMostOneOpen'
  <2> SUFFICES ASSUME NEW k \in incidents', NEW l \in incidents',
                      IsOpen(k), IsOpen(l), k.monitor = l.monitor
               PROVE  k = l
      BY DEF AtMostOneOpen
  <2>1. ASSUME NEW i \in incidents, NEW j \in incidents, k = After(i), l = After(j)
        PROVE  k = l
      BY <1>2, <2>1 DEF Serial, AtMostOneOpen
  <2>2. ASSUME Opened(w), NEW i \in incidents, IsOpen(After(i)), After(i).monitor = m
        PROVE  FALSE
      BY <1>2, <1>n, <2>2 DEF OpenIncidents
  <2> QED BY <1>3, <1>6, <2>1, <2>2
<1>9. ASSUME NEW n \in Monitors \ {m}
      PROVE  Rows(n)' = Rows(n) /\ OpenIncidents(n)' = OpenIncidents(n)
  <2>0. \A i \in incidents : i.monitor = n => After(i) = i
      BY <1>2, <1>5 DEF Ids, OpenIncidents, Serial, IdsApart
  <2>1. ASSUME NEW k \in OpenIncidents(n)' PROVE k \in OpenIncidents(n)
    <3>1. k \in incidents' /\ IsOpen(k) /\ k.monitor = n
        BY DEF OpenIncidents
    <3>2. PICK i \in incidents : k = After(i)
        BY <1>3, <1>6, <3>1
    <3>3. k = i
        BY <1>2, <2>0, <3>1, <3>2
    <3> QED BY <3>1, <3>3 DEF OpenIncidents
  <2>2. ASSUME NEW i \in OpenIncidents(n) PROVE i \in OpenIncidents(n)'
    <3>1. i \in incidents /\ IsOpen(i) /\ i.monitor = n
        BY DEF OpenIncidents
    <3> QED BY <1>7, <2>0, <3>1 DEF OpenIncidents
  <2>3. Rows(n)' = Rows(n)
      BY <1>1 DEF Rows, OwnRow
  <2> QED BY <2>1, <2>2, <2>3
<1>10. CASE ~Evaluates(w)
  <2>1. ~Opened(w) /\ tx[w].closing = {}
      BY <1>5, <1>10 DEF Verdict
  <2>2. OpenIncidents(m)' = OpenIncidents(m)
      BY <1>2, <1>6, <1>7, <2>1 DEF OpenIncidents
  <2> QED BY <1>1, <1>8, <1>o, <1>9, <1>10, <2>2
<1>11. CASE Evaluates(w) /\ OpenIncidents(m) = {}
  <2>1. Opened(w) <=> DownsEnd(w)
      BY <1>5, <1>11 DEF Verdict
  <2>2. ASSUME Opened(w) PROVE new \in OpenIncidents(m)'
      BY <1>3, <1>7, <2>2 DEF OpenIncidents
  <2>3. ASSUME ~Opened(w), NEW k \in OpenIncidents(m)' PROVE FALSE
    <3>1. PICK i \in incidents : k = After(i)
        BY <1>6, <2>3 DEF OpenIncidents
    <3>2. k.monitor = m /\ IsOpen(k)
        BY DEF OpenIncidents
    <3> QED BY <1>2, <1>11, <3>1, <3>2 DEF OpenIncidents
  <2>4. OpenIncidents(m)' # {} <=> DownsEnd(w)
      BY <2>1, <2>2, <2>3
  <2> QED BY <1>1, <1>8, <1>o, <1>9, <1>11, <2>4
<1>12. CASE Evaluates(w) /\ OpenIncidents(m) # {}
  <2>1. ~Opened(w) /\ tx[w].closing = IF UpsEnd(w) THEN Ids(m) ELSE {}
      BY <1>5, <1>12 DEF Verdict
  <2>2. ASSUME UpsEnd(w), NEW k \in OpenIncidents(m)' PROVE FALSE
    <3>1. PICK i \in incidents : k = After(i)
        BY <1>6, <2>1 DEF OpenIncidents
    <3>2. k.monitor = m /\ IsOpen(k)
        BY DEF OpenIncidents
    <3>3. i \in OpenIncidents(m) /\ i.id \notin Ids(m)
        BY <1>2, <2>1, <2>2, <3>1, <3>2 DEF OpenIncidents
    <3> QED BY <3>3 DEF Ids
  <2>3. ASSUME ~UpsEnd(w) PROVE OpenIncidents(m)' # {}
    <3>1. PICK i \in OpenIncidents(m) : TRUE
        BY <1>12
    <3>2. After(i) \in OpenIncidents(m)'
        BY <1>2, <1>7, <2>1, <2>3, <3>1 DEF OpenIncidents
    <3> QED BY <3>2
  <2>4. OpenIncidents(m)' # {} <=> ~UpsEnd(w)
      BY <2>2, <2>3
  <2> QED BY <1>1, <1>8, <1>o, <1>9, <1>12, <2>4
<1> QED BY <1>10, <1>11, <1>12

(* A COMMIT publishes all the transaction wrote or nothing, and ends it. *)
LEMMA CommitStep ==
    ASSUME Serial, NEW w \in Writers, Commit(w) \/ CommitFails(w)
    PROVE  /\ pc[w] = "commit" /\ pc'[w] \in {"idle", "next"}
           /\ (Publish(w) /\ ~tx[w].aborted) \/ UNCHANGED tables
           /\ Judging(w)' /\ clock' = clock /\ monitors' = monitors
<1>1. /\ pc[w] = "commit" /\ (Publish(w) \/ UNCHANGED tables)
      /\ clock' = clock /\ monitors' = monitors /\ Leave(w)
      /\ pc' = [pc EXCEPT ![w] = AfterWrite(w)]
    BY DEF Commit, CommitFails, Goto
<1>2. (Publish(w) /\ ~tx[w].aborted) \/ UNCHANGED tables
    BY <1>1 DEF Publish
<1>3. /\ pc'[w] \in {"idle", "next"} /\ tx'[w] = NoWrites(0)
    BY <1>1 DEF Serial, IInv, TypeOK, AfterWrite, Leave
<1>4. tx'[w].closing = {}
    BY <1>3 DEF NoWrites
<1>5. Judging(w)'
    BY <1>3, <1>4 DEF Judging, Busy
<1> QED BY <1>1, <1>2, <1>3, <1>5

(* Of another writer's step, a writer in a transaction sees nothing: that   *)
(* one writes of another monitor.                                           *)
LEMMA OthersJudge ==
    ASSUME Serial, NEW w \in Writers, Step(w), NEW v \in Writers, v # w
    PROVE  Reading(v)' /\ Judging(v)'
<1>1. pc'[v] = pc[v] /\ todo'[v] = todo[v] /\ job'[v] = job[v] /\ tx'[v] = tx[v]
    BY OthersStand DEF Serial, IInv
<1>m. PICK m : m = job[v].monitor
    OBVIOUS
<1>2. Busy(v) => Rows(m)' = Rows(m) /\ OpenIncidents(m)' = OpenIncidents(m)
  <2> SUFFICES ASSUME Busy(v)
               PROVE  Rows(m)' = Rows(m) /\ OpenIncidents(m)' = OpenIncidents(m)
      OBVIOUS
  <2>1. CASE UNCHANGED <<results, incidents>>
      BY <2>1, SameTables
  <2>2. CASE pc[w] = "commit" /\ Publish(w) /\ ~tx[w].aborted
    <3>1. m # job[w].monitor /\ m \in Monitors
        BY <1>m, <2>2 DEF Serial, SerialWrites, Busy, IInv, TypeOK, Outcome
    <3>m. PICK own : own = job[w].monitor
        OBVIOUS
    <3> QED BY <2>2, <3>1, <3>m, PublishOpens
  <2> QED BY <2>1, <2>2, OnlyCommits, CommitStep DEF tables
<1> QED BY <1>1, <1>m, <1>2, StandingJudges DEF Serial

LEMMA ClockStep ==
    ASSUME Serial, NEW w \in Writers, Step(w)
    PROVE  clock \in Nat /\ clock' >= clock
<1>1. clock' = clock \/ clock' = clock + 1
    BY DEF Step, ClaimAndProbe, BeginWrite, BeginFails, EndBatch, PostResult,
       InsertResult, ReadMonitor, SelectOpenIncident, SelectFailureWindow,
       SelectRecoveryWindow, InsertIncident, FanOutDone, InsertPending, StartClose,
       FinishClose, Commit, CommitFails, WriteFails, EvaluationFailsCore, EvaluationFailsApi,
       Crash
<1>2. clock \in Nat
    BY MaxWritesAssumption DEF Serial, IInv, TypeOK
<1> QED BY <1>1, <1>2

LEMMA SerialStep ==
    ASSUME Serial, SerialWrites', NEW w \in Writers, Step(w)
    PROVE  Serial'
<1>1. IInv'
    BY NextIInv DEF Serial, Next
<1>2. clock \in Nat /\ clock' \in Nat /\ clock' >= clock
    BY <1>1, ClockStep, MaxWritesAssumption DEF IInv, TypeOK
<1>3. \A r \in results : r.at \in Nat /\ r.at <= clock
    BY MaxWritesAssumption DEF Serial, IInv, TypeOK, Row, Times
<1>4. \A v \in Writers \ {w} : Reading(v)' /\ Judging(v)'
    BY OthersJudge
<1>5. Reading(w)'
    BY ReadingStep DEF Serial
<1>6. Judging(w)'
    BY JudgingStep, CommitStep
<1>7. CASE UNCHANGED <<results, incidents>>
  <2>1. \A r \in results' : r.at <= clock'
      BY <1>2, <1>3, <1>7
  <2> QED BY <1>1, <1>4, <1>5, <1>6, <1>7, <2>1 DEF Serial, IdsApart, AtMostOneOpen
<1>8. CASE pc[w] = "commit" /\ Publish(w) /\ ~tx[w].aborted
  <2>m. PICK m : m = job[w].monitor
      OBVIOUS
  <2>1. results' = results \cup {OwnRow(w)} /\ IdsApart' /\ AtMostOneOpen'
      BY <1>8, <2>m, PublishOpens
  <2>2. OwnRow(w).at \in Nat /\ OwnRow(w).at <= clock
      BY <1>2, <1>8 DEF Serial, IInv, Tickets, Busy, OwnRow
  <2>3. \A r \in results' : r.at <= clock'
      BY <1>2, <1>3, <2>1, <2>2
  <2> QED BY <1>1, <1>4, <1>5, <1>6, <2>1, <2>3 DEF Serial
<1> QED BY <1>7, <1>8, OnlyCommits, CommitStep DEF tables

LEMMA NextSerial == Serial /\ [SerialNext]_vars => Serial'
<1> SUFFICES ASSUME Serial, [SerialNext]_vars PROVE Serial'
    OBVIOUS
<1>1. ASSUME NEW w \in Writers, Step(w), SerialWrites' PROVE Serial'
    BY <1>1, SerialStep
<1>2. CASE Administer \/ UNCHANGED vars
  <2>1. UNCHANGED <<results, incidents, clock, pc, todo, job, tx>>
    <3>1. CASE UNCHANGED vars
        BY <3>1 DEF vars
    <3>2. CASE Administer
        BY <3>2 DEF Administer, PatchMonitor, ArchiveMonitor, CreateChannel,
                    DeleteChannel, tables
    <3> QED BY <1>2, <3>1, <3>2
  <2>2. IInv'
      BY <1>2, AdministerStep DEF Serial
  <2>3. ASSUME NEW w \in Writers PROVE Reading(w)' /\ Judging(w)'
    <3>m. PICK m : m = job[w].monitor
        OBVIOUS
    <3> QED BY <2>1, <3>m, SameTables, StandingJudges DEF Serial
  <2> QED BY <2>1, <2>2, <2>3 DEF Serial, SerialWrites, Busy, IdsApart, AtMostOneOpen
<1> QED BY <1>1, <1>2 DEF SerialNext

LEMMA AlwaysSerial == SerialSpec => []Serial
BY InitSerial, NextSerial, PTL DEF SerialSpec

-----------------------------------------------------------------------------
(* The monitors a step opens, closes, waives or leaves in the lifecycle *)
OpenMonitors == {m \in Monitors : OpenIncidents(m) # {}}
ActiveMonitors == {m \in Monitors : monitors[m].status = "active"}
WaivedMonitors == {m \in Monitors : Waived(m)}

Waives(w) == pc[w] = "commit" /\ ~Evaluates(w)

(* A step changes the waiver of its own monitor at most: with serial writes *)
(* no other transaction waives that.                                        *)
LEMMA WaiverStep ==
    ASSUME Serial, NEW w \in Writers, Step(w), NEW m \in Monitors, m = job[w].monitor,
           Busy(w) => job'[w].monitor = m \/ ~Waives(w)'
    PROVE  /\ ~Waives(w)' => WaivedMonitors' = IF Waives(w) THEN WaivedMonitors \ {m}
                                               ELSE WaivedMonitors
           /\ Waives(w)' /\ Busy(w) => WaivedMonitors' = WaivedMonitors \cup {m}
<1>1. \A v \in Writers \ {w} : pc'[v] = pc[v] /\ job'[v] = job[v]
    BY OthersStand DEF Serial, IInv
<1>2. \A v \in Writers \ {w} : Waives(v)' <=> Waives(v)
    BY <1>1 DEF Waives, Evaluates
<1>3. \A n \in Monitors : n \in WaivedMonitors <=> \E v \in Writers : Waives(v) /\ job[v].monitor = n
    BY DEF WaivedMonitors, Waived, Waives
<1>4. \A n \in Monitors :
        n \in WaivedMonitors' <=> \E v \in Writers : Waives(v)' /\ job'[v].monitor = n
    BY DEF WaivedMonitors, Waived, Waives
<1>5. WaivedMonitors \subseteq Monitors /\ WaivedMonitors' \subseteq Monitors
    BY DEF WaivedMonitors
<1>6. \A v \in Writers \ {w} : Waives(v) /\ Waives(w) => job[v].monitor # m
    BY DEF Serial, SerialWrites, Busy, Waives
<1>7. ASSUME ~Waives(w)'
      PROVE  WaivedMonitors' = IF Waives(w) THEN WaivedMonitors \ {m} ELSE WaivedMonitors
  <2>1. \A n \in Monitors :
          n \in WaivedMonitors' <=> \E v \in Writers \ {w} : Waives(v) /\ job[v].monitor = n
      BY <1>1, <1>2, <1>4, <1>7
  <2>2. CASE Waives(w)
      BY <1>3, <1>5, <1>6, <2>1, <2>2
  <2>3. CASE ~Waives(w)
      BY <1>3, <1>5, <2>1, <2>3
  <2> QED BY <2>2, <2>3
<1>8. ASSUME Waives(w)', Busy(w) PROVE WaivedMonitors' = WaivedMonitors \cup {m}
  <2>1. job'[w].monitor = m
      BY <1>8
  <2>2. \A n \in Monitors : n \in WaivedMonitors' <=>
          n = m \/ \E v \in Writers \ {w} : Waives(v) /\ job[v].monitor = n
      BY <1>1, <1>2, <1>4, <1>8, <2>1
  <2> QED BY <1>3, <1>5, <2>2
<1> QED BY <1>7, <1>8

(* A commit is a step of the lifecycle. *)
LEMMA CommitRefines ==
    ASSUME Serial, NEW w \in Writers, Commit(w) \/ CommitFails(w), Step(w),
           Publish(w), ~tx[w].aborted
    PROVE  Lifecycle!Next
<1> DEFINE r == OwnRow(w)
<1>m. PICK m \in Monitors : m = job[w].monitor
    BY DEF Serial, IInv, TypeOK, Outcome
<1>0. /\ pc[w] = "commit" /\ pc'[w] \in {"idle", "next"} /\ monitors' = monitors
    BY CommitStep
<1>1. r \in Lifecycle!Row /\ r.monitor = m /\ r.at = tx[w].at /\ (r.judged <=> Evaluates(w))
    BY <1>m, <1>0, OwnRowType DEF Serial, IInv, Busy, OwnRow, Row, Lifecycle!Row
<1>2. /\ results' = results \cup {r}
      /\ \A n \in Monitors \ {m} : OpenIncidents(n)' = OpenIncidents(n)
      /\ OpenIncidents(m)' # {} <=>
           IF ~Evaluates(w) THEN OpenIncidents(m) # {}
           ELSE IF OpenIncidents(m) = {} THEN DownsEnd(w) ELSE ~UpsEnd(w)
    BY <1>m, <1>0, PublishOpens
<1>3. Lifecycle!Recorded(r)
    BY <1>m, <1>0, <1>1, <1>2
       DEF Serial, Judging, Busy, Lifecycle!Recorded, Lifecycle!Of
<1>4. WaivedMonitors' = IF Waives(w) THEN WaivedMonitors \ {m} ELSE WaivedMonitors
    BY <1>m, <1>0, WaiverStep DEF Waives
<1>5. ActiveMonitors' = ActiveMonitors
    BY <1>0 DEF ActiveMonitors
<1>6. m \in WaivedMonitors <=> ~Evaluates(w)
    BY <1>m, <1>0 DEF WaivedMonitors, Waived, Evaluates, Serial, SerialWrites, Busy
<1>7. CASE ~Evaluates(w)
  <2>1. OpenMonitors' = OpenMonitors
      BY <1>2, <1>7 DEF OpenMonitors
  <2>2. WaivedMonitors' = WaivedMonitors \ {m}
      BY <1>0, <1>4, <1>7 DEF Waives
  <2> HIDE DEF r
  <2>3. Lifecycle!Kept(r)
      BY <1>1, <1>3, <1>5, <1>6, <1>7, <2>1, <2>2
         DEF Lifecycle!Kept, OpenMonitors, ActiveMonitors, WaivedMonitors
  <2> QED BY <1>1, <2>3 DEF Lifecycle!Next
<1>8. CASE Evaluates(w)
  <2>1. PICK th \in Thresholds : job[w].failure = th.failure /\ job[w].recovery = th.recovery
      BY <1>0, <1>8 DEF Serial, Reading, FromPair
  <2>2. Lifecycle!Of(m) \cup {r} = History(w)
      BY <1>m DEF Lifecycle!Of, History
  <2> DEFINE of == Lifecycle!Of(m) \cup {r}
  <2>3. /\ Lifecycle!Streak(of, th.failure, "down") <=> DownsEnd(w)
        /\ Lifecycle!Streak(of, th.recovery, "up") <=> UpsEnd(w)
      BY <2>1, <2>2, SameStreak DEF DownsEnd, UpsEnd
  <2>4. WaivedMonitors' = WaivedMonitors
      BY <1>4, <1>8 DEF Waives
  <2> HIDE DEF of, r
  <2>5. OpenMonitors' = IF m \in OpenMonitors
                          THEN IF UpsEnd(w) THEN OpenMonitors \ {m} ELSE OpenMonitors
                          ELSE IF DownsEnd(w) THEN OpenMonitors \cup {m} ELSE OpenMonitors
      BY <1>2, <1>8 DEF OpenMonitors
  <2>6. Lifecycle!Evaluated(r, th)
      BY <1>1, <1>3, <1>5, <1>6, <1>8, <2>3, <2>4, <2>5
         DEF Lifecycle!Evaluated, OpenMonitors, ActiveMonitors, WaivedMonitors, of
  <2> QED BY <1>1, <2>1, <2>6 DEF Lifecycle!Next
<1> QED BY <1>7, <1>8

(* A step that publishes nothing waives its monitor's result, loses one     *)
(* that was waived, or is a stutter.                                        *)
LEMMA QuietRefines ==
    ASSUME Serial, NEW w \in Writers, Step(w), UNCHANGED <<results, incidents>>
    PROVE  [Lifecycle!Next]_(Lifecycle!lifecycleVars)
<1>t. /\ pc \in [Writers -> {"idle", "next", "commit"} \cup Writing \cup Evaluating]
      /\ job \in [Writers -> Outcome] /\ Reading(w)
    BY DEF Serial, IInv, TypeOK
<1>m. PICK m \in Monitors : m = job[w].monitor
    BY <1>t DEF Outcome
<1>1. OpenMonitors' = OpenMonitors
    BY DEF OpenMonitors, OpenIncidents
<1>2. monitors' = monitors
    BY DEF Step, ClaimAndProbe, BeginWrite, BeginFails, EndBatch, PostResult, InsertResult,
       ReadMonitor, SelectOpenIncident, SelectFailureWindow, SelectRecoveryWindow,
       InsertIncident, FanOutDone, InsertPending, StartClose, FinishClose, Commit, CommitFails,
       WriteFails, EvaluationFailsCore, EvaluationFailsApi, Crash
<1>3. ActiveMonitors' = ActiveMonitors
    BY <1>2 DEF ActiveMonitors
<1>4. \/ ~Waives(w)'
      \/ /\ ReadMonitor(w) /\ pc[w] = "readMonitor" /\ job' = job /\ m \notin ActiveMonitors
  <2>1. CASE \/ (\E batch \in SUBSET Monitors : ClaimAndProbe(w, batch))
             \/ (\E o \in todo[w] : BeginWrite(w, o) \/ BeginFails(w, o)) \/ EndBatch(w)
             \/ (\E n \in Monitors, s \in {"up", "degraded", "down"} : PostResult(w, n, s))
             \/ InsertResult(w) \/ SelectOpenIncident(w) \/ InsertIncident(w)
             \/ (\E c \in Channels : InsertPending(w, c)) \/ StartClose(w)
             \/ Commit(w) \/ CommitFails(w) \/ WriteFails(w) \/ EvaluationFailsApi(w)
             \/ Crash(w)
    <3>1. pc'[w] # "commit"
        BY <1>t, <2>1 DEF ClaimAndProbe, BeginWrite, BeginFails, EndBatch, PostResult,
           InsertResult, SelectOpenIncident, InsertIncident, InsertPending, StartClose, Commit,
           CommitFails, WriteFails, EvaluationFailsApi, Crash, Goto, AfterWrite
    <3> QED BY <3>1 DEF Waives
  <2>2. CASE \/ SelectFailureWindow(w) \/ SelectRecoveryWindow(w) \/ FanOutDone(w)
             \/ FinishClose(w) \/ EvaluationFailsCore(w)
    <3>1. pc[w] \in Evaluating /\ job' = job
        BY <2>2 DEF SelectFailureWindow, SelectRecoveryWindow, FanOutDone, FinishClose,
           EvaluationFailsCore, Goto, Evaluating
    <3>2. Evaluates(w)
        BY <1>t, <3>1, PairEvaluates DEF Reading
    <3> QED BY <3>1, <3>2 DEF Waives, Evaluates
  <2>3. CASE ReadMonitor(w)
    <3>1. /\ pc[w] = "readMonitor"
          /\ pc'[w] = IF monitors[m].status = "active" THEN "selectOpen" ELSE "commit"
          /\ monitors[m].status # "active" => job' = job
        BY <1>t, <1>m, <2>3 DEF ReadMonitor, Goto
    <3> QED BY <2>3, <3>1 DEF Waives, ActiveMonitors
  <2> QED BY <2>1, <2>2, <2>3 DEF Step
<1>5. CASE ~Waives(w)'
  <2>1. WaivedMonitors' = IF Waives(w) THEN WaivedMonitors \ {m} ELSE WaivedMonitors
      BY <1>m, <1>5, WaiverStep
  <2>2. CASE Waives(w)
    <3>1. Lifecycle!Lost(m)
        BY <1>1, <1>3, <2>1, <2>2
           DEF Lifecycle!Lost, OpenMonitors, ActiveMonitors, WaivedMonitors
    <3> QED BY <3>1 DEF Lifecycle!Next
  <2>3. CASE ~Waives(w)
    <3>1. UNCHANGED Lifecycle!lifecycleVars
        BY <1>1, <1>3, <2>1, <2>3
           DEF Lifecycle!lifecycleVars, OpenMonitors, ActiveMonitors, WaivedMonitors
    <3> QED BY <3>1
  <2> QED BY <2>2, <2>3
<1>6. CASE Waives(w)'
  <2>1. WaivedMonitors' = WaivedMonitors \cup {m}
      BY <1>m, <1>4, <1>6, WaiverStep DEF Busy
  <2>2. Lifecycle!Waive(m)
      BY <1>1, <1>3, <1>4, <1>6, <2>1
         DEF Lifecycle!Waive, OpenMonitors, ActiveMonitors, WaivedMonitors
  <2> QED BY <2>2 DEF Lifecycle!Next
<1> QED BY <1>5, <1>6

LEMMA AdministerRefines ==
    ASSUME Serial, Administer \/ UNCHANGED vars
    PROVE  [Lifecycle!Next]_(Lifecycle!lifecycleVars)
<1>1. UNCHANGED <<results, incidents, pc, job>>
    BY DEF vars, Administer, PatchMonitor, ArchiveMonitor, CreateChannel, DeleteChannel, tables
<1>2. OpenMonitors' = OpenMonitors /\ WaivedMonitors' = WaivedMonitors
    BY <1>1 DEF OpenMonitors, OpenIncidents, WaivedMonitors, Waived, Evaluates
<1>3. ActiveMonitors' \in SUBSET Monitors
    BY DEF ActiveMonitors
<1>4. Lifecycle!Administered
    BY <1>1, <1>2, <1>3 DEF Lifecycle!Administered, OpenMonitors, ActiveMonitors, WaivedMonitors
<1> QED BY <1>4 DEF Lifecycle!Next

LEMMA StepRefines ==
    ASSUME Serial, [SerialNext]_vars
    PROVE  [Lifecycle!Next]_(Lifecycle!lifecycleVars)
<1>1. ASSUME NEW w \in Writers, Step(w)
      PROVE  [Lifecycle!Next]_(Lifecycle!lifecycleVars)
  <2>1. CASE UNCHANGED <<results, incidents>>
      BY <1>1, <2>1, QuietRefines
  <2>2. CASE (Commit(w) \/ CommitFails(w)) /\ Publish(w) /\ ~tx[w].aborted
      BY <1>1, <2>2, CommitRefines
  <2> QED BY <1>1, <2>1, <2>2, OnlyCommits, CommitStep DEF tables
<1> QED BY <1>1, AdministerRefines DEF SerialNext

(* Where the writes of each monitor are serial, every result is judged      *)
(* against the whole history that ends with it, and opens, closes or leaves *)
(* the incident as IncidentLifecycle says, and only what arrives while the  *)
(* monitor is paused or archived is not judged: whatever statement fails,   *)
(* wherever a process dies, and however the writes of different monitors    *)
(* interleave.                                                              *)
THEOREM SerialWritesAreTheLifecycle == SerialSpec => ImplementsLifecycle
<1>1. Init => Lifecycle!Init
    BY DEF Lifecycle!Init, Init, OpenIncidents, Waived
<1>2. Serial /\ [SerialNext]_vars => [Lifecycle!Next]_(Lifecycle!lifecycleVars)
    BY StepRefines
<1> QED BY <1>1, <1>2, AlwaysSerial, PTL DEF ImplementsLifecycle, Lifecycle!Spec, SerialSpec

(* Serial writes never leave a monitor with two open incidents. *)
THEOREM SerialWritesOpenOnce == SerialSpec => []AtMostOneOpen
BY AlwaysSerial, PTL DEF Serial

-----------------------------------------------------------------------------
(* With one pair of thresholds no crossing is missed. *)
OnePair == \A s, t \in Thresholds : s = t

LEMMA CrossingsKept ==
    ASSUME NoMissedCrossing, NEW m \in Monitors, NEW th \in Thresholds,
           Rows(m)' = Rows(m), OpenIncidents(m)' = OpenIncidents(m),
           Streak(Rows(m)', th.failure, "down"),
           \E r \in Rows(m)' : r.judged /\ \A q \in Rows(m)' : q.at <= r.at
    PROVE  OpenIncidents(m)' # {}
BY DEF NoMissedCrossing, Rows

LEMMA CommitCrosses ==
    ASSUME OnePair, Serial, NEW w \in Writers, pc[w] = "commit", Publish(w), ~tx[w].aborted,
           NEW m, m = job[w].monitor, NEW th \in Thresholds,
           Streak(Rows(m)', th.failure, "down"),
           \E r \in Rows(m)' : r.judged /\ \A q \in Rows(m)' : q.at <= r.at
    PROVE  OpenIncidents(m)' # {}
<1>1. /\ results' = results \cup {OwnRow(w)}
      /\ OpenIncidents(m)' # {} <=>
           IF ~Evaluates(w) THEN OpenIncidents(m) # {}
           ELSE IF OpenIncidents(m) = {} THEN DownsEnd(w) ELSE ~UpsEnd(w)
    BY PublishOpens
<1>2. /\ OwnRow(w).monitor = m /\ OwnRow(w).at = tx[w].at
      /\ OwnRow(w).judged <=> Evaluates(w)
    BY DEF OwnRow
<1>3. Rows(m)' = History(w) /\ History(w) = Rows(m) \cup {OwnRow(w)}
    BY <1>1, <1>2 DEF Rows, History
<1>4. tx[w].at \in Nat /\ \A q \in Rows(m) : q.at \in Nat /\ q.at < tx[w].at
    BY MaxWritesAssumption DEF Serial, Judging, Busy, IInv, TypeOK, Row, Times, Rows
<1>5. PICK r \in Rows(m)' : r.judged /\ \A q \in Rows(m)' : q.at <= r.at
    OBVIOUS
<1>6. r = OwnRow(w)
    BY <1>2, <1>3, <1>4, <1>5
<1>7. Evaluates(w)
    BY <1>2, <1>5, <1>6
<1>8. job[w].failure = th.failure /\ job[w].recovery = th.recovery
    BY <1>7 DEF Serial, Reading, FromPair, OnePair
<1>9. th.failure \in Nat \ {0} /\ th.recovery \in Nat \ {0}
    BY ThresholdsAssumption
<1>10. DownsEnd(w)
    BY <1>3, <1>8 DEF DownsEnd
<1>11. ~UpsEnd(w)
  <2>1. OwnRow(w) \in History(w) /\ \A q \in History(w) : ~(q.at > OwnRow(w).at)
      BY <1>2, <1>3, <1>4
  <2>2. OwnRow(w).status = "down"
      BY <1>8, <1>9, <1>10, <2>1, LatestIsRecent DEF DownsEnd
  <2>3. ASSUME UpsEnd(w) PROVE OwnRow(w).status = "up"
      BY <1>8, <1>9, <2>1, <2>3, LatestIsRecent DEF UpsEnd
  <2> QED BY <2>2, <2>3
<1> QED BY <1>1, <1>7, <1>10, <1>11

LEMMA CrossingsStep ==
    ASSUME OnePair, Serial, NoMissedCrossing, [SerialNext]_vars
    PROVE  NoMissedCrossing'
<1> SUFFICES ASSUME NEW m \in Monitors, NEW th \in Thresholds,
                    Streak(Rows(m)', th.failure, "down"),
                    \E r \in Rows(m)' : r.judged /\ \A q \in Rows(m)' : q.at <= r.at
             PROVE  OpenIncidents(m)' # {}
    BY DEF NoMissedCrossing, Rows
<1>1. CASE UNCHANGED <<results, incidents>>
    BY <1>1, SameTables, CrossingsKept
<1>2. ASSUME NEW w \in Writers, pc[w] = "commit", Publish(w), ~tx[w].aborted
      PROVE  OpenIncidents(m)' # {}
  <2>1. CASE m = job[w].monitor
      BY <1>2, <2>1, CommitCrosses
  <2>2. CASE m # job[w].monitor
    <3>m. PICK own : own = job[w].monitor
        OBVIOUS
    <3>1. Rows(m)' = Rows(m) /\ OpenIncidents(m)' = OpenIncidents(m)
        BY <1>2, <2>2, <3>m, PublishOpens
    <3> QED BY <3>1, CrossingsKept
  <2> QED BY <2>1, <2>2
<1>3. CASE Administer \/ UNCHANGED vars
  <2>1. UNCHANGED <<results, incidents>>
      BY <1>3 DEF vars, Administer, PatchMonitor, ArchiveMonitor, CreateChannel, DeleteChannel,
         tables
  <2> QED BY <1>1, <2>1
<1>4. ASSUME NEW w \in Writers, Step(w)
      PROVE  \/ pc[w] = "commit" /\ Publish(w) /\ ~tx[w].aborted
             \/ UNCHANGED <<results, incidents>>
    BY <1>4, OnlyCommits, CommitStep DEF tables
<1> QED BY <1>1, <1>2, <1>3, <1>4 DEF SerialNext

(* Serial writes and one pair of thresholds: a monitor whose latest result  *)
(* was judged and ends a full streak of downs has an open incident.         *)
THEOREM NoCrossingIsMissed ==
    ASSUME OnePair
    PROVE  SerialSpec => []NoMissedCrossing
<1>1. Init => NoMissedCrossing
  <2> SUFFICES ASSUME Init, NEW m \in Monitors, NEW th \in Thresholds,
                      Streak({r \in results : r.monitor = m}, th.failure, "down")
               PROVE  FALSE
      BY DEF NoMissedCrossing
  <2>1. {r \in results : r.monitor = m} = {}
      BY DEF Init
  <2>2. Recent({}, th.failure) = {}
      BY DEF Recent
  <2>3. th.failure \in Nat \ {0}
      BY ThresholdsAssumption
  <2> QED BY <2>1, <2>2, <2>3, StreakNotEmpty
<1>2. Serial /\ NoMissedCrossing /\ [SerialNext]_vars => NoMissedCrossing'
    BY CrossingsStep
<1> QED BY <1>1, <1>2, AlwaysSerial, PTL DEF SerialSpec

-----------------------------------------------------------------------------
(* Where writes are serial: in every behaviour in which none overlap, and   *)
(* in every one of a single writer.                                         *)
LEMMA SerialBehaviours == Spec /\ []SerialWrites => SerialSpec
<1>1. [Next]_vars /\ SerialWrites' => [SerialNext]_vars
    BY DEF Next, SerialNext
<1> QED BY <1>1, PTL DEF Spec, SerialSpec

(* So the overlap of two transactions on one monitor is all that departs    *)
(* from the lifecycle: a behaviour that departs from it has one.            *)
THEOREM OnlyOverlapDeparts == Spec /\ []SerialWrites => ImplementsLifecycle
BY SerialBehaviours, SerialWritesAreTheLifecycle, PTL

(* One writer, such as a signalnode-core process with no result posted        *)
(* through the API, never overlaps itself.                                    *)
THEOREM OneWriterIsTheLifecycle ==
    ASSUME OneWriter
    PROVE  Spec => ImplementsLifecycle
<1>1. SerialWrites
    BY DEF OneWriter, SerialWrites
<1> QED BY <1>1, OnlyOverlapDeparts, PTL
=============================================================================
