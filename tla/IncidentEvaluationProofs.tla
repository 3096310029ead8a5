---------------------- MODULE IncidentEvaluationProofs ----------------------
(***************************************************************************)
(* Theorems about IncidentEvaluation for any monitors, channels,           *)
(* thresholds, number of engines and of API requests.                      *)
(***************************************************************************)
EXTENDS IncidentEvaluation, FiniteSetTheorems, TLAPS

-----------------------------------------------------------------------------
(* The window of evaluate_incident is not empty when it is full. *)
LEMMA StreakNotEmpty ==
    ASSUME NEW history, NEW n \in Nat \ {0}, NEW s, Streak(history, n, s)
    PROVE  Recent(history, n) # {}
BY FS_EmptySet DEF Streak

LEMMA RecentIsPart ==
    ASSUME NEW history, NEW n
    PROVE  Recent(history, n) \subseteq history
BY DEF Recent

(* Whose threshold an outcome carries *)
FromThresholds(n) == \E th \in Thresholds : n = th.failure

(* NOW() of a transaction is its own: no other transaction, no incident in  *)
(* the table has it.                                                        *)
Tickets ==
    /\ \A w \in Writers : Busy(w) => tx[w].at \in 1 .. clock
    /\ \A v, w \in Writers : v # w /\ Busy(v) /\ Busy(w) => tx[v].at # tx[w].at
    /\ \A i \in incidents : i.id <= clock
    /\ \A i \in incidents, w \in Writers : Busy(w) => i.id # tx[w].at

(* The failure threshold a writer evaluates with is one of the monitor's. *)
ThresholdRead(w) ==
    /\ \A o \in todo[w] : FromThresholds(o.failure)
    /\ w \in CoreWriters /\ Busy(w) => FromThresholds(job[w].failure)
    /\ pc[w] \in Evaluating => FromThresholds(job[w].failure)

(* What a transaction has staged at each of its steps *)
Staging(w) ==
    /\ tx[w].evidence = {} => tx[w].snapshot = {}
    /\ tx[w].notes \subseteq tx[w].snapshot
    /\ pc[w] \notin {"insertPending", "commit"} => tx[w].snapshot = {}
    /\ pc[w] \notin {"insertIncident", "insertPending", "commit"} => tx[w].evidence = {}
    /\ pc[w] \in {"insertIncident", "insertPending"} => tx[w].evidence # {}
    /\ pc[w] = "commit" /\ ~tx[w].aborted => tx[w].notes = tx[w].snapshot
    /\ tx[w].aborted => w \in CoreWriters

(* What it rests its incident on *)
Evidence(w) ==
    tx[w].evidence # {} =>
        /\ \A r \in tx[w].evidence : /\ r.monitor = job[w].monitor
                                     /\ r.status = "down"
                                     /\ r \in results \cup {OwnRow(w)}
        /\ Cardinality(tx[w].evidence) = job[w].failure
        /\ FromThresholds(job[w].failure)

Running(w) == ThresholdRead(w) /\ Staging(w) /\ Evidence(w)

IInv ==
    /\ TypeOK /\ Tickets
    /\ \A w \in Writers : Running(w)
    /\ FanOutComplete /\ OpenedOnEvidence /\ AcknowledgedIsDurable

LEMMA InitIInv == Init => IInv
<1> SUFFICES ASSUME Init PROVE IInv
    OBVIOUS
<1> USE DEF Init, Idle, NoWrites
<1>0. Idle \in Outcome
    BY MonitorsAssumption DEF Outcome
<1>1. TypeOK
  <2>1. monitors \in [Monitors -> [status : Statuses, th : Thresholds]]
      BY StatusesAssumption
  <2>2. channels \subseteq Channels
      OBVIOUS
  <2>3. /\ results \subseteq Row /\ pending \subseteq [incident : Times, channel : Channels]
        /\ incidents \subseteq [id : Times, monitor : Monitors, closed_at : 0 .. MaxWrites,
                                by : Writers, failure : Nat,
                                evidence : SUBSET Row, told : SUBSET Channels]
        /\ reported \subseteq [writer : Writers, at : Times]
      OBVIOUS
  <2>4. clock \in 0 .. MaxWrites
      BY MaxWritesAssumption
  <2>5. pc \in [Writers -> {"idle", "next", "commit"} \cup Writing \cup Evaluating]
      OBVIOUS
  <2>6. todo \in [Writers -> SUBSET Outcome] /\ job \in [Writers -> Outcome]
      BY <1>0
  <2>7. tx \in [Writers -> [at : 0 .. MaxWrites, evidence : SUBSET Row,
                           snapshot : SUBSET Channels, notes : SUBSET Channels,
                           closing : SUBSET Times, aborted : BOOLEAN]]
      BY MaxWritesAssumption
  <2> QED BY <2>1, <2>2, <2>3, <2>4, <2>5, <2>6, <2>7 DEF TypeOK
<1>2. Tickets /\ \A w \in Writers : Running(w)
    BY DEF Tickets, Running, ThresholdRead, Staging, Evidence, Busy, Evaluating
<1>3. FanOutComplete /\ OpenedOnEvidence /\ AcknowledgedIsDurable
    BY DEF FanOutComplete, OpenedOnEvidence, AcknowledgedIsDurable
<1> QED BY <1>1, <1>2, <1>3 DEF IInv

-----------------------------------------------------------------------------
(* Types *)

TxType == [at : 0 .. MaxWrites, evidence : SUBSET Row, snapshot : SUBSET Channels,
           notes : SUBSET Channels, closing : SUBSET Times, aborted : BOOLEAN]

LEMMA IdleType == Idle \in Outcome
BY MonitorsAssumption DEF Idle, Outcome

LEMMA NoWritesType == \A t \in 0 .. MaxWrites : NoWrites(t) \in TxType
BY DEF NoWrites, TxType

LEMMA LeaveType ==
    ASSUME TypeOK, NEW w \in Writers, Leave(w)
    PROVE  job' \in [Writers -> Outcome] /\ tx' \in [Writers -> TxType]
BY IdleType, NoWritesType, MaxWritesAssumption DEF TypeOK, TxType, Leave

LEMMA OwnRowType ==
    ASSUME TypeOK, Tickets, NEW w \in Writers, Busy(w)
    PROVE  tx[w].at \in Times /\ OwnRow(w) \in Row
<1>1. tx[w].at \in Times
    BY MaxWritesAssumption DEF TypeOK, Tickets, Times
<1> QED BY <1>1 DEF TypeOK, OwnRow, Evaluates, Row, Outcome

(* What COMMIT makes of the incidents: a new one is open, one it updates is    *)
(* the same but for closed_at.                                               *)
LEMMA NewIncidentIs ==
    ASSUME NEW w \in Writers, NEW new, new = NewIncident(w)
    PROVE  /\ new.id = tx[w].at /\ new.monitor = job[w].monitor /\ new.by = w
           /\ new.failure = job[w].failure
           /\ new.evidence = tx[w].evidence /\ new.told = tx[w].snapshot /\ IsOpen(new)
BY DEF NewIncident, IsOpen

LEMMA UpdatedIs ==
    ASSUME TypeOK, NEW w \in Writers, NEW i \in incidents, NEW u, u = Updated(w, i)
    PROVE  /\ u = [i EXCEPT !.closed_at = u.closed_at]
           /\ u.id = i.id /\ u.monitor = i.monitor /\ u.by = i.by
           /\ u.failure = i.failure /\ u.evidence = i.evidence /\ u.told = i.told
           /\ i.id \notin tx[w].closing => u = i
           /\ i.id \in tx[w].closing => u = [i EXCEPT !.closed_at = tx[w].at]
           /\ tx[w].at \in Times => (IsOpen(u) <=> IsOpen(i) /\ i.id \notin tx[w].closing)
<1>1. i \in [id : Times, monitor : Monitors, closed_at : 0 .. MaxWrites,
             by : Writers, failure : Nat, evidence : SUBSET Row, told : SUBSET Channels]
    BY DEF TypeOK
<1>2. PICK t : u = [i EXCEPT !.closed_at = t]
               /\ t = IF i.id \in tx[w].closing THEN tx[w].at ELSE i.closed_at
    BY DEF Updated
<1>3. u.closed_at = t /\ u.id = i.id /\ u.monitor = i.monitor /\ u.by = i.by
    BY <1>1, <1>2
<1>4. u.failure = i.failure /\ u.evidence = i.evidence /\ u.told = i.told
    BY <1>1, <1>2
<1>5. i.id \notin tx[w].closing => u = i
    BY <1>1, <1>2
<1> QED BY <1>2, <1>3, <1>4, <1>5, MaxWritesAssumption DEF IsOpen, Times

LEMMA HistoryType ==
    ASSUME TypeOK, Tickets, NEW w \in Writers, Busy(w)
    PROVE  History(w) \subseteq Row
BY OwnRowType DEF TypeOK, History

LEMMA PublishType ==
    ASSUME TypeOK, Tickets, NEW w \in Writers, Busy(w), Publish(w)
    PROVE  /\ results' \subseteq Row
           /\ incidents' \subseteq [id : Times, monitor : Monitors, closed_at : 0 .. MaxWrites,
                                    by : Writers, failure : Nat,
                                    evidence : SUBSET Row, told : SUBSET Channels]
           /\ pending' \subseteq [incident : Times, channel : Channels]
<1> DEFINE Incident == [id : Times, monitor : Monitors, closed_at : 0 .. MaxWrites,
                        by : Writers, failure : Nat,
                        evidence : SUBSET Row, told : SUBSET Channels]
<1>1. tx[w].at \in Times /\ OwnRow(w) \in Row
    BY OwnRowType
<1>2. CASE tx[w].aborted
    BY <1>2 DEF Publish, tables, TypeOK
<1>3. CASE ~tx[w].aborted
  <2>1. results' \subseteq Row
      BY <1>1, <1>3 DEF Publish, TypeOK
  <2>2. \A i \in incidents : Updated(w, i) \in Incident
      BY <1>1, MaxWritesAssumption DEF TypeOK, Updated, Times
  <2>3. NewIncident(w) \in Incident
      BY <1>1, MaxWritesAssumption DEF TypeOK, Outcome, NewIncident
  <2>4. incidents' \subseteq Incident
    <3>1. \A i \in incidents' :
            \/ \E j \in incidents : i = Updated(w, j)
            \/ i = NewIncident(w)
        BY <1>3 DEF Publish
    <3> HIDE DEF Incident
    <3> QED BY <3>1, <2>2, <2>3
  <2>5. pending' \subseteq [incident : Times, channel : Channels]
    <3>1. tx[w].notes \subseteq Channels
        BY DEF TypeOK
    <3>2. pending' = pending \cup {[incident |-> tx[w].at, channel |-> c] : c \in tx[w].notes}
        BY <1>3 DEF Publish
    <3> QED BY <1>1, <3>1, <3>2 DEF TypeOK
  <2> QED BY <2>1, <2>4, <2>5
<1> QED BY <1>2, <1>3

LEMMA TypeStep ==
    ASSUME TypeOK, Tickets, NEW w \in Writers, Step(w)
    PROVE  TypeOK'
<1> USE MaxWritesAssumption DEF TypeOK, Writing, Evaluating, tables, AfterWrite, TxType
<1>1. ASSUME NEW batch \in SUBSET Monitors, ClaimAndProbe(w, batch) PROVE TypeOK'
    BY <1>1, ThresholdsAssumption DEF ClaimAndProbe, Goto, Outcome
<1>2. ASSUME NEW o \in todo[w], BeginWrite(w, o) PROVE TypeOK'
    BY <1>2 DEF BeginWrite, Goto, NoWrites
<1>3. ASSUME NEW o \in todo[w], BeginFails(w, o) PROVE TypeOK'
    BY <1>3 DEF BeginFails
<1>4. CASE EndBatch(w)
    BY <1>4 DEF EndBatch, Goto
<1>5. ASSUME NEW m \in Monitors, NEW s \in {"up", "degraded", "down"}, PostResult(w, m, s)
      PROVE  TypeOK'
    BY <1>5 DEF PostResult, Goto, Outcome, NoWrites
<1>6. CASE InsertResult(w)
    BY <1>6 DEF InsertResult, Goto
<1>7. CASE ReadMonitor(w)
  <2>0. job[w].monitor \in Monitors
      BY DEF Outcome
  <2>1. monitors[job[w].monitor].th \in [failure : Nat, recovery : Nat]
      BY <2>0, ThresholdsAssumption
  <2>2. ASSUME NEW n \in Nat, NEW k \in Nat
        PROVE  [job[w] EXCEPT !.failure = n, !.recovery = k] \in Outcome
    <3>1. job[w] \in Outcome
        OBVIOUS
    <3> HIDE DEF TypeOK
    <3> QED BY <3>1 DEF Outcome
  <2>3. PICK o \in Outcome : job' = [job EXCEPT ![w] = o]
    <3> DEFINE th == monitors[job[w].monitor].th
    <3>1. th.failure \in Nat /\ th.recovery \in Nat
        BY <2>1
    <3>2. CASE job' = [job EXCEPT ![w] = [job[w] EXCEPT !.failure = th.failure,
                                                        !.recovery = th.recovery]]
        BY <3>1, <3>2, <2>2
    <3>3. CASE job' = job
        BY <3>3
    <3> QED BY <1>7, <3>2, <3>3 DEF ReadMonitor
  <2> QED BY <1>7, <2>3 DEF ReadMonitor, Goto
<1>8. CASE SelectOpenIncident(w)
    BY <1>8 DEF SelectOpenIncident, Goto
<1>9. CASE SelectFailureWindow(w)
  <2>1. Busy(w)
      BY <1>9 DEF SelectFailureWindow, Goto, Busy
  <2>2. Recent(History(w), job[w].failure) \subseteq Row
    <3> HIDE DEF TypeOK
    <3> QED BY <2>1, HistoryType, RecentIsPart
  <2>3. PICK e \in SUBSET Row : tx' = [tx EXCEPT ![w].evidence = e]
      BY <1>9, <2>2 DEF SelectFailureWindow
  <2>4. tx' \in [Writers -> TxType]
      BY <2>3
  <2>5. pc' \in [Writers -> {"idle", "next", "commit"} \cup Writing \cup Evaluating]
      BY <1>9 DEF SelectFailureWindow, Goto
  <2> QED BY <1>9, <2>4, <2>5 DEF SelectFailureWindow
<1>10. CASE SelectRecoveryWindow(w)
    BY <1>10 DEF SelectRecoveryWindow, Goto
<1>11. CASE InsertIncident(w)
    BY <1>11 DEF InsertIncident, Goto
<1>12. CASE FanOutDone(w)
    BY <1>12 DEF FanOutDone, Goto
<1>13. ASSUME NEW c \in Channels, InsertPending(w, c) PROVE TypeOK'
    BY <1>13 DEF InsertPending
<1>14. CASE StartClose(w)
  <2>1. {i.id : i \in OpenIncidents(job[w].monitor)} \subseteq Times
      BY DEF OpenIncidents
  <2> QED BY <1>14, <2>1 DEF StartClose, Goto
<1>15. CASE FinishClose(w)
    BY <1>15 DEF FinishClose, Goto
<1>16. CASE Commit(w)
  <2>1. Busy(w) /\ Leave(w) /\ Publish(w)
      BY <1>16 DEF Commit, Goto, Busy
  <2> QED BY <1>16, <2>1, LeaveType, PublishType, OwnRowType DEF Commit, Goto
<1>17. CASE CommitFails(w)
  <2>1. Busy(w) /\ Leave(w) /\ (Publish(w) \/ UNCHANGED tables)
      BY <1>17 DEF CommitFails, Goto, Busy
  <2> QED BY <1>17, <2>1, LeaveType, PublishType DEF CommitFails, Goto
<1>18. CASE WriteFails(w)
    BY <1>18, LeaveType DEF WriteFails, Goto
<1>19. CASE EvaluationFailsCore(w)
  <2>1. [tx[w] EXCEPT !.aborted = TRUE, !.closing = {}] \in TxType
      OBVIOUS
  <2>2. tx' \in [Writers -> TxType]
      BY <1>19, <2>1 DEF EvaluationFailsCore
  <2> QED BY <1>19, <2>2 DEF EvaluationFailsCore, Goto
<1>20. CASE EvaluationFailsApi(w)
    BY <1>20, LeaveType DEF EvaluationFailsApi, Goto
<1>21. CASE Crash(w)
    BY <1>21, LeaveType DEF Crash
<1> QED
    BY <1>1, <1>2, <1>3, <1>4, <1>5, <1>6, <1>7, <1>8, <1>9, <1>10, <1>11, <1>12,
       <1>13, <1>14, <1>15, <1>16, <1>17, <1>18, <1>19, <1>20, <1>21
    DEF Step

-----------------------------------------------------------------------------
(* What a step keeps about the transactions that are running *)

(* A step of one writer moves no other. *)
LEMMA OthersStand ==
    ASSUME TypeOK, NEW w \in Writers, Step(w), NEW v \in Writers, v # w
    PROVE  pc'[v] = pc[v] /\ todo'[v] = todo[v] /\ job'[v] = job[v] /\ tx'[v] = tx[v]
<1> USE DEF TypeOK, Goto, Leave
<1>1. CASE \/ \E batch \in SUBSET Monitors : ClaimAndProbe(w, batch)
           \/ \E o \in todo[w] : BeginWrite(w, o) \/ BeginFails(w, o)
           \/ EndBatch(w)
           \/ \E m \in Monitors, s \in {"up", "degraded", "down"} : PostResult(w, m, s)
    BY <1>1 DEF ClaimAndProbe, BeginWrite, BeginFails, EndBatch, PostResult
<1>2. CASE \/ InsertResult(w) \/ ReadMonitor(w) \/ SelectOpenIncident(w)
           \/ SelectFailureWindow(w) \/ SelectRecoveryWindow(w)
    BY <1>2 DEF InsertResult, ReadMonitor, SelectOpenIncident, SelectFailureWindow,
                SelectRecoveryWindow
<1>3. CASE \/ InsertIncident(w) \/ FanOutDone(w)
           \/ \E c \in Channels : InsertPending(w, c)
           \/ StartClose(w) \/ FinishClose(w)
    BY <1>3 DEF InsertIncident, FanOutDone, InsertPending, StartClose, FinishClose
<1>4. CASE \/ Commit(w) \/ CommitFails(w) \/ WriteFails(w)
           \/ EvaluationFailsCore(w) \/ EvaluationFailsApi(w) \/ Crash(w)
    BY <1>4 DEF Commit, CommitFails, WriteFails, EvaluationFailsCore,
                EvaluationFailsApi, Crash
<1> QED BY <1>1, <1>2, <1>3, <1>4 DEF Step

(* Results are only ever added. *)
LEMMA ResultsGrow ==
    ASSUME NEW w \in Writers, Step(w)
    PROVE  results \subseteq results'
<1> USE DEF tables, Publish
<1>1. CASE Commit(w) \/ CommitFails(w)
    BY <1>1 DEF Commit, CommitFails
<1>2. CASE ~(Commit(w) \/ CommitFails(w))
    BY <1>2 DEF Step, ClaimAndProbe, BeginWrite, BeginFails, EndBatch, PostResult,
        InsertResult, ReadMonitor, SelectOpenIncident, SelectFailureWindow,
        SelectRecoveryWindow, InsertIncident, FanOutDone, InsertPending, StartClose,
        FinishClose, WriteFails, EvaluationFailsCore, EvaluationFailsApi, Crash
<1> QED BY <1>1, <1>2

LEMMA OthersRun ==
    ASSUME IInv, NEW w \in Writers, Step(w), NEW v \in Writers, v # w
    PROVE  Running(v)'
<1>1. pc'[v] = pc[v] /\ todo'[v] = todo[v] /\ job'[v] = job[v] /\ tx'[v] = tx[v]
    BY OthersStand DEF IInv
<1>2. results \subseteq results'
    BY ResultsGrow
<1> QED BY <1>1, <1>2
        DEF IInv, Running, ThresholdRead, Staging, Evidence, Busy, OwnRow, Evaluates

(* A transaction that has ended has staged nothing. *)
LEMMA EndedRuns ==
    ASSUME IInv, NEW w \in Writers, Leave(w), pc'[w] \in {"idle", "next"},
           todo'[w] \subseteq todo[w]
    PROVE  Running(w)'
<1>1. tx'[w] = NoWrites(0)
    BY DEF IInv, TypeOK, Leave
<1> QED BY <1>1 DEF IInv, Running, ThresholdRead, Staging, Evidence, Busy, NoWrites,
                    Evaluating

LEMMA RunningStep ==
    ASSUME IInv, NEW w \in Writers, Step(w)
    PROVE  Running(w)'
<1> USE DEF IInv, TypeOK, Running, ThresholdRead, Staging, Evidence, Busy, OwnRow, Evaluates,
            Goto, tables, Evaluating, Writing, AfterWrite
<1>1. ASSUME NEW batch \in SUBSET Monitors, ClaimAndProbe(w, batch) PROVE Running(w)'
  <2>1. pc'[w] = "next" /\ UNCHANGED <<tx, job, results>> /\ pc[w] = "idle"
      BY <1>1 DEF ClaimAndProbe
  <2>2. ASSUME NEW o \in todo'[w] PROVE FromThresholds(o.failure)
    <3>1. PICK m \in batch : o.failure = monitors[m].th.failure
        BY <1>1 DEF ClaimAndProbe
    <3>2. monitors[m].th \in Thresholds
        OBVIOUS
    <3> QED BY <3>1, <3>2 DEF FromThresholds
  <2> QED BY <2>1, <2>2
<1>2. ASSUME NEW o \in todo[w], BeginWrite(w, o) PROVE Running(w)'
    BY <1>2 DEF BeginWrite, NoWrites
<1>3. ASSUME NEW o \in todo[w], BeginFails(w, o) PROVE Running(w)'
    BY <1>3 DEF BeginFails
<1>4. CASE EndBatch(w)
    BY <1>4 DEF EndBatch
<1>5. ASSUME NEW m \in Monitors, NEW s \in {"up", "degraded", "down"}, PostResult(w, m, s)
      PROVE  Running(w)'
    BY <1>5, WritersAssumption DEF PostResult, NoWrites
<1>6. CASE InsertResult(w)
    BY <1>6 DEF InsertResult
<1>7. CASE ReadMonitor(w)
  <2> DEFINE th == monitors[job[w].monitor].th
  <2>1. th \in Thresholds
      BY DEF Outcome
  <2>2. CASE job' = [job EXCEPT ![w] = [job[w] EXCEPT !.failure = th.failure,
                                                      !.recovery = th.recovery]]
    <3>1. job[w] \in Outcome
        OBVIOUS
    <3>2. job'[w].failure = th.failure
        BY <2>2, <3>1 DEF Outcome
    <3>3. FromThresholds(job'[w].failure)
        BY <2>1, <3>2 DEF FromThresholds
    <3> QED BY <1>7, <3>3 DEF ReadMonitor
  <2>3. CASE job' = job /\ pc'[w] = "commit"
    <3>1. pc[w] = "readMonitor" /\ UNCHANGED <<results, tx, todo>>
        BY <1>7 DEF ReadMonitor
    <3> QED BY <2>3, <3>1
  <2> QED BY <1>7, <2>2, <2>3 DEF ReadMonitor
<1>8. CASE SelectOpenIncident(w)
    BY <1>8 DEF SelectOpenIncident
<1>9. CASE SelectFailureWindow(w)
  <2> DEFINE crossed == Streak(History(w), job[w].failure, "down")
             e == IF crossed THEN Recent(History(w), job[w].failure) ELSE {}
  <2>1. /\ pc[w] = "failureWindow" /\ UNCHANGED <<job, todo, results>>
        /\ pc'[w] = IF crossed THEN "insertIncident" ELSE "commit"
        /\ tx' = [tx EXCEPT ![w].evidence = e]
      BY <1>9 DEF SelectFailureWindow
  <2>2. tx'[w] = [tx[w] EXCEPT !.evidence = e] /\ tx[w] \in TxType
      BY <2>1 DEF TxType
  <2>3. /\ tx'[w].evidence = e /\ tx'[w].snapshot = {} /\ tx'[w].notes = {}
        /\ tx'[w].aborted = tx[w].aborted /\ tx'[w].at = tx[w].at
      BY <2>1, <2>2 DEF TxType
  <2>4. FromThresholds(job[w].failure) /\ job[w].failure \in Nat \ {0}
      BY <2>1, ThresholdsAssumption DEF FromThresholds
  <2>5. ASSUME crossed
        PROVE  /\ e # {} /\ Cardinality(e) = job[w].failure
               /\ \A r \in e : /\ r.monitor = job[w].monitor
                               /\ r.status = "down"
                               /\ r \in results \cup {OwnRow(w)}
    <3>1. e = Recent(History(w), job[w].failure) /\ Cardinality(e) = job[w].failure
        BY <2>5 DEF Streak
    <3>2. e # {}
        BY <2>4, <2>5, <3>1, StreakNotEmpty
    <3>3. \A r \in e : r.status = "down"
        BY <2>5, <3>1 DEF Streak
    <3>4. e \subseteq History(w)
        BY <3>1, RecentIsPart
    <3>5. \A r \in e : r.monitor = job[w].monitor /\ r \in results \cup {OwnRow(w)}
        BY <3>4 DEF History
    <3> QED BY <2>4, <3>1, <3>2, <3>3, <3>5
  <2>6. ThresholdRead(w)'
      BY <2>1, <2>4
  <2>7. Staging(w)'
    <3> HIDE DEF e, crossed
    <3>1. crossed => e # {}
        BY <2>5
    <3>2. ~crossed => e = {}
        BY DEF e
    <3> QED BY <2>1, <2>3, <3>1, <3>2
  <2>8. Evidence(w)'
    <3>1. CASE crossed
        BY <2>1, <2>3, <2>5, <3>1
    <3>2. CASE ~crossed
        BY <2>3, <3>2
    <3> QED BY <3>1, <3>2
  <2> QED BY <2>6, <2>7, <2>8
<1>10. CASE SelectRecoveryWindow(w)
    BY <1>10 DEF SelectRecoveryWindow
<1>11. CASE InsertIncident(w)
    BY <1>11 DEF InsertIncident
<1>12. CASE FanOutDone(w)
    BY <1>12 DEF FanOutDone
<1>13. ASSUME NEW c \in Channels, InsertPending(w, c) PROVE Running(w)'
    BY <1>13 DEF InsertPending
<1>14. CASE StartClose(w)
    BY <1>14 DEF StartClose
<1>15. CASE FinishClose(w)
  <2>1. PICK closed : tx' = [tx EXCEPT ![w].closing = closed]
      BY <1>15 DEF FinishClose
  <2>2. /\ pc[w] = "closeLocked" /\ pc' = [pc EXCEPT ![w] = "commit"]
        /\ UNCHANGED <<job, todo, results>>
      BY <1>15 DEF FinishClose
  <2>3. tx'[w] = [tx[w] EXCEPT !.closing = closed] /\ tx[w] \in TxType
      BY <2>1 DEF TxType
  <2>4. /\ tx'[w].evidence = tx[w].evidence /\ tx'[w].snapshot = tx[w].snapshot
        /\ tx'[w].notes = tx[w].notes /\ tx'[w].aborted = tx[w].aborted
        /\ tx'[w].at = tx[w].at
      BY <2>3 DEF TxType
  <2> QED BY <2>2, <2>4
<1>19. CASE EvaluationFailsCore(w)
    BY <1>19 DEF EvaluationFailsCore
<1>16. CASE Commit(w) \/ CommitFails(w) \/ WriteFails(w) \/ EvaluationFailsApi(w) \/ Crash(w)
  <2>1. Leave(w) /\ pc'[w] \in {"idle", "next"} /\ todo'[w] \subseteq todo[w]
      BY <1>16 DEF Commit, CommitFails, WriteFails, EvaluationFailsApi, Crash
  <2> QED BY <2>1, EndedRuns
<1> QED
    BY <1>1, <1>2, <1>3, <1>4, <1>5, <1>6, <1>7, <1>8, <1>9, <1>10, <1>11, <1>12,
       <1>13, <1>14, <1>15, <1>16, <1>19
    DEF Step


(* A writer that is inside a transaction after a step of another was inside  *)
(* it before, and so was the writer itself unless it has just begun.         *)
LEMMA TicketsStep ==
    ASSUME IInv, NEW w \in Writers, Step(w)
    PROVE  Tickets'
<1> USE DEF IInv, TypeOK, Busy, Goto, tables, AfterWrite
<1>1. \A v \in Writers : v # w => (Busy(v)' <=> Busy(v)) /\ tx'[v].at = tx[v].at
    BY OthersStand
<1>0. /\ clock \in Nat
      /\ \A v \in Writers : tx[v].at \in Nat
      /\ \A i \in incidents : i.id \in Nat
      /\ Tickets
    BY MaxWritesAssumption DEF Times
<1> HIDE DEF IInv, TypeOK, Busy
<1>2. CASE clock' = clock + 1 /\ tx'[w].at = clock + 1 /\ Busy(w)' /\ incidents' = incidents
    BY <1>0, <1>1, <1>2 DEF Tickets
<1>3. CASE /\ clock' = clock /\ incidents' = incidents
           /\ Busy(w)' => Busy(w) /\ tx'[w].at = tx[w].at
    BY <1>0, <1>1, <1>3 DEF Tickets
<1>4. CASE /\ clock' = clock /\ ~Busy(w)' /\ Busy(w)
           /\ \A i \in incidents' : (\E j \in incidents : i.id = j.id) \/ i.id = tx[w].at
    BY <1>0, <1>1, <1>4 DEF Tickets
<1> USE DEF IInv, TypeOK, Busy
<1>5. CASE \/ \E o \in todo[w] : BeginWrite(w, o)
           \/ \E m \in Monitors, s \in {"up", "degraded", "down"} : PostResult(w, m, s)
    BY <1>5, <1>2 DEF BeginWrite, PostResult, NoWrites
<1>6. CASE \/ \E batch \in SUBSET Monitors : ClaimAndProbe(w, batch)
           \/ \E o \in todo[w] : BeginFails(w, o)
           \/ EndBatch(w) \/ WriteFails(w) \/ EvaluationFailsApi(w) \/ Crash(w)
    BY <1>6, <1>3 DEF ClaimAndProbe, BeginFails, EndBatch, WriteFails,
                      EvaluationFailsApi, Crash
<1>7. CASE \/ InsertResult(w) \/ ReadMonitor(w) \/ SelectOpenIncident(w)
           \/ SelectRecoveryWindow(w) \/ FanOutDone(w)
    BY <1>7, <1>3 DEF InsertResult, ReadMonitor, SelectOpenIncident,
                      SelectRecoveryWindow, FanOutDone
<1>8. CASE SelectFailureWindow(w)
    BY <1>8, <1>3 DEF SelectFailureWindow
<1>9. CASE \/ InsertIncident(w) \/ \E c \in Channels : InsertPending(w, c)
           \/ StartClose(w)
    BY <1>9, <1>3 DEF InsertIncident, InsertPending, StartClose
<1>11. CASE FinishClose(w)
  <2>1. PICK closed : tx' = [tx EXCEPT ![w].closing = closed]
      BY <1>11 DEF FinishClose
  <2>2. /\ pc[w] = "closeLocked" /\ pc' = [pc EXCEPT ![w] = "commit"]
        /\ clock' = clock /\ incidents' = incidents
      BY <1>11 DEF FinishClose
  <2> QED BY <2>1, <2>2, <1>3
<1>12. CASE EvaluationFailsCore(w)
  <2>1. pc[w] \in Evaluating /\ clock' = clock /\ incidents' = incidents
        /\ tx' = [tx EXCEPT ![w] = [tx[w] EXCEPT !.aborted = TRUE, !.closing = {}]]
      BY <1>12 DEF EvaluationFailsCore
  <2> QED BY <2>1, <1>3 DEF Evaluating
<1>10. CASE Commit(w) \/ CommitFails(w)
  <2>1. /\ clock' = clock /\ Busy(w) /\ ~Busy(w)'
        /\ Publish(w) \/ incidents' = incidents
      BY <1>10 DEF Commit, CommitFails
  <2>2. ASSUME NEW i \in incidents'
        PROVE  (\E j \in incidents : i.id = j.id) \/ i.id = tx[w].at
      BY <2>1, UpdatedIs, NewIncidentIs DEF Publish
  <2> QED BY <2>1, <2>2, <1>4
<1> QED BY <1>5, <1>6, <1>7, <1>8, <1>9, <1>10, <1>11, <1>12 DEF Step

-----------------------------------------------------------------------------
(* The tables *)

Judged == FanOutComplete /\ OpenedOnEvidence /\ AcknowledgedIsDurable

LEMMA JudgedKept ==
    ASSUME Judged, UNCHANGED <<tables, reported>>
    PROVE  Judged'
BY DEF Judged, FanOutComplete, OpenedOnEvidence, AcknowledgedIsDurable, tables

(* Only a COMMIT changes a table or reports. *)
LEMMA OnlyCommits ==
    ASSUME NEW w \in Writers, Step(w), ~Commit(w), ~CommitFails(w)
    PROVE  UNCHANGED <<tables, reported>>
BY DEF Step, ClaimAndProbe, BeginWrite, BeginFails, EndBatch, PostResult, InsertResult,
       ReadMonitor, SelectOpenIncident, SelectFailureWindow, SelectRecoveryWindow,
       InsertIncident, FanOutDone, InsertPending, StartClose, FinishClose, WriteFails,
       EvaluationFailsCore, EvaluationFailsApi, Crash

(* What COMMIT publishes keeps fan-out complete and incidents justified. *)
LEMMA PublishJudged ==
    ASSUME IInv, NEW w \in Writers, pc[w] = "commit", Publish(w)
    PROVE  FanOutComplete' /\ OpenedOnEvidence'
<1>1. CASE tx[w].aborted
    BY <1>1 DEF Publish, tables, IInv, FanOutComplete, OpenedOnEvidence
<1>2. CASE ~tx[w].aborted
  <2> DEFINE new == NewIncident(w)
  <2>1. /\ results' = results \cup {OwnRow(w)}
        /\ pending' = pending \cup {[incident |-> tx[w].at, channel |-> c] : c \in tx[w].notes}
        /\ Opened(w) => new \in incidents'
      BY <1>2 DEF Publish
  <2>2. ASSUME NEW i \in incidents'
        PROVE  \/ i = new /\ Opened(w)
               \/ \E j \in incidents : /\ i.id = j.id /\ i.monitor = j.monitor
                                       /\ i.failure = j.failure /\ i.evidence = j.evidence
                                       /\ i.told = j.told
      BY <1>2, UpdatedIs DEF Publish, IInv
  <2>3. ASSUME NEW j \in incidents
        PROVE  \E i \in incidents' : i.id = j.id
    <3>1. Updated(w, j) \in incidents'
        BY <1>2 DEF Publish
    <3>2. Updated(w, j).id = j.id
        BY UpdatedIs DEF IInv
    <3> QED BY <3>1, <3>2
  <2>4. /\ tx[w].notes = tx[w].snapshot
        /\ ~Opened(w) => tx[w].notes = {}
      BY <1>2 DEF IInv, Running, Staging, Opened
  <2>5. \A i \in incidents : i.id # tx[w].at
      BY DEF IInv, Tickets, Busy
  <2>6. \A n \in pending : n.incident # tx[w].at
      BY <2>5 DEF IInv, FanOutComplete
  <2>7. ASSUME NEW i \in incidents'
        PROVE  {n.channel : n \in {x \in pending' : x.incident = i.id}} = i.told
    <3>1. CASE i = new /\ Opened(w)
      <4> DEFINE mine == {[incident |-> tx[w].at, channel |-> c] : c \in tx[w].notes}
      <4>1. i.id = tx[w].at /\ i.told = tx[w].notes
          BY <2>4, <3>1, NewIncidentIs
      <4>2. {x \in pending' : x.incident = i.id} = mine
          BY <2>1, <2>6, <4>1
      <4>3. {n.channel : n \in mine} = tx[w].notes
        <5>1. \A n \in mine : n.channel \in tx[w].notes
            OBVIOUS
        <5>2. ASSUME NEW c \in tx[w].notes PROVE \E n \in mine : n.channel = c
          <6>1. [incident |-> tx[w].at, channel |-> c] \in mine
              OBVIOUS
          <6> QED BY <6>1
        <5> HIDE DEF mine
        <5> QED BY <5>1, <5>2
      <4> QED BY <4>1, <4>2, <4>3
    <3>2. ASSUME NEW j \in incidents, i.id = j.id, i.told = j.told
          PROVE  {n.channel : n \in {x \in pending' : x.incident = i.id}} = i.told
      <4>1. {x \in pending' : x.incident = i.id} = {x \in pending : x.incident = j.id}
          BY <2>1, <2>5, <3>2
      <4> QED BY <3>2, <4>1 DEF IInv, FanOutComplete
    <3> QED BY <2>2, <3>1, <3>2
  <2>8. ASSUME NEW n \in pending' PROVE \E i \in incidents' : i.id = n.incident
    <3>1. CASE n \in pending
        BY <2>3, <3>1 DEF IInv, FanOutComplete
    <3>2. CASE n \notin pending
        BY <2>1, <2>4, <3>2, NewIncidentIs
    <3> QED BY <3>1, <3>2
  <2>9. ASSUME NEW i \in incidents'
        PROVE  /\ i.evidence \subseteq {r \in results' : r.monitor = i.monitor /\ r.status = "down"}
               /\ Cardinality(i.evidence) = i.failure
               /\ \E th \in Thresholds : i.failure = th.failure
    <3>1. CASE i = new /\ Opened(w)
        BY <2>1, <3>1, NewIncidentIs DEF IInv, Running, Evidence, Opened, FromThresholds
    <3>2. ASSUME NEW j \in incidents, i.monitor = j.monitor,
                 i.failure = j.failure, i.evidence = j.evidence
          PROVE  /\ i.evidence \subseteq {r \in results' : r.monitor = i.monitor /\ r.status = "down"}
                 /\ Cardinality(i.evidence) = i.failure
                 /\ \E th \in Thresholds : i.failure = th.failure
        BY <2>1, <3>2 DEF IInv, OpenedOnEvidence
    <3> QED BY <2>2, <3>1, <3>2
  <2> QED BY <2>7, <2>8, <2>9 DEF FanOutComplete, OpenedOnEvidence
<1> QED BY <1>1, <1>2

LEMMA JudgedStep ==
    ASSUME IInv, NEW w \in Writers, Step(w)
    PROVE  Judged'
<1>1. Judged
    BY DEF IInv, Judged
<1>2. CASE Commit(w)
  <2>1. pc[w] = "commit" /\ Publish(w)
        /\ reported' = reported \cup {[writer |-> w, at |-> tx[w].at]}
      BY <1>2 DEF Commit, Goto
  <2>2. results \subseteq results'
      BY ResultsGrow
  <2>3. w \in ApiWriters => OwnRow(w) \in results'
      BY <2>1, WritersAssumption DEF IInv, Running, Staging, Publish
  <2>4. OwnRow(w).at = tx[w].at
      BY DEF OwnRow, Evaluates
  <2>5. AcknowledgedIsDurable'
      BY <2>1, <2>2, <2>3, <2>4, <1>1 DEF AcknowledgedIsDurable, Judged
  <2> QED BY <2>1, <2>5, PublishJudged DEF Judged
<1>3. CASE CommitFails(w)
  <2>1. pc[w] = "commit" /\ (Publish(w) \/ UNCHANGED tables) /\ UNCHANGED reported
      BY <1>3 DEF CommitFails, Goto
  <2>2. CASE Publish(w)
    <3>1. AcknowledgedIsDurable'
        BY <2>1, <1>1, ResultsGrow DEF AcknowledgedIsDurable, Judged
    <3> QED BY <2>1, <2>2, <3>1, PublishJudged DEF Judged
  <2>3. CASE UNCHANGED tables
      BY <2>1, <2>3, <1>1, JudgedKept
  <2> QED BY <2>1, <2>2, <2>3
<1>4. CASE ~Commit(w) /\ ~CommitFails(w)
    BY <1>1, <1>4, OnlyCommits, JudgedKept
<1> QED BY <1>2, <1>3, <1>4

-----------------------------------------------------------------------------
(* Patches and channel changes touch neither the tables nor a transaction. *)
LEMMA AdministerStep ==
    ASSUME IInv, Administer \/ UNCHANGED vars
    PROVE  IInv'
<1>1. UNCHANGED <<tables, clock, pc, todo, job, tx, reported>>
  <2>1. CASE UNCHANGED vars
      BY <2>1 DEF vars, tables
  <2>2. CASE Administer
      BY <2>2 DEF Administer, PatchMonitor, ArchiveMonitor, CreateChannel, DeleteChannel
  <2> QED BY <2>1, <2>2
<1>2. monitors' \in [Monitors -> [status : Statuses, th : Thresholds]] /\ channels' \subseteq Channels
  <2> USE DEF IInv, TypeOK
  <2>1. ASSUME NEW m \in Monitors, NEW s \in Statuses, NEW th \in Thresholds,
               PatchMonitor(m, s, th)
        PROVE  monitors' \in [Monitors -> [status : Statuses, th : Thresholds]] /\ channels' = channels
      BY <2>1 DEF PatchMonitor
  <2>2. ASSUME NEW m \in Monitors, ArchiveMonitor(m)
        PROVE  monitors' \in [Monitors -> [status : Statuses, th : Thresholds]] /\ channels' = channels
      BY <2>2 DEF ArchiveMonitor
  <2>3. ASSUME NEW c \in Channels, CreateChannel(c) \/ DeleteChannel(c)
        PROVE  monitors' = monitors /\ channels' \subseteq Channels
      BY <2>3 DEF CreateChannel, DeleteChannel
  <2> QED BY <2>1, <2>2, <2>3 DEF Administer, vars
<1>3. TypeOK' /\ Tickets'
    BY <1>1, <1>2 DEF IInv, TypeOK, Tickets, Busy, tables
<1>4. \A w \in Writers : Running(w)'
    BY <1>1 DEF IInv, Running, ThresholdRead, Staging, Evidence, Busy, OwnRow, Evaluates, tables
<1>5. Judged'
    BY <1>1, JudgedKept DEF IInv, Judged
<1> QED BY <1>3, <1>4, <1>5 DEF IInv, Judged

LEMMA NextIInv == IInv /\ [Next]_vars => IInv'
<1> SUFFICES ASSUME IInv, [Next]_vars PROVE IInv'
    OBVIOUS
<1>1. ASSUME NEW w \in Writers, Step(w) PROVE IInv'
  <2>1. TypeOK'
      BY <1>1, TypeStep DEF IInv
  <2>2. Tickets'
      BY <1>1, TicketsStep
  <2>3. \A v \in Writers : Running(v)'
      BY <1>1, RunningStep, OthersRun
  <2>4. Judged'
      BY <1>1, JudgedStep
  <2> QED BY <2>1, <2>2, <2>3, <2>4 DEF IInv, Judged
<1>2. CASE Administer \/ UNCHANGED vars
    BY <1>2, AdministerStep
<1> QED BY <1>1, <1>2 DEF Next

LEMMA AlwaysIInv == Spec => []IInv
BY InitIInv, NextIInv, PTL DEF Spec

(* Every variable keeps its type, for any instance. *)
THEOREM TypeCorrect == Spec => []TypeOK
BY AlwaysIInv, PTL DEF IInv

(* An incident has exactly the pending notifications of the channels its     *)
(* transaction read, whatever fails or crashes between the inserts.          *)
THEOREM FanOutIsAllOrNothing == Spec => []FanOutComplete
BY AlwaysIInv, PTL DEF IInv

(* An incident in the table rests on a full window of downs in the table.    *)
THEOREM IncidentsRestOnEvidence == Spec => []OpenedOnEvidence
BY AlwaysIInv, PTL DEF IInv

(* A 201 from create_check_result means its row is in the table.             *)
THEOREM AcknowledgementsAreDurable == Spec => []AcknowledgedIsDurable
BY AlwaysIInv, PTL DEF IInv

-----------------------------------------------------------------------------
(* What a writer saw of its own incidents when it looked for an open one still *)
(* holds when it commits: the others open and close only theirs.               *)

(* w has found no open incident, and may be about to open one. *)
SawNoneOpen(w) ==
    \/ pc[w] \in {"failureWindow", "insertIncident", "insertPending"}
    \/ pc[w] = "commit" /\ Opened(w)

NoneOpenBy(w) == \A i \in OpenIncidents(job[w].monitor) : i.by # w

Apart ==
    /\ IInv
    /\ OneOpenPerWriter
    /\ \A w \in Writers : SawNoneOpen(w) => NoneOpenBy(w)

(* A step that leaves the incidents alone and looks at them when it starts to *)
(* rely on there being none open.                                            *)
LEMMA ApartKept ==
    ASSUME Apart, IInv', NEW w \in Writers, Step(w), incidents' = incidents,
           \/ ~SawNoneOpen(w)'
           \/ SawNoneOpen(w) /\ job' = job
           \/ OpenIncidents(job[w].monitor) = {} /\ job' = job
    PROVE  Apart'
<1>1. OneOpenPerWriter'
    BY DEF Apart, OneOpenPerWriter
<1>2. SawNoneOpen(w)' => NoneOpenBy(w)'
    BY DEF Apart, NoneOpenBy, OpenIncidents
<1>3. ASSUME NEW v \in Writers \ {w}, SawNoneOpen(v)'
      PROVE  NoneOpenBy(v)'
  <2>1. pc'[v] = pc[v] /\ job'[v] = job[v] /\ tx'[v] = tx[v]
      BY OthersStand DEF Apart, IInv
  <2>2. NoneOpenBy(v)
      BY <1>3, <2>1 DEF Apart, SawNoneOpen, Opened
  <2> QED BY <2>1, <2>2 DEF NoneOpenBy, OpenIncidents
<1> QED BY <1>1, <1>2, <1>3 DEF Apart

LEMMA ApartStep ==
    ASSUME Apart, NEW w \in Writers, Step(w)
    PROVE  Apart'
<1>0. IInv /\ IInv'
    BY NextIInv DEF Apart, Next
<1> USE DEF SawNoneOpen, Goto, Opened, tables
<1>1. CASE \/ \E batch \in SUBSET Monitors : ClaimAndProbe(w, batch)
           \/ \E o \in todo[w] : BeginWrite(w, o) \/ BeginFails(w, o)
           \/ EndBatch(w)
           \/ \E m \in Monitors, s \in {"up", "degraded", "down"} : PostResult(w, m, s)
           \/ InsertResult(w) \/ WriteFails(w) \/ EvaluationFailsApi(w) \/ Crash(w)
  <2>1. incidents' = incidents
      BY <1>1 DEF ClaimAndProbe, BeginWrite, BeginFails, EndBatch, PostResult, InsertResult,
          WriteFails, EvaluationFailsApi, Crash
  <2>2. ~SawNoneOpen(w)'
      BY <1>0, <1>1 DEF IInv, TypeOK, ClaimAndProbe, BeginWrite, BeginFails, EndBatch,
          PostResult, InsertResult, WriteFails, EvaluationFailsApi, Crash, AfterWrite
  <2> QED BY <1>0, <2>1, <2>2, ApartKept
<1>2. CASE ReadMonitor(w) \/ SelectRecoveryWindow(w) \/ StartClose(w) \/ FinishClose(w)
  <2>1. incidents' = incidents
      BY <1>2 DEF ReadMonitor, SelectRecoveryWindow, StartClose, FinishClose
  <2>2. tx[w].evidence = {}
      BY <1>0, <1>2 DEF IInv, Running, Staging, ReadMonitor, SelectRecoveryWindow,
          StartClose, FinishClose
  <2>3. tx'[w].evidence = {}
    <3>1. CASE ReadMonitor(w) \/ SelectRecoveryWindow(w)
        BY <2>2, <3>1 DEF ReadMonitor, SelectRecoveryWindow
    <3>2. CASE StartClose(w) \/ FinishClose(w)
      <4>1. PICK closed : tx' = [tx EXCEPT ![w].closing = closed]
          BY <3>2 DEF StartClose, FinishClose
      <4>2. tx'[w] = [tx[w] EXCEPT !.closing = closed] /\ tx[w] \in TxType
          BY <1>0, <4>1 DEF IInv, TypeOK, TxType
      <4> QED BY <2>2, <4>2 DEF TxType
    <3> QED BY <1>2, <3>1, <3>2
  <2>4. ~SawNoneOpen(w)'
      BY <1>0, <1>2, <2>3 DEF IInv, TypeOK, ReadMonitor, SelectRecoveryWindow, StartClose,
          FinishClose
  <2> QED BY <1>0, <2>1, <2>4, ApartKept
<1>3. CASE SelectOpenIncident(w)
  <2>1. incidents' = incidents /\ job' = job
      BY <1>3 DEF SelectOpenIncident
  <2>2. ~SawNoneOpen(w)' \/ OpenIncidents(job[w].monitor) = {}
      BY <1>0, <1>3 DEF IInv, TypeOK, SelectOpenIncident
  <2> QED BY <1>0, <2>1, <2>2, ApartKept
<1>4. CASE \/ SelectFailureWindow(w) \/ InsertIncident(w) \/ FanOutDone(w)
           \/ \E c \in Channels : InsertPending(w, c)
  <2>1. incidents' = incidents /\ job' = job
      BY <1>4 DEF SelectFailureWindow, InsertIncident, FanOutDone, InsertPending
  <2>2. SawNoneOpen(w)
      BY <1>4 DEF SelectFailureWindow, InsertIncident, FanOutDone, InsertPending
  <2> QED BY <1>0, <2>1, <2>2, ApartKept
<1>5. CASE EvaluationFailsCore(w)
  <2>1. /\ incidents' = incidents /\ job' = job /\ pc[w] \in Evaluating
        /\ tx' = [tx EXCEPT ![w] = [tx[w] EXCEPT !.aborted = TRUE, !.closing = {}]]
      BY <1>5 DEF EvaluationFailsCore
  <2>2. tx[w] \in TxType
      BY <1>0 DEF IInv, TypeOK, TxType
  <2>3. tx'[w].evidence = tx[w].evidence
      BY <1>0, <2>1, <2>2 DEF IInv, TypeOK, TxType
  <2>4. pc'[w] = "commit"
      BY <1>0, <1>5 DEF IInv, TypeOK, EvaluationFailsCore
  <2>5. tx[w].evidence # {} => SawNoneOpen(w)
      BY <1>0, <2>1 DEF IInv, Running, Staging, Evaluating
  <2> QED BY <1>0, <2>1, <2>3, <2>4, <2>5, ApartKept
<1>6. CASE Commit(w) \/ CommitFails(w)
  <2>1. /\ pc[w] = "commit"
        /\ Publish(w) \/ UNCHANGED tables
        /\ ~SawNoneOpen(w)'
      BY <1>0, <1>6 DEF IInv, TypeOK, Commit, CommitFails, AfterWrite
  <2>2. CASE incidents' = incidents
      BY <1>0, <2>1, <2>2, ApartKept
  <2>3. CASE Publish(w) /\ ~tx[w].aborted
    <3> DEFINE new == NewIncident(w)
    <3>0. tx[w].at \in Times
        BY <1>0, <2>1, OwnRowType DEF IInv, Busy
    <3>1. ASSUME NEW i \in incidents'
          PROVE  \/ i = new /\ Opened(w)
                 \/ \E j \in incidents : /\ i.monitor = j.monitor /\ i.by = j.by
                                         /\ IsOpen(i) => i = j
      <4>1. ASSUME NEW j \in incidents, i = Updated(w, j)
            PROVE  i.monitor = j.monitor /\ i.by = j.by /\ (IsOpen(i) => i = j)
          BY <1>0, <3>0, <4>1, UpdatedIs DEF IInv
      <4>2. (i = new /\ Opened(w)) \/ \E j \in incidents : i = Updated(w, j)
          BY <2>3 DEF Publish
      <4> HIDE DEF new
      <4> QED BY <4>1, <4>2
    <3>n. IsOpen(new) /\ new.by = w /\ new.monitor = job[w].monitor
        BY NewIncidentIs
    <3> HIDE DEF new
    <3>2. Opened(w) => NoneOpenBy(w)
        BY <2>1 DEF Apart
    <3>3. ASSUME NEW j \in incidents, IsOpen(j), j.monitor = new.monitor, j.by = w, Opened(w)
          PROVE  FALSE
        BY <3>2, <3>3, <3>n DEF NoneOpenBy, OpenIncidents
    <3>4. OneOpenPerWriter'
      <4> SUFFICES ASSUME NEW i \in incidents', NEW k \in incidents',
                          IsOpen(i), IsOpen(k), i.monitor = k.monitor, i.by = k.by
                   PROVE  i = k
          BY DEF OneOpenPerWriter
      <4>1. CASE i \in incidents /\ k \in incidents
          BY <4>1 DEF Apart, OneOpenPerWriter
      <4>3. CASE i = new /\ Opened(w)
          BY <3>1, <3>3, <3>n, <4>3
      <4>4. CASE k = new /\ Opened(w)
          BY <3>1, <3>3, <3>n, <4>4
      <4> QED BY <3>1, <4>1, <4>3, <4>4
    <3>5. ASSUME NEW v \in Writers \ {w}, SawNoneOpen(v)'
          PROVE  NoneOpenBy(v)'
      <4>1. pc'[v] = pc[v] /\ job'[v] = job[v] /\ tx'[v] = tx[v]
          BY OthersStand DEF Apart, IInv
      <4>2. NoneOpenBy(v)
          BY <3>5, <4>1 DEF Apart, SawNoneOpen, Opened
      <4> QED BY <3>1, <3>n, <4>1, <4>2 DEF NoneOpenBy, OpenIncidents
    <3> QED BY <1>0, <2>1, <3>4, <3>5 DEF Apart
  <2> QED BY <2>1, <2>2, <2>3 DEF Publish
<1> QED BY <1>1, <1>2, <1>3, <1>4, <1>5, <1>6 DEF Step

LEMMA ApartNext == Apart /\ [Next]_vars => Apart'
<1> SUFFICES ASSUME Apart, [Next]_vars PROVE Apart'
    OBVIOUS
<1>1. ASSUME NEW w \in Writers, Step(w) PROVE Apart'
    BY <1>1, ApartStep
<1>2. CASE Administer \/ UNCHANGED vars
  <2>1. UNCHANGED <<incidents, pc, job, tx>>
    <3>1. CASE UNCHANGED vars
        BY <3>1 DEF vars
    <3>2. CASE Administer
        BY <3>2 DEF Administer, PatchMonitor, ArchiveMonitor, CreateChannel,
                    DeleteChannel, tables
    <3> QED BY <1>2, <3>1, <3>2
  <2>2. IInv'
      BY <1>2, AdministerStep DEF Apart
  <2> QED BY <2>1, <2>2 DEF Apart, SawNoneOpen, Opened, NoneOpenBy, OneOpenPerWriter, OpenIncidents
<1> QED BY <1>1, <1>2 DEF Next

LEMMA AlwaysApart == Spec => []Apart
<1>1. Init => Apart
    BY InitIInv DEF Init, Apart, OneOpenPerWriter, NoneOpenBy, OpenIncidents
<1> QED BY <1>1, ApartNext, PTL DEF Spec

(* However many writers race, a monitor has one open incident of each at     *)
(* most: a process's own look-up protects it from itself.                    *)
THEOREM OneOpenOfEachWriter == Spec => []OneOpenPerWriter
BY AlwaysApart, PTL DEF Apart

(* With one writer, a single signalnode-core process and no result posted    *)
(* through the API, a monitor never has two open incidents.                  *)
OneWriter == \A v, w \in Writers : v = w

THEOREM OneOpenWithOneWriter ==
    ASSUME OneWriter
    PROVE  Spec => []AtMostOneOpen
<1>1. Apart => AtMostOneOpen
    BY DEF Apart, IInv, TypeOK, OneWriter, OneOpenPerWriter, AtMostOneOpen
<1> QED BY <1>1, AlwaysApart, PTL

-----------------------------------------------------------------------------
(* Recovery: the mirror of Evidence.  Here the window is not kept with the   *)
(* transaction, so that what is invariant is that one exists.                *)

FromRecoveries(n) == \E th \in Thresholds : n = th.recovery

RecoveryRead(w) ==
    /\ \A o \in todo[w] : FromRecoveries(o.recovery)
    /\ w \in CoreWriters /\ Busy(w) => FromRecoveries(job[w].recovery)
    /\ pc[w] \in Evaluating => FromRecoveries(job[w].recovery)

(* The rows w's commit will leave hold a full window of ups. *)
Recovered(w) ==
    \E ups \in SUBSET {r \in results \cup {OwnRow(w)} :
                         r.monitor = job[w].monitor /\ r.status = "up"} :
        FromRecoveries(Cardinality(ups))

(* What w is about to close is its own monitor's, and has recovered. *)
Closing(w) ==
    /\ pc[w] \notin {"closeLocked", "commit"} => tx[w].closing = {}
    /\ \A id \in tx[w].closing : \E i \in incidents : i.id = id /\ i.monitor = job[w].monitor
    /\ pc[w] \in {"close", "closeLocked"} \/ tx[w].closing # {} => Recovered(w) /\ Evaluates(w)

IdsApart == \A i, j \in incidents : i.id = j.id => i = j

(* A row that a transaction has updated and not committed is locked: it is  *)
(* as the transaction found it, open, and no other has updated it.          *)
Locking(w) ==
    \A id \in HoldsClosed(w) :
        /\ \A i \in incidents : i.id = id => IsOpen(i)
        /\ \A v \in Writers \ {w} : id \notin HoldsClosed(v)

Recovering ==
    /\ IdsApart
    /\ \A w \in Writers : RecoveryRead(w) /\ Closing(w) /\ Locking(w)

(* What a COMMIT makes of the incidents: those of other ids than it closes  *)
(* stay, it adds at most one, of its own id.                                *)
LEMMA IncidentsStay ==
    ASSUME IInv, Recovering, NEW w \in Writers, Publish(w), Busy(w)
    PROVE  /\ IdsApart'
           /\ \A j \in incidents : \E i \in incidents' : i.id = j.id /\ i.monitor = j.monitor
           /\ \A i \in incidents' : \/ i.id = tx[w].at /\ IsOpen(i)
                                    \/ i \in incidents
                                    \/ i.id \in tx[w].closing
<1>1. CASE tx[w].aborted
    BY <1>1 DEF Publish, tables, Recovering, IdsApart
<1>2. CASE ~tx[w].aborted
  <2> DEFINE closed(j) == Updated(w, j)
             new == NewIncident(w)
  <2>1. \A j \in incidents : /\ closed(j).id = j.id /\ closed(j).monitor = j.monitor
                             /\ j.id \notin tx[w].closing => closed(j) = j
      BY UpdatedIs DEF IInv
  <2>2. new.id = tx[w].at /\ IsOpen(new)
      BY NewIncidentIs
  <2>3. /\ \A j \in incidents : closed(j) \in incidents'
        /\ \A i \in incidents' : i = new \/ \E j \in incidents : i = closed(j)
      BY <1>2 DEF Publish
  <2>4. \A j \in incidents : j.id # tx[w].at
      BY DEF IInv, Tickets
  <2> HIDE DEF closed, new
  <2>5. IdsApart'
    <3> SUFFICES ASSUME NEW i \in incidents', NEW k \in incidents', i.id = k.id
                 PROVE  i = k
        BY DEF IdsApart
    <3>1. CASE i = new \/ k = new
        BY <2>1, <2>2, <2>3, <2>4, <3>1
    <3>2. ASSUME NEW j \in incidents, i = closed(j), NEW l \in incidents, k = closed(l)
          PROVE  i = k
        BY <2>1, <3>2 DEF Recovering, IdsApart
    <3> QED BY <2>3, <3>1, <3>2
  <2>6. \A j \in incidents : \E i \in incidents' : i.id = j.id /\ i.monitor = j.monitor
      BY <2>1, <2>3
  <2>7. ASSUME NEW i \in incidents'
        PROVE  (i.id = tx[w].at /\ IsOpen(i)) \/ i \in incidents \/ i.id \in tx[w].closing
      BY <2>1, <2>2, <2>3
  <2> QED BY <2>5, <2>6, <2>7
<1> QED BY <1>1, <1>2

LEMMA StepPublishes ==
    ASSUME NEW w \in Writers, Step(w)
    PROVE  \/ UNCHANGED incidents
           \/ pc[w] = "commit" /\ Busy(w) /\ Publish(w)
<1>1. CASE Commit(w) \/ CommitFails(w)
    BY <1>1 DEF Commit, CommitFails, Goto, Busy, tables
<1>2. CASE ~Commit(w) /\ ~CommitFails(w)
    BY <1>2, OnlyCommits DEF tables
<1> QED BY <1>1, <1>2

(* So every step keeps the incidents apart and in place. *)
LEMMA StepIncidents ==
    ASSUME IInv, Recovering, NEW w \in Writers, Step(w)
    PROVE  /\ IdsApart'
           /\ \A j \in incidents : \E i \in incidents' : i.id = j.id /\ i.monitor = j.monitor
<1>1. CASE UNCHANGED incidents
    BY <1>1 DEF Recovering, IdsApart
<1>2. CASE Busy(w) /\ Publish(w)
    BY <1>2, IncidentsStay
<1> QED BY <1>1, <1>2, StepPublishes

LEMMA OthersRecover ==
    ASSUME IInv, Recovering, NEW w \in Writers, Step(w), NEW v \in Writers, v # w
    PROVE  RecoveryRead(v)' /\ Closing(v)'
<1>1. pc'[v] = pc[v] /\ todo'[v] = todo[v] /\ job'[v] = job[v] /\ tx'[v] = tx[v]
    BY OthersStand DEF IInv
<1>2. results \subseteq results'
    BY ResultsGrow
<1>3. RecoveryRead(v)'
    BY <1>1 DEF Recovering, RecoveryRead, Busy
<1>4. (Recovered(v) => Recovered(v)') /\ (Evaluates(v) => Evaluates(v)')
    BY <1>1, <1>2 DEF Recovered, OwnRow, Evaluates
<1>5. \A id \in tx'[v].closing : \E i \in incidents' : i.id = id /\ i.monitor = job'[v].monitor
    BY <1>1, StepIncidents DEF Recovering, Closing
<1> QED BY <1>1, <1>3, <1>4, <1>5 DEF Recovering, Closing

LEMMA RecoveryReadStep ==
    ASSUME IInv, Recovering, NEW w \in Writers, Step(w)
    PROVE  RecoveryRead(w)'
<1> USE DEF IInv, TypeOK, Recovering, RecoveryRead, Busy, Goto, Evaluating, Writing, AfterWrite
<1>1. ASSUME NEW batch \in SUBSET Monitors, ClaimAndProbe(w, batch) PROVE RecoveryRead(w)'
  <2>1. pc'[w] = "next"
      BY <1>1 DEF ClaimAndProbe
  <2>2. ASSUME NEW o \in todo'[w] PROVE FromRecoveries(o.recovery)
    <3>1. PICK m \in batch : o.recovery = monitors[m].th.recovery
        BY <1>1 DEF ClaimAndProbe
    <3>2. monitors[m].th \in Thresholds
        OBVIOUS
    <3> QED BY <3>1, <3>2 DEF FromRecoveries
  <2> QED BY <2>1, <2>2
<1>2. ASSUME NEW o \in todo[w], BeginWrite(w, o) \/ BeginFails(w, o) PROVE RecoveryRead(w)'
    BY <1>2 DEF BeginWrite, BeginFails
<1>3. ASSUME NEW m \in Monitors, NEW s \in {"up", "degraded", "down"}, PostResult(w, m, s)
      PROVE  RecoveryRead(w)'
    BY <1>3, WritersAssumption DEF PostResult
<1>4. CASE ReadMonitor(w)
  <2> DEFINE th == monitors[job[w].monitor].th
  <2>1. th \in Thresholds
      BY DEF Outcome
  <2>2. CASE job' = [job EXCEPT ![w] = [job[w] EXCEPT !.failure = th.failure,
                                                      !.recovery = th.recovery]]
    <3>1. job[w] \in Outcome
        OBVIOUS
    <3>2. job'[w].recovery = th.recovery
        BY <2>2, <3>1 DEF Outcome
    <3>3. FromRecoveries(job'[w].recovery)
        BY <2>1, <3>2 DEF FromRecoveries
    <3> QED BY <1>4, <3>3 DEF ReadMonitor
  <2>3. CASE job' = job /\ pc'[w] = "commit"
    <3>1. pc[w] = "readMonitor" /\ UNCHANGED todo
        BY <1>4 DEF ReadMonitor
    <3> QED BY <2>3, <3>1
  <2> QED BY <1>4, <2>2, <2>3 DEF ReadMonitor
<1>5. CASE \/ EndBatch(w) \/ InsertResult(w) \/ SelectOpenIncident(w)
           \/ SelectFailureWindow(w) \/ SelectRecoveryWindow(w)
           \/ InsertIncident(w) \/ FanOutDone(w) \/ (\E c \in Channels : InsertPending(w, c))
           \/ StartClose(w) \/ FinishClose(w) \/ EvaluationFailsCore(w)
    BY <1>5 DEF EndBatch, InsertResult, SelectOpenIncident, SelectFailureWindow,
        SelectRecoveryWindow, InsertIncident, FanOutDone, InsertPending, StartClose,
        FinishClose, EvaluationFailsCore
<1>6. CASE Commit(w) \/ CommitFails(w) \/ WriteFails(w) \/ EvaluationFailsApi(w) \/ Crash(w)
  <2>1. pc'[w] \in {"idle", "next"} /\ todo'[w] \subseteq todo[w]
      BY <1>6 DEF Commit, CommitFails, WriteFails, EvaluationFailsApi, Crash
  <2> QED BY <2>1
<1> QED BY <1>1, <1>2, <1>3, <1>4, <1>5, <1>6 DEF Step

(* The window of ups that sends a writer on to the UPDATE *)
LEMMA WindowRecovers ==
    ASSUME IInv, Recovering, NEW w \in Writers, pc[w] = "recoveryWindow",
           Streak(History(w), job[w].recovery, "up")
    PROVE  Recovered(w) /\ Evaluates(w)
<1> DEFINE ups == Recent(History(w), job[w].recovery)
<1>1. ups \subseteq History(w)
    BY RecentIsPart
<1>2. \A r \in ups : r.status = "up"
    BY DEF Streak
<1>3. Cardinality(ups) = job[w].recovery
    BY DEF Streak
<1>4. FromRecoveries(job[w].recovery)
    BY DEF Recovering, RecoveryRead, Evaluating
<1> HIDE DEF ups
<1>5. \A r \in ups : r.monitor = job[w].monitor /\ r \in results \cup {OwnRow(w)}
    BY <1>1 DEF History, OwnRow, Evaluates
<1>6. ups \in SUBSET {r \in results \cup {OwnRow(w)} : r.monitor = job[w].monitor /\ r.status = "up"}
    BY <1>2, <1>5
<1>7. FromThresholds(job[w].failure)
    BY DEF IInv, Running, ThresholdRead, Evaluating
<1>8. Evaluates(w)
    BY <1>7, ThresholdsAssumption DEF Evaluates, FromThresholds
<1> QED BY <1>3, <1>4, <1>6, <1>8 DEF Recovered

LEMMA ClosingStep ==
    ASSUME IInv, Recovering, NEW w \in Writers, Step(w)
    PROVE  Closing(w)'
<1> USE DEF Goto, tables
<1>0. TypeOK /\ Closing(w) /\ tx[w] \in TxType
    BY DEF IInv, Recovering, TypeOK, TxType
<1>1. ASSUME tx'[w].closing = {}, pc'[w] \notin {"close", "closeLocked"}
      PROVE  Closing(w)'
    BY <1>1 DEF Closing
<1>2. CASE \/ \E o \in todo[w] : BeginWrite(w, o)
           \/ \E m \in Monitors, s \in {"up", "degraded", "down"} : PostResult(w, m, s)
    BY <1>0, <1>1, <1>2 DEF BeginWrite, PostResult, NoWrites, TypeOK
<1>3. CASE \/ \E batch \in SUBSET Monitors : ClaimAndProbe(w, batch)
           \/ \E o \in todo[w] : BeginFails(w, o)
           \/ EndBatch(w) \/ InsertResult(w) \/ ReadMonitor(w) \/ SelectOpenIncident(w)
    BY <1>0, <1>1, <1>3 DEF ClaimAndProbe, BeginFails, EndBatch, InsertResult, ReadMonitor,
        SelectOpenIncident, Closing, TypeOK
<1>4. CASE \/ SelectFailureWindow(w) \/ InsertIncident(w) \/ FanOutDone(w)
           \/ \E c \in Channels : InsertPending(w, c)
  <2>1. tx[w].closing = {} /\ pc'[w] \notin {"close", "closeLocked"}
      BY <1>0, <1>4 DEF SelectFailureWindow, InsertIncident, FanOutDone, InsertPending, Closing,
          TypeOK
  <2>2. tx'[w].closing = tx[w].closing
    <3>1. CASE SelectFailureWindow(w)
        BY <1>0, <3>1 DEF SelectFailureWindow, TypeOK, TxType
    <3>2. CASE InsertIncident(w)
        BY <1>0, <3>2 DEF InsertIncident, TypeOK, TxType
    <3>3. CASE FanOutDone(w)
        BY <3>3 DEF FanOutDone
    <3>4. ASSUME NEW c \in Channels, InsertPending(w, c)
          PROVE  tx'[w].closing = tx[w].closing
        BY <1>0, <3>4 DEF InsertPending, TypeOK, TxType
    <3> QED BY <1>4, <3>1, <3>2, <3>3, <3>4
  <2> QED BY <1>1, <2>1, <2>2
<1>5. CASE SelectRecoveryWindow(w)
  <2>1. /\ pc[w] = "recoveryWindow" /\ UNCHANGED <<job, tx, results, incidents>>
        /\ pc'[w] = IF Streak(History(w), job[w].recovery, "up") THEN "close" ELSE "commit"
      BY <1>0, <1>5 DEF SelectRecoveryWindow, TypeOK
  <2>2. tx[w].closing = {}
      BY <1>0, <2>1 DEF Closing
  <2>3. pc'[w] = "close" => Recovered(w)' /\ Evaluates(w)'
      BY <2>1, WindowRecovers DEF Recovered, OwnRow, Evaluates
  <2> QED BY <2>1, <2>2, <2>3 DEF Closing
<1>6. CASE StartClose(w) \/ FinishClose(w)
  <2> DEFINE open == {i.id : i \in OpenIncidents(job[w].monitor)}
  <2>1. PICK closed \in SUBSET open : tx' = [tx EXCEPT ![w].closing = closed]
    <3>1. CASE StartClose(w)
        BY <3>1 DEF StartClose
    <3>2. CASE FinishClose(w)
      <4>1. tx' = [tx EXCEPT ![w].closing = tx[w].closing \cap open]
          BY <3>2 DEF FinishClose
      <4>2. tx[w].closing \cap open \in SUBSET open
          OBVIOUS
      <4> HIDE DEF open
      <4> QED BY <4>1, <4>2
    <3> QED BY <1>6, <3>1, <3>2
  <2>2. tx'[w] = [tx[w] EXCEPT !.closing = closed]
      BY <1>0, <2>1 DEF TypeOK
  <2>3. tx'[w].closing = closed /\ tx'[w].at = tx[w].at
      BY <1>0, <2>2 DEF TxType
  <2>4. /\ pc[w] \in {"close", "closeLocked"} /\ pc'[w] \in {"closeLocked", "commit"}
        /\ UNCHANGED <<job, results, incidents>>
      BY <1>0, <1>6 DEF StartClose, FinishClose, TypeOK
  <2>5. Recovered(w)' /\ Evaluates(w)'
      BY <1>0, <2>3, <2>4 DEF Closing, Recovered, OwnRow, Evaluates
  <2>6. \A id \in closed : \E i \in incidents : i.id = id /\ i.monitor = job[w].monitor
      BY <2>1 DEF OpenIncidents
  <2> QED BY <2>3, <2>4, <2>5, <2>6 DEF Closing
<1>7. CASE EvaluationFailsCore(w)
  <2>1. tx'[w] = [tx[w] EXCEPT !.aborted = TRUE, !.closing = {}] /\ pc'[w] = "commit"
      BY <1>0, <1>7 DEF EvaluationFailsCore, TypeOK
  <2>2. tx'[w].closing = {}
      BY <1>0, <2>1 DEF TxType
  <2> QED BY <1>1, <2>1, <2>2
<1>8. CASE Commit(w) \/ CommitFails(w) \/ WriteFails(w) \/ EvaluationFailsApi(w) \/ Crash(w)
  <2>1. Leave(w) /\ pc'[w] \in {"idle", "next"}
      BY <1>0, <1>8 DEF Commit, CommitFails, WriteFails, EvaluationFailsApi, Crash, AfterWrite,
          TypeOK
  <2>2. tx'[w].closing = {}
      BY <1>0, <2>1 DEF Leave, NoWrites, TypeOK
  <2> QED BY <1>1, <2>1, <2>2
<1> QED BY <1>2, <1>3, <1>4, <1>5, <1>6, <1>7, <1>8 DEF Step

(* A writer has rows of its own locked only after its UPDATE. *)
LEMMA OnlyFinishHolds ==
    ASSUME IInv, Recovering, NEW w \in Writers, Step(w), ~FinishClose(w)
    PROVE  HoldsClosed(w)' = {}
<1>0. Closing(w)' /\ Closing(w) /\ TypeOK /\ tx[w] \in TxType
    BY ClosingStep DEF Recovering, IInv, TypeOK, TxType
<1> USE DEF Goto, HoldsClosed
<1>1. CASE pc'[w] # "commit"
    BY <1>1
<1>2. CASE EvaluationFailsCore(w)
  <2>1. tx'[w] = [tx[w] EXCEPT !.aborted = TRUE, !.closing = {}]
      BY <1>0, <1>2 DEF EvaluationFailsCore, TypeOK
  <2> QED BY <1>0, <2>1 DEF TxType
<1>3. CASE ReadMonitor(w) \/ SelectRecoveryWindow(w) \/ FanOutDone(w)
    BY <1>0, <1>3 DEF ReadMonitor, SelectRecoveryWindow, FanOutDone, Closing
<1>4. CASE SelectFailureWindow(w)
  <2>1. PICK e : tx' = [tx EXCEPT ![w].evidence = e]
      BY <1>4 DEF SelectFailureWindow
  <2>2. tx'[w] = [tx[w] EXCEPT !.evidence = e]
      BY <1>0, <2>1 DEF TypeOK
  <2>3. tx'[w].closing = tx[w].closing
      BY <1>0, <2>2 DEF TxType
  <2> QED BY <1>0, <1>4, <2>3 DEF SelectFailureWindow, Closing
<1>5. CASE /\ ~EvaluationFailsCore(w) /\ ~ReadMonitor(w) /\ ~SelectRecoveryWindow(w)
           /\ ~FanOutDone(w) /\ ~SelectFailureWindow(w)
    BY <1>0, <1>5 DEF TypeOK, Step, ClaimAndProbe, BeginWrite, BeginFails, EndBatch, PostResult,
        InsertResult, SelectOpenIncident, InsertIncident, InsertPending, StartClose, Commit,
        CommitFails, WriteFails, EvaluationFailsApi, Crash, AfterWrite, Closing
<1> QED BY <1>2, <1>3, <1>4, <1>5

(* Who waits for a lock leaves the row alone when it was closed meanwhile,  *)
(* and a COMMIT changes no row that another holds.                          *)
LEMMA LockingStep ==
    ASSUME IInv, Recovering, NEW w \in Writers, Step(w)
    PROVE  \A v \in Writers : Locking(v)'
<1>0. \A v \in Writers : Locking(v)
    BY DEF Recovering
<1>1. \A v \in Writers \ {w} : HoldsClosed(v)' = HoldsClosed(v)
    BY OthersStand DEF IInv, HoldsClosed
<1>2. CASE FinishClose(w)
  <2> DEFINE open == {i.id : i \in OpenIncidents(job[w].monitor)}
  <2>1. /\ incidents' = incidents
        /\ \A v \in Writers \ {w} : HoldsClosed(v) \cap tx[w].closing = {}
        /\ tx' = [tx EXCEPT ![w].closing = tx[w].closing \cap open]
      BY <1>2 DEF FinishClose, tables
  <2>2. tx'[w].closing = tx[w].closing \cap open
    <3>1. tx \in [Writers -> TxType]
        BY DEF IInv, TypeOK, TxType
    <3> HIDE DEF open
    <3> QED BY <2>1, <3>1 DEF TxType
  <2>3. HoldsClosed(w)' \subseteq tx[w].closing \cap open
      BY <2>2 DEF HoldsClosed
  <2>4. ASSUME NEW id \in open, NEW i \in incidents, i.id = id PROVE IsOpen(i)
      BY <2>4 DEF OpenIncidents, Recovering, IdsApart
  <2> HIDE DEF open
  <2>5. Locking(w)'
      BY <1>1, <2>1, <2>3, <2>4 DEF Locking, IsOpen
  <2>6. ASSUME NEW v \in Writers \ {w} PROVE Locking(v)'
      BY <1>0, <1>1, <2>1, <2>3 DEF Locking, IsOpen
  <2> QED BY <2>5, <2>6
<1>3. CASE ~FinishClose(w)
  <2>1. HoldsClosed(w)' = {}
      BY <1>3, OnlyFinishHolds
  <2>2. Locking(w)'
      BY <2>1 DEF Locking
  <2>3. ASSUME NEW v \in Writers \ {w}, NEW id \in HoldsClosed(v), NEW i \in incidents', i.id = id
        PROVE  IsOpen(i)
    <3>1. CASE UNCHANGED incidents
        BY <1>0, <2>3, <3>1 DEF Locking
    <3>2. CASE pc[w] = "commit" /\ Busy(w) /\ Publish(w)
      <4>1. i.id \notin tx[w].closing
          BY <1>0, <2>3, <3>2 DEF Locking, HoldsClosed
      <4>2. IsOpen(i) \/ i \in incidents
          BY <3>2, <4>1, IncidentsStay
      <4> QED BY <1>0, <2>3, <4>2 DEF Locking
    <3> QED BY <3>1, <3>2, StepPublishes
  <2>4. ASSUME NEW v \in Writers \ {w} PROVE Locking(v)'
      BY <1>0, <1>1, <2>1, <2>3 DEF Locking, IsOpen
  <2> QED BY <2>2, <2>4
<1> QED BY <1>2, <1>3

LEMMA RecoveringNext == IInv /\ Recovering /\ [Next]_vars => Recovering'
<1> SUFFICES ASSUME IInv, Recovering, [Next]_vars PROVE Recovering'
    OBVIOUS
<1>1. ASSUME NEW w \in Writers, Step(w) PROVE Recovering'
    BY <1>1, StepIncidents, RecoveryReadStep, ClosingStep, LockingStep, OthersRecover
    DEF Recovering
<1>2. CASE Administer \/ UNCHANGED vars
  <2>1. UNCHANGED <<tables, pc, todo, job, tx>>
    <3>1. CASE UNCHANGED vars
        BY <3>1 DEF vars, tables
    <3>2. CASE Administer
        BY <3>2 DEF Administer, PatchMonitor, ArchiveMonitor, CreateChannel, DeleteChannel
    <3> QED BY <1>2, <3>1, <3>2
  <2> QED BY <2>1 DEF Recovering, IdsApart, RecoveryRead, Closing, Locking, HoldsClosed,
          IsOpen, Recovered, OwnRow, Evaluates, Busy, tables
<1> QED BY <1>1, <1>2 DEF Next

LEMMA AlwaysRecovering == Spec => [](IInv /\ Recovering)
<1>1. Init => Recovering
    BY DEF Init, Recovering, IdsApart, RecoveryRead, Closing, Locking, HoldsClosed, Busy,
       Evaluating, NoWrites
<1> QED BY <1>1, InitIInv, NextIInv, RecoveringNext, PTL DEF Spec

(* What a COMMIT changes it closes: a row it has locked, as it found it. *)
LEMMA ClosedByCommit ==
    ASSUME IInv, Recovering, NEW w \in Writers, Publish(w), pc[w] = "commit",
           NEW i \in incidents, i \notin incidents'
    PROVE  /\ i.monitor = job[w].monitor /\ IsOpen(i) /\ Recovered(w) /\ Evaluates(w)
           /\ [i EXCEPT !.closed_at = tx[w].at] \in incidents'
           /\ results' = results \cup {OwnRow(w)}
<1>1. /\ results' = results \cup {OwnRow(w)}
      /\ Updated(w, i) \in incidents'
    BY DEF Publish, tables
<1>2. i.id \in tx[w].closing /\ Updated(w, i) = [i EXCEPT !.closed_at = tx[w].at]
    BY <1>1, UpdatedIs DEF IInv
<1>3. i.monitor = job[w].monitor
    BY <1>2 DEF Recovering, IdsApart, Closing
<1>4. Recovered(w) /\ Evaluates(w)
    BY <1>2 DEF Recovering, Closing
<1>5. IsOpen(i)
    BY <1>2 DEF Recovering, Locking, HoldsClosed
<1> QED BY <1>1, <1>2, <1>3, <1>4, <1>5

(* Whichever transactions race, wait for each other's rows, fail or crash,   *)
(* an incident in the table changes once: it was open, and is closed as of   *)
(* the time of a judged result of its own monitor that is in the table with  *)
(* a full window of ups.                                                     *)
THEOREM ClosuresRestOnEvidence == Spec => ClosedOnEvidence
<1> DEFINE Closed(i) ==
             /\ IsOpen(i)
             /\ \E r \in results' : /\ r.monitor = i.monitor /\ r.judged
                                    /\ [i EXCEPT !.closed_at = r.at] \in incidents'
             /\ \E th \in Thresholds :
                \E ups \in SUBSET {r \in results' : r.monitor = i.monitor /\ r.status = "up"} :
                    Cardinality(ups) = th.recovery
           A == \A i \in incidents \ incidents' : Closed(i)
<1>1. ASSUME IInv, Recovering, Next PROVE A
  <2>1. ASSUME NEW w \in Writers, Publish(w), pc[w] = "commit" PROVE A
    <3> SUFFICES ASSUME NEW i \in incidents, i \notin incidents' PROVE Closed(i)
        OBVIOUS
    <3>1. /\ i.monitor = job[w].monitor /\ IsOpen(i) /\ Recovered(w) /\ Evaluates(w)
          /\ [i EXCEPT !.closed_at = tx[w].at] \in incidents'
          /\ results' = results \cup {OwnRow(w)}
        BY <1>1, <2>1, ClosedByCommit
    <3>2. /\ OwnRow(w).monitor = job[w].monitor /\ OwnRow(w).judged /\ OwnRow(w).at = tx[w].at
          /\ OwnRow(w) \in results'
        BY <3>1 DEF OwnRow, Evaluates
    <3>3. \E r \in results' : /\ r.monitor = i.monitor /\ r.judged
                              /\ [i EXCEPT !.closed_at = r.at] \in incidents'
        BY <3>1, <3>2
    <3>4. \E th \in Thresholds :
          \E ups \in SUBSET {r \in results' : r.monitor = i.monitor /\ r.status = "up"} :
              Cardinality(ups) = th.recovery
        BY <3>1 DEF Recovered, FromRecoveries
    <3> QED BY <3>1, <3>3, <3>4
  <2> HIDE DEF Closed
  <2>2. CASE UNCHANGED incidents
      BY <2>2
  <2>3. CASE Administer
      BY <2>2, <2>3 DEF Administer, PatchMonitor, ArchiveMonitor, CreateChannel, DeleteChannel,
          tables
  <2> QED BY <1>1, <2>1, <2>2, <2>3, StepPublishes DEF Next
<1>2. IInv /\ Recovering /\ [Next]_vars => [A]_vars
    BY <1>1
<1> QED BY <1>2, AlwaysRecovering, PTL DEF Spec, ClosedOnEvidence

-----------------------------------------------------------------------------
(* Two promises the code does not keep, and what alone breaks them.          *)

(* No statement of an evaluation has failed in an open transaction. *)
NoneAborted == \A w \in Writers : ~tx[w].aborted

LEMMA LoggedStep ==
    ASSUME LoggedIsDurable, NoneAborted, [Next]_vars
    PROVE  LoggedIsDurable'
<1>1. ASSUME results \subseteq results', reported' = reported PROVE LoggedIsDurable'
    BY <1>1 DEF LoggedIsDurable
<1>2. ASSUME NEW w \in Writers, Commit(w) PROVE LoggedIsDurable'
  <2>1. /\ results' = results \cup {OwnRow(w)} /\ OwnRow(w).at = tx[w].at
        /\ reported' = reported \cup {[writer |-> w, at |-> tx[w].at]}
      BY <1>2 DEF NoneAborted, Commit, Publish, OwnRow
  <2>2. \A p \in reported' : p \in reported \/ p.at = tx[w].at
      BY <2>1
  <2> QED BY <2>1, <2>2 DEF LoggedIsDurable
<1>3. ASSUME NEW w \in Writers, Step(w), ~Commit(w) PROVE LoggedIsDurable'
  <2>1. results \subseteq results'
      BY <1>3, ResultsGrow
  <2>2. reported' = reported
      BY <1>3, OnlyCommits DEF CommitFails
  <2> QED BY <1>1, <2>1, <2>2
<1>4. CASE Administer \/ UNCHANGED vars
    BY <1>1, <1>4 DEF vars, Administer, PatchMonitor, ArchiveMonitor, CreateChannel,
       DeleteChannel, tables
<1> QED BY <1>2, <1>3, <1>4 DEF Next

(* Only a statement that fails inside an evaluation costs a result that is   *)
(* logged as written: no crash, no lost COMMIT, no race does.                *)
THEOREM OnlyFailedEvaluationsLose == Spec /\ []NoneAborted => []LoggedIsDurable
<1>1. Init => LoggedIsDurable
    BY DEF Init, LoggedIsDurable
<1>2. LoggedIsDurable /\ NoneAborted /\ [Next]_vars => LoggedIsDurable'
    BY LoggedStep
<1> QED BY <1>1, <1>2, PTL DEF Spec

(* w has claimed m, or is writing a result of it. *)
Attends(w, m) ==
    \/ \E o \in todo[w] : o.monitor = m
    \/ Busy(w) /\ job[w].monitor = m

(* Nobody pauses or archives a monitor that is being attended to. *)
NonePausedMeanwhile ==
    \A w \in Writers, m \in Monitors :
        Attends(w, m) /\ monitors[m].status = "active" => monitors'[m].status = "active"

(* What a writer goes on is still so. *)
Attended(w) ==
    /\ \A o \in todo[w] : monitors[o.monitor].status = "active"
    /\ Busy(w) /\ Evaluates(w) => monitors[job[w].monitor].status = "active"
    /\ tx[w].evidence # {} => Busy(w) /\ Evaluates(w)

LEMMA AttendedOn ==
    ASSUME NEW w \in Writers, Attended(w), monitors' = monitors, todo'[w] \subseteq todo[w],
           \/ /\ Busy(w) /\ Busy(w)' /\ job'[w] = job[w]
              /\ tx'[w].evidence # {} => tx[w].evidence # {} \/ Evaluates(w)
           \/ ~Busy(w)' /\ tx'[w].evidence = {}
    PROVE  Attended(w)'
BY DEF Attended, Evaluates

LEMMA AttendedStep ==
    ASSUME IInv, NEW w \in Writers, Attended(w), Step(w)
    PROVE  Attended(w)'
<1> USE DEF IInv, TypeOK, Goto, Busy, Writing, Evaluating
<1>i. pc[w] \in {"idle", "next"} => tx[w].evidence = {}
    BY DEF Running, Staging
<1>e. pc[w] \in Evaluating => Evaluates(w)
  <2>1. pc[w] \in Evaluating => FromThresholds(job[w].failure)
      BY DEF Running, ThresholdRead
  <2> QED BY <2>1, ThresholdsAssumption DEF FromThresholds, Evaluates
<1>l. ASSUME Leave(w) PROVE tx'[w].evidence = {}
    BY <1>l DEF Leave, NoWrites
<1>1. ASSUME NEW batch \in SUBSET Monitors, ClaimAndProbe(w, batch) PROVE Attended(w)'
  <2>1. \A o \in todo'[w] : monitors'[o.monitor].status = "active"
      BY <1>1 DEF ClaimAndProbe
  <2>2. pc'[w] = "next" /\ tx'[w].evidence = {}
      BY <1>1, <1>i DEF ClaimAndProbe
  <2> QED BY <2>1, <2>2 DEF Attended
<1>2. ASSUME NEW o \in todo[w], BeginWrite(w, o) PROVE Attended(w)'
  <2>1. /\ monitors' = monitors /\ todo'[w] \subseteq todo[w] /\ job'[w] = o
        /\ tx'[w].evidence = {}
      BY <1>2 DEF BeginWrite, NoWrites
  <2> QED BY <2>1 DEF Attended
<1>3. ASSUME NEW o \in todo[w], BeginFails(w, o) PROVE Attended(w)'
    BY <1>3, <1>i, AttendedOn DEF BeginFails
<1>4. CASE EndBatch(w)
    BY <1>4, <1>i, AttendedOn DEF EndBatch
<1>5. ASSUME NEW m \in Monitors, NEW s \in {"up", "degraded", "down"}, PostResult(w, m, s)
      PROVE  Attended(w)'
  <2>1. /\ monitors' = monitors /\ todo' = todo /\ job'[w].failure = 0
        /\ tx'[w].evidence = {}
      BY <1>5 DEF PostResult, NoWrites
  <2> QED BY <2>1 DEF Attended, Evaluates
<1>6. CASE InsertResult(w) \/ SelectOpenIncident(w) \/ SelectRecoveryWindow(w) \/ FanOutDone(w)
  <2>1. /\ UNCHANGED <<monitors, todo, job, tx>> /\ pc[w] \notin {"idle", "next"}
        /\ pc'[w] \notin {"idle", "next"}
      BY <1>6 DEF InsertResult, SelectOpenIncident, SelectRecoveryWindow, FanOutDone
  <2> QED BY <2>1, AttendedOn
<1>7. CASE ReadMonitor(w)
  <2>1. /\ UNCHANGED <<monitors, todo, tx>> /\ pc[w] = "readMonitor"
        /\ pc'[w] \notin {"idle", "next"}
        /\ IF monitors[job[w].monitor].status = "active"
             THEN job'[w].monitor = job[w].monitor ELSE job' = job
      BY <1>7 DEF ReadMonitor
  <2>2. tx[w].evidence = {}
      BY <2>1 DEF Running, Staging
  <2> QED BY <2>1, <2>2 DEF Attended, Evaluates
<1>8. CASE SelectFailureWindow(w)
  <2>1. /\ UNCHANGED <<monitors, todo, job>> /\ pc[w] = "failureWindow"
        /\ pc'[w] \notin {"idle", "next"}
      BY <1>8 DEF SelectFailureWindow
  <2> QED BY <2>1, <1>e, AttendedOn
<1>9. CASE \/ InsertIncident(w) \/ \E c \in Channels : InsertPending(w, c)
           \/ StartClose(w) \/ FinishClose(w) \/ EvaluationFailsCore(w)
  <2>1. /\ UNCHANGED <<monitors, todo, job>> /\ pc[w] \in Evaluating
        /\ pc'[w] \notin {"idle", "next"}
      BY <1>9 DEF InsertIncident, InsertPending, StartClose, FinishClose, EvaluationFailsCore
  <2> QED BY <2>1, <1>e, AttendedOn
<1>10. CASE \/ Commit(w) \/ CommitFails(w) \/ WriteFails(w) \/ EvaluationFailsApi(w) \/ Crash(w)
  <2>1. /\ monitors' = monitors /\ todo'[w] \subseteq todo[w] /\ Leave(w)
        /\ pc'[w] \in {"idle", "next"}
      BY <1>10 DEF Commit, CommitFails, WriteFails, EvaluationFailsApi, Crash, AfterWrite
  <2> QED BY <2>1, <1>l, AttendedOn
<1> QED BY <1>1, <1>2, <1>3, <1>4, <1>5, <1>6, <1>7, <1>8, <1>9, <1>10 DEF Step

LEMMA StepLeavesMonitors ==
    ASSUME NEW w \in Writers, Step(w)
    PROVE  monitors' = monitors
BY DEF Step, ClaimAndProbe, BeginWrite, BeginFails, EndBatch, PostResult, InsertResult,
       ReadMonitor, SelectOpenIncident, SelectFailureWindow, SelectRecoveryWindow,
       InsertIncident, FanOutDone, InsertPending, StartClose, FinishClose, Commit,
       CommitFails, WriteFails, EvaluationFailsCore, EvaluationFailsApi, Crash

LEMMA AttendedNext ==
    ASSUME IInv, \A w \in Writers : Attended(w), [Next]_vars, [NonePausedMeanwhile]_vars
    PROVE  \A w \in Writers : Attended(w)'
<1>1. ASSUME NEW w \in Writers, Step(w), NEW v \in Writers PROVE Attended(v)'
  <2>1. CASE v = w
      BY <1>1, <2>1, AttendedStep
  <2>2. CASE v # w
    <3>1. pc'[v] = pc[v] /\ todo'[v] = todo[v] /\ job'[v] = job[v] /\ tx'[v] = tx[v]
        BY <1>1, <2>2, OthersStand DEF IInv
    <3> QED BY <1>1, <3>1, StepLeavesMonitors DEF Attended, Busy, Evaluates
  <2> QED BY <2>1, <2>2
<1>2. ASSUME Administer, NEW v \in Writers PROVE Attended(v)'
  <2>1. UNCHANGED <<pc, todo, job, tx>>
      BY <1>2 DEF Administer, PatchMonitor, ArchiveMonitor, CreateChannel, DeleteChannel
  <2>2. NonePausedMeanwhile \/ monitors' = monitors
      BY DEF vars
  <2>3. /\ \A o \in todo[v] : o.monitor \in Monitors
        /\ job[v].monitor \in Monitors
      BY DEF IInv, TypeOK, Outcome
  <2>4. \A o \in todo[v] :
           monitors[o.monitor].status = "active" => monitors'[o.monitor].status = "active"
      BY <2>2, <2>3 DEF NonePausedMeanwhile, Attends
  <2>5. Busy(v) /\ monitors[job[v].monitor].status = "active"
        => monitors'[job[v].monitor].status = "active"
      BY <2>2, <2>3 DEF NonePausedMeanwhile, Attends
  <2> QED BY <2>1, <2>4, <2>5 DEF Attended, Busy, Evaluates
<1>3. ASSUME UNCHANGED vars, NEW v \in Writers PROVE Attended(v)'
    BY <1>3 DEF vars, Attended, Busy, Evaluates
<1> QED BY <1>1, <1>2, <1>3 DEF Next

(* Only a monitor that is paused or archived while it is attended to, from   *)
(* its claim or from the BEGIN of a posted result to the COMMIT, has an      *)
(* incident opened that is not active: no stale batch, crash or race else.   *)
THEOREM OnlyPausesInBetweenOpen == Spec /\ [][NonePausedMeanwhile]_vars => OpenedWhileActive
<1> DEFINE All == \A w \in Writers : Attended(w)
           Active == \A i \in incidents' :
               i.id \notin {j.id : j \in incidents} => monitors[i.monitor].status = "active"
<1>1. Init => All
    BY DEF Init, Attended, Busy, NoWrites
<1>2. IInv /\ All /\ [Next]_vars /\ [NonePausedMeanwhile]_vars => All'
    BY AttendedNext
<1>3. ASSUME All, Next PROVE Active
  <2>1. CASE UNCHANGED incidents
      BY <2>1
  <2>2. ASSUME NEW w \in Writers, Publish(w), ~UNCHANGED incidents PROVE Active
    <3> DEFINE closed(j) == Updated(w, j)
               new == NewIncident(w)
    <3>1. \A i \in incidents' : (\E j \in incidents : i = closed(j)) \/ (Opened(w) /\ i = new)
        BY <2>2 DEF Publish, tables
    <3>2. \A j \in incidents : closed(j).id = j.id
        BY DEF Updated
    <3>3. Opened(w) => monitors[job[w].monitor].status = "active"
        BY <1>3 DEF Opened, Attended
    <3> SUFFICES ASSUME NEW i \in incidents', i.id \notin {j.id : j \in incidents}
                 PROVE  monitors[i.monitor].status = "active"
        OBVIOUS
    <3>4. new.monitor = job[w].monitor
        BY NewIncidentIs
    <3> HIDE DEF closed, new
    <3>5. ASSUME NEW j \in incidents, i = closed(j) PROVE FALSE
      <4>1. i.id = j.id
          BY <3>2, <3>5
      <4> QED BY <4>1
    <3>6. Opened(w) /\ i = new
        BY <3>1, <3>5
    <3> QED BY <3>3, <3>4, <3>6
  <2>3. ASSUME NEW w \in Writers, Step(w) PROVE Publish(w) \/ UNCHANGED incidents
    <3>1. CASE Commit(w) \/ CommitFails(w)
        BY <3>1 DEF Commit, CommitFails, tables
    <3>2. CASE ~Commit(w) /\ ~CommitFails(w)
        BY <2>3, <3>2, OnlyCommits DEF tables
    <3> QED BY <3>1, <3>2
  <2>4. CASE Administer
      BY <2>1, <2>4 DEF Administer, PatchMonitor, ArchiveMonitor, CreateChannel, DeleteChannel,
          tables
  <2> QED BY <1>3, <2>1, <2>2, <2>3, <2>4 DEF Next
<1>4. All /\ [Next]_vars => [Active]_vars
    BY <1>3
<1> QED BY <1>1, <1>2, <1>4, AlwaysIInv, PTL DEF Spec, OpenedWhileActive

=============================================================================
