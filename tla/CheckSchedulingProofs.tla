----------------------- MODULE CheckSchedulingProofs -----------------------
(***************************************************************************)
(* Theorems about CheckScheduling for any number of processes and          *)
(* monitors, any intervals and changes of them, any batch limit and any    *)
(* bound on the clock.                                                     *)
(***************************************************************************)
EXTENDS CheckScheduling, FiniteSetTheorems, TLAPS

IInv == TypeOK /\ ClaimsExclusive /\ ClaimsStillDue

LEMMA InitIInv == Init => IInv
BY IntervalsAssumption, MaxTimeAssumption
DEF Init, IInv, TypeOK, ClaimsExclusive, ClaimsStillDue, Claimed, Never

LEMMA TurnTypes ==
    ASSUME TypeOK, NEW e \in Engines, NEW stamped, Turn(e, stamped)
    PROVE  left' \in [Engines -> SUBSET Monitors] /\ passedOver' \in [Monitors -> Nat]
<1>1. \A f \in Engines : left[f] \subseteq Monitors
    BY DEF TypeOK
<1>2. \A m \in Monitors : passedOver[m] \in Nat
    BY DEF TypeOK
<1> QED BY <1>1, <1>2 DEF Turn

(* A step that takes no claim and stamps nothing keeps every claim due. *)
LEMMA ClaimsShrink ==
    ASSUME IInv, TypeOK', lastChecked' = lastChecked,
           \A e \in Engines : Claimed(e)' \subseteq Claimed(e)
                              /\ (Claimed(e)' = {} \/ began'[e] = began[e]),
           \A e \in Engines : \A m \in Claimed(e) : interval'[m] = interval[m]
    PROVE  IInv'
BY DEF IInv, ClaimsExclusive, ClaimsStillDue

(* A stamp takes away only the claim that made it. *)
LEMMA StampKeeps ==
    ASSUME IInv, TypeOK', NEW e \in Engines, began' = began, interval' = interval,
           lastChecked' = Stamped(e) \/ lastChecked' = lastChecked,
           pc[e] = "commit", Claimed(e)' = {},
           \A f \in Engines \ {e} : Claimed(f)' = Claimed(f)
    PROVE  IInv'
<1>1. ASSUME NEW f \in Engines \ {e}, NEW m \in Claimed(f)
      PROVE  lastChecked'[m] = lastChecked[m]
  <2>1. m \notin Claimed(e)
      BY DEF IInv, ClaimsExclusive
  <2>2. stampFailed[e] \/ m \notin batch[e]
      BY <2>1 DEF Claimed
  <2>3. m \in Monitors
      BY DEF IInv, TypeOK, Claimed
  <2> QED BY <2>2, <2>3 DEF Stamped
<1>2. ClaimsExclusive'
    BY DEF IInv, ClaimsExclusive
<1>3. ClaimsStillDue'
    BY <1>1 DEF IInv, ClaimsStillDue
<1> QED BY <1>2, <1>3 DEF IInv

LEMMA SelectKeeps ==
    ASSUME IInv, NEW e \in Engines, SelectDue(e)
    PROVE  IInv'
<1>1. PICK s \in SUBSET Claimable(e) :
        /\ batch' = [batch EXCEPT ![e] = s]
        /\ \E rest \in SUBSET Claimable(e) : left' = [left EXCEPT ![e] = rest]
        /\ Goto(e, "select", IF s = {} THEN "sleep" ELSE "stamp")
    BY DEF SelectDue, Oldest, Batches
<1>2. UNCHANGED <<now, active, interval, lastChecked, began, stampFailed, passedOver>>
    BY DEF SelectDue
<1>3. Claimable(e) \subseteq Monitors
    BY DEF Claimable
<1>4. TypeOK'
    BY <1>1, <1>2, <1>3 DEF IInv, TypeOK, Goto
<1>5. Claimed(e)' \subseteq s /\ \A f \in Engines \ {e} : Claimed(f)' = Claimed(f)
    BY <1>1, <1>2 DEF IInv, TypeOK, Goto, Claimed
<1>6. \A m \in s : Due(m, began[e]) /\ \A f \in Engines : m \notin Claimed(f)
    BY <1>1 DEF Claimable, Locked
<1>7. ClaimsExclusive'
    BY <1>5, <1>6 DEF IInv, ClaimsExclusive
<1>8. ClaimsStillDue'
    BY <1>2, <1>5, <1>6 DEF IInv, ClaimsStillDue, Due
<1> QED BY <1>4, <1>7, <1>8 DEF IInv

LEMMA CheckKeeps ==
    ASSUME IInv, NEW e \in Engines, Check(e)
    PROVE  IInv'
<1> USE DEF IInv, TypeOK, Goto, Claimed, turns
<1>1. CASE Begin(e)
    BY <1>1, ClaimsShrink DEF Begin
<1>2. CASE SelectDue(e)
    BY <1>2, SelectKeeps
<1>3. CASE SelectFails(e)
    BY <1>3, ClaimsShrink DEF SelectFails
<1>4. CASE Stamp(e)
    BY <1>4, ClaimsShrink DEF Stamp
<1>5. CASE StampFails(e)
    BY <1>5, ClaimsShrink DEF StampFails
<1>6. Stamped(e) \in [Monitors -> 0 .. MaxTime]
    BY MaxTimeAssumption DEF Stamped
<1>7. CASE CommitClaim(e)
    BY <1>6, <1>7, StampKeeps, TurnTypes DEF CommitClaim
<1>8. CASE CommitClaimFails(e)
    BY <1>6, <1>8, StampKeeps, TurnTypes DEF CommitClaimFails
<1>9. ASSUME NEW m \in Monitors, WriteResult(e, m) PROVE IInv'
    BY <1>9, ClaimsShrink DEF WriteResult
<1>10. CASE EndRound(e)
    BY <1>10, ClaimsShrink DEF EndRound
<1>11. CASE Crash(e)
    BY <1>11, ClaimsShrink DEF Crash
<1> QED BY <1>1, <1>2, <1>3, <1>4, <1>5, <1>7, <1>8, <1>9, <1>10, <1>11 DEF Check

LEMMA NextIInv == IInv /\ [Next]_vars => IInv'
<1> SUFFICES ASSUME IInv, [Next]_vars PROVE IInv'
    OBVIOUS
<1> USE DEF IInv, TypeOK, turns
<1>1. ASSUME NEW e \in Engines, Check(e) PROVE IInv'
    BY <1>1, CheckKeeps
<1>2. ASSUME NEW m \in Monitors, Patch(m) PROVE IInv'
    BY <1>2, ClaimsShrink DEF Patch, Locked, Claimed
<1>3. CASE Tick
    BY <1>3, ClaimsShrink, MaxTimeAssumption DEF Tick, Claimed
<1>4. CASE UNCHANGED vars
    BY <1>4, ClaimsShrink DEF vars, Claimed
<1> QED BY <1>1, <1>2, <1>3, <1>4 DEF Next

LEMMA AlwaysIInv == Spec => []IInv
BY InitIInv, NextIInv, PTL DEF Spec

(* Every variable keeps its type. *)
THEOREM TypeCorrect == Spec => []TypeOK
BY AlwaysIInv, PTL DEF IInv

(* Two processes never hold a claim on the same monitor. *)
THEOREM ClaimsAreExclusive == Spec => []ClaimsExclusive
BY AlwaysIInv, PTL DEF IInv

(* A claim about to be stamped is still due, so no interval is checked twice. *)
THEOREM ClaimsAreStillDue == Spec => []ClaimsStillDue
BY AlwaysIInv, PTL DEF IInv

(* last_checked_at moves forward only, an interval at a time at least. *)
THEOREM StampsOnlyMoveForward == Spec => StampsMoveForward
<1>1. ASSUME IInv, [Next]_vars, NEW m \in Monitors,
             lastChecked[m] # Never, lastChecked'[m] # lastChecked[m]
      PROVE  lastChecked[m] + interval[m] <= lastChecked'[m]
  <2>1. PICK e \in Engines : (CommitClaim(e) \/ CommitClaimFails(e)) /\ lastChecked' = Stamped(e)
      BY <1>1 DEF Next, vars, turns, Check, Begin, SelectDue, SelectFails, Stamp, StampFails,
          CommitClaim, CommitClaimFails, WriteResult, EndRound, Crash, Patch, Tick
  <2>2. m \in Claimed(e) /\ lastChecked'[m] = began[e]
      BY <1>1, <2>1 DEF CommitClaim, CommitClaimFails, Goto, Stamped, Claimed
  <2> QED BY <1>1, <2>2 DEF IInv, ClaimsStillDue
<1>2. IInv /\ [Next]_vars =>
        [\A m \in Monitors :
           lastChecked[m] # Never /\ lastChecked'[m] # lastChecked[m]
           => lastChecked[m] + interval[m] <= lastChecked'[m]]_vars
    BY <1>1
<1> QED BY <1>2, AlwaysIInv, PTL DEF Spec, StampsMoveForward

-----------------------------------------------------------------------------
(* The refinement.  A claim in progress is of active monitors, since a       *)
(* patch waits for its locks, and its NOW() has passed; between its SELECT   *)
(* and its COMMIT it is not empty.                                           *)
Claiming(e) ==
    /\ Claimed(e) \subseteq active
    /\ began[e] <= now
    /\ pc[e] \in {"stamp", "commit"} => batch[e] # {}
    /\ pc[e] \notin {"stamp", "commit"} => ~stampFailed[e]

Claims == \A e \in Engines : Claiming(e)

LEMMA InitClaims == Init => Claims
BY DEF Init, Claims, Claiming, Claimed

(* A step of one process touches the claims of no other. *)
LEMMA OthersClaims ==
    ASSUME IInv, Claims, NEW e \in Engines, Claiming(e)',
           now' = now, active' = active,
           \A f \in Engines \ {e} : /\ pc'[f] = pc[f] /\ began'[f] = began[f]
                                    /\ batch'[f] = batch[f] /\ stampFailed'[f] = stampFailed[f]
    PROVE  Claims'
BY DEF Claims, Claiming, Claimed

LEMMA CheckClaims ==
    ASSUME IInv, Claims, NEW e \in Engines, Check(e)
    PROVE  Claims'
<1> USE DEF IInv, TypeOK, Goto
<1>1. ASSUME Begin(e) PROVE Claims'
  <2>1. /\ pc[e] = "sleep" /\ pc' = [pc EXCEPT ![e] = "select"]
        /\ began' = [began EXCEPT ![e] = now]
        /\ UNCHANGED <<now, active, interval, lastChecked, batch, stampFailed>>
      BY <1>1 DEF Begin
  <2>2. Claiming(e)'
      BY <2>1 DEF Claims, Claiming, Claimed
  <2> QED BY <2>1, <2>2, OthersClaims
<1>2. ASSUME SelectDue(e) PROVE Claims'
  <2>1. PICK s \in SUBSET Claimable(e) :
          /\ batch' = [batch EXCEPT ![e] = s]
          /\ pc[e] = "select"
          /\ pc' = [pc EXCEPT ![e] = IF s = {} THEN "sleep" ELSE "stamp"]
      BY <1>2 DEF SelectDue, Oldest, Batches
  <2>2. UNCHANGED <<now, active, interval, lastChecked, began, stampFailed>>
      BY <1>2 DEF SelectDue
  <2>3. s \subseteq active
      BY <2>1 DEF Claimable, Due
  <2>4. Claiming(e)'
      BY <2>1, <2>2, <2>3 DEF Claims, Claiming, Claimed
  <2> QED BY <2>1, <2>2, <2>4, OthersClaims
<1>3. ASSUME SelectFails(e) \/ Stamp(e) \/ StampFails(e) PROVE Claims'
  <2>1. Claiming(e)'
      BY <1>3 DEF SelectFails, Stamp, StampFails, Claims, Claiming, Claimed
  <2> QED BY <1>3, <2>1, OthersClaims DEF SelectFails, Stamp, StampFails
<1>4. ASSUME CommitClaim(e) \/ CommitClaimFails(e) PROVE Claims'
  <2>1. Claiming(e)'
      BY <1>4 DEF CommitClaim, CommitClaimFails, Claims, Claiming, Claimed
  <2> QED BY <1>4, <2>1, OthersClaims DEF CommitClaim, CommitClaimFails
<1>5. ASSUME NEW m \in Monitors, WriteResult(e, m) PROVE Claims'
  <2>1. Claiming(e)'
      BY <1>5 DEF WriteResult, Claims, Claiming, Claimed
  <2> QED BY <1>5, <2>1, OthersClaims DEF WriteResult
<1>6. ASSUME EndRound(e) \/ Crash(e) PROVE Claims'
  <2>1. Claiming(e)'
      BY <1>6 DEF EndRound, Crash, Claims, Claiming, Claimed
  <2> QED BY <1>6, <2>1, OthersClaims DEF EndRound, Crash
<1> QED BY <1>1, <1>2, <1>3, <1>4, <1>5, <1>6 DEF Check

LEMMA NextClaims == IInv /\ Claims /\ [Next]_vars => Claims'
<1> SUFFICES ASSUME IInv, Claims, [Next]_vars PROVE Claims'
    OBVIOUS
<1>1. ASSUME NEW e \in Engines, Check(e) PROVE Claims'
    BY <1>1, CheckClaims
<1>2. ASSUME NEW m \in Monitors, Patch(m) PROVE Claims'
  <2>1. /\ \A e \in Engines : m \notin Claimed(e)
        /\ active' = active \ {m} \/ active' = active \cup {m}
        /\ UNCHANGED <<now, pc, began, batch, stampFailed>>
      BY <1>2 DEF Patch, Locked
  <2>2. \A e \in Engines : Claimed(e)' = Claimed(e)
      BY <2>1 DEF Claimed
  <2> QED BY <2>1, <2>2 DEF Claims, Claiming
<1>3. CASE Tick
  <2>1. now \in Nat /\ now' = now + 1 /\ \A e \in Engines : began[e] \in Nat
      BY <1>3, MaxTimeAssumption DEF Tick, IInv, TypeOK
  <2> QED BY <1>3, <2>1 DEF Tick, Claims, Claiming, Claimed
<1>4. CASE UNCHANGED vars
    BY <1>4 DEF vars, Claims, Claiming, Claimed
<1> QED BY <1>1, <1>2, <1>3, <1>4 DEF Next

Probing == [e \in Engines |-> IF pc[e] = "check" THEN batch[e] ELSE {}]

(* What a process probes after a step of its own *)
LEMMA ProbingOf ==
    ASSUME IInv, NEW e \in Engines, NEW place, NEW rest,
           pc' = [pc EXCEPT ![e] = place], batch' = [batch EXCEPT ![e] = rest]
    PROVE  Probing' = [Probing EXCEPT ![e] = IF place = "check" THEN rest ELSE {}]
<1>1. /\ pc'[e] = place /\ batch'[e] = rest
      /\ \A f \in Engines \ {e} : pc'[f] = pc[f] /\ batch'[f] = batch[f]
    BY DEF IInv, TypeOK
<1> QED BY <1>1 DEF Probing

(* The COMMIT of a claim is the claim, if it commits. *)
LEMMA CommitIsClaim ==
    ASSUME IInv, Claims, NEW e \in Engines, pc[e] = "commit", ~stampFailed[e],
           lastChecked' = Stamped(e), UNCHANGED <<now, active, interval>>,
           \/ Probing' = [Probing EXCEPT ![e] = batch[e]]
           \/ Probing' = Probing
    PROVE  Schedule!Next
<1> DEFINE claimed == {m \in Monitors : lastChecked'[m] # lastChecked[m]}
<1>1. /\ Claimed(e) = batch[e] /\ batch[e] # {} /\ batch[e] \subseteq active
      /\ batch[e] \subseteq Monitors /\ began[e] \in 1 .. now
    BY MaxTimeAssumption DEF Claims, Claiming, Claimed, IInv, TypeOK
<1>2. lastChecked' = [m \in Monitors |-> IF m \in batch[e] THEN began[e] ELSE lastChecked[m]]
    BY DEF Stamped
<1>3. ASSUME NEW m \in batch[e] PROVE Schedule!Due(m, began[e]) /\ began[e] # lastChecked[m]
  <2>1. lastChecked[m] = Never \/ lastChecked[m] + interval[m] <= began[e]
      BY <1>1 DEF IInv, ClaimsStillDue
  <2>2. interval[m] \in Nat \ {0} /\ lastChecked[m] \in Nat
    <3>1. m \in Monitors
        BY <1>1
    <3>2. interval[m] \in Intervals /\ lastChecked[m] \in 0 .. MaxTime
        BY <3>1 DEF IInv, TypeOK
    <3>3. interval[m] \in Nat \ {0}
        BY <3>2, IntervalsAssumption
    <3>4. lastChecked[m] \in Nat
        BY <3>2, MaxTimeAssumption
    <3> QED BY <3>3, <3>4
  <2>3. began[e] # lastChecked[m]
      BY <1>1, <2>1, <2>2 DEF Never
  <2> QED BY <2>1, <2>3 DEF Schedule!Due, Never, Schedule!Never
<1>4. claimed = batch[e]
    BY <1>1, <1>2, <1>3
<1>5. Probing[e] = {}
    BY DEF Probing
<1>6. Schedule!Claim(e, began[e])
    BY <1>1, <1>2, <1>3, <1>4, <1>5 DEF Schedule!Claim, Schedule!Probe, Probing
<1> QED BY <1>1, <1>6 DEF Schedule!Next

LEMMA CheckIsSchedule ==
    ASSUME IInv, Claims, NEW e \in Engines, Check(e)
    PROVE  Schedule!Next \/ UNCHANGED Schedule!scheduleVars
<1> USE DEF Goto
<1>1. UNCHANGED <<now, active, interval>>
    BY DEF Check, Begin, SelectDue, SelectFails, Stamp, StampFails, CommitClaim,
        CommitClaimFails, WriteResult, EndRound, Crash
<1>2. ASSUME NEW rest \in SUBSET Probing[e], UNCHANGED lastChecked,
             Probing' = [Probing EXCEPT ![e] = rest]
      PROVE  Schedule!Next
    BY <1>1, <1>2 DEF Schedule!Next, Schedule!Finish, Probing
<1>3. ASSUME UNCHANGED lastChecked, Probing' = Probing
      PROVE  UNCHANGED Schedule!scheduleVars
    BY <1>1, <1>3 DEF Schedule!scheduleVars, Probing
<1>4. CASE Begin(e) \/ SelectFails(e) \/ Stamp(e) \/ StampFails(e)
  <2>1. Probing' = Probing
      BY <1>4 DEF Begin, SelectFails, Stamp, StampFails, Probing, IInv, TypeOK
  <2> QED BY <1>3, <1>4, <2>1 DEF Begin, SelectFails, Stamp, StampFails
<1>5. CASE SelectDue(e)
  <2>1. Probing' = Probing
      BY <1>5 DEF SelectDue, Probing, IInv, TypeOK
  <2> QED BY <1>3, <1>5, <2>1 DEF SelectDue
<1>6. CASE CommitClaim(e)
  <2>1. batch' = [batch EXCEPT ![e] = batch[e]]
      BY <1>6 DEF CommitClaim, IInv, TypeOK
  <2>2. Probing' = [Probing EXCEPT ![e] = batch[e]]
      BY <1>6, <2>1, ProbingOf DEF CommitClaim
  <2>3. CASE stampFailed[e]
    <3>1. lastChecked' = lastChecked
        BY <1>6, <2>3 DEF CommitClaim, Stamped, IInv, TypeOK
    <3>2. Probing[e] = {} /\ batch[e] \in SUBSET Monitors
        BY <1>6 DEF CommitClaim, Probing, IInv, TypeOK
    <3> QED BY <1>1, <2>2, <3>1, <3>2
            DEF Schedule!Next, Schedule!ProbeUnstamped, Schedule!Probe, Probing
  <2>4. CASE ~stampFailed[e]
      BY <1>1, <1>6, <2>2, <2>4, CommitIsClaim DEF CommitClaim
  <2> QED BY <2>3, <2>4
<1>7. CASE CommitClaimFails(e)
  <2>1. Probing' = Probing
      BY <1>7 DEF CommitClaimFails, Probing, IInv, TypeOK
  <2>2. CASE lastChecked' = lastChecked
      BY <1>3, <2>1, <2>2
  <2>3. CASE lastChecked' = Stamped(e) /\ lastChecked' # lastChecked
    <3>1. ~stampFailed[e]
        BY <2>3 DEF Stamped, IInv, TypeOK
    <3> QED BY <1>1, <1>7, <2>1, <2>3, <3>1, CommitIsClaim DEF CommitClaimFails
  <2> QED BY <1>7, <2>2, <2>3 DEF CommitClaimFails
<1>8. ASSUME NEW m \in Monitors, WriteResult(e, m) PROVE Schedule!Next
  <2>1. /\ pc[e] = "check" /\ batch' = [batch EXCEPT ![e] = batch[e] \ {m}]
        /\ pc' = [pc EXCEPT ![e] = "check"] /\ lastChecked' = lastChecked
      BY <1>8 DEF WriteResult, IInv, TypeOK
  <2>2. Probing' = [Probing EXCEPT ![e] = batch[e] \ {m}] /\ Probing[e] = batch[e]
      BY <2>1, ProbingOf DEF Probing
  <2> QED BY <1>2, <2>1, <2>2
<1>9. CASE EndRound(e)
  <2>1. Probing' = Probing
      BY <1>9 DEF EndRound, Probing, IInv, TypeOK
  <2> QED BY <1>3, <1>9, <2>1 DEF EndRound
<1>10. CASE Crash(e)
  <2>1. Probing' = [Probing EXCEPT ![e] = {}]
      BY <1>10, ProbingOf DEF Crash
  <2> QED BY <1>2, <1>10, <2>1 DEF Crash
<1> QED BY <1>4, <1>5, <1>6, <1>7, <1>8, <1>9, <1>10 DEF Check

LEMMA StepsAreSteps ==
    IInv /\ Claims /\ [Next]_vars => [Schedule!Next]_(Schedule!scheduleVars)
<1> SUFFICES ASSUME IInv, Claims, [Next]_vars
             PROVE  Schedule!Next \/ UNCHANGED Schedule!scheduleVars
    OBVIOUS
<1>1. ASSUME NEW e \in Engines, Check(e)
      PROVE  Schedule!Next \/ UNCHANGED Schedule!scheduleVars
    BY <1>1, CheckIsSchedule
<1>2. ASSUME NEW m \in Monitors, Patch(m) PROVE Schedule!Next
  <2>1. active' \ {m} = active \ {m} /\ UNCHANGED <<now, lastChecked, pc, batch>>
      BY <1>2 DEF Patch
  <2> QED BY <1>2, <2>1 DEF Patch, Schedule!Next, Schedule!Patch
<1>3. CASE Tick
    BY <1>3 DEF Tick, Schedule!Next, Schedule!Tick
<1>4. CASE UNCHANGED vars
    BY <1>4 DEF vars, Schedule!scheduleVars
<1> QED BY <1>1, <1>2, <1>3, <1>4 DEF Next

(* Claims are atomic for any number of processes, whatever they and the API *)
(* do between the statements of one: each that commits stamps monitors that *)
(* are active and due at that moment.                                       *)
THEOREM ClaimsAreAtomic == Spec => ImplementsSchedule
<1>1. Init => Schedule!Init
    BY DEF Init, Schedule!Init, Never, Schedule!Never
<1>2. Spec => []Claims
    BY AlwaysIInv, InitClaims, NextClaims, PTL DEF Spec
<1> QED BY <1>1, <1>2, AlwaysIInv, StepsAreSteps, PTL DEF Spec, ImplementsSchedule, Schedule!Spec

-----------------------------------------------------------------------------
(* Turns.  A claim that leaves m behind is full, and its COMMIT moves the    *)
(* whole batch from the monitors checked no later than m to those checked    *)
(* later.  Nothing but a stamp of m takes them back, and they are fewer than *)
(* all.                                                                      *)
Ahead(m) == {n \in Monitors : lastChecked[n] > lastChecked[m]}

LeftBehind(e) ==
    /\ pc[e] \notin {"stamp", "commit"} => left[e] = {}
    /\ \A m \in left[e] :
          /\ m \notin batch[e]
          /\ lastChecked[m] < began[e]
          /\ Cardinality(batch[e]) = BatchLimit
          /\ \A n \in Claimed(e) : lastChecked[n] <= lastChecked[m]

Overtaken(m) == passedOver[m] * BatchLimit <= Cardinality(Ahead(m))

Turns == (\A e \in Engines : LeftBehind(e)) /\ (\A m \in Monitors : Overtaken(m))

LEMMA SubsetsAreFinite ==
    ASSUME NEW s \in SUBSET Monitors
    PROVE  IsFiniteSet(s) /\ Cardinality(s) \in Nat /\ Cardinality(s) <= Cardinality(Monitors)
BY MonitorsAssumption, FS_Subset, FS_CardinalityType

LEMMA Times ==
    ASSUME NEW k \in Nat
    PROVE  /\ k * BatchLimit \in Nat
           /\ (k + 1) * BatchLimit = k * BatchLimit + BatchLimit
           /\ 0 * BatchLimit = 0
BY BatchLimitAssumption, Z3

LEMMA StampTypes ==
    ASSUME TypeOK
    PROVE  /\ \A m \in Monitors : lastChecked[m] \in Nat /\ interval[m] \in Nat \ {0}
           /\ \A e \in Engines : began[e] \in Nat \ {0}
<1>1. \A m \in Monitors : lastChecked[m] \in 0 .. MaxTime /\ interval[m] \in Intervals
    BY DEF TypeOK
<1>2. \A e \in Engines : began[e] \in 1 .. MaxTime
    BY DEF TypeOK
<1>3. \A m \in Monitors : lastChecked[m] \in Nat
    BY <1>1, MaxTimeAssumption
<1>4. \A m \in Monitors : interval[m] \in Nat \ {0}
    BY <1>1, IntervalsAssumption
<1>5. \A e \in Engines : began[e] \in Nat \ {0}
    BY <1>2, MaxTimeAssumption
<1> QED BY <1>3, <1>4, <1>5

LEMMA DisjointUnion ==
    ASSUME NEW S, NEW T, IsFiniteSet(S), IsFiniteSet(T), S \cap T = {}
    PROVE  IsFiniteSet(S \cup T) /\ Cardinality(S \cup T) = Cardinality(S) + Cardinality(T)
<1>1. /\ IsFiniteSet(S \cup T)
      /\ Cardinality(S \cup T) = Cardinality(S) + Cardinality(T) - Cardinality(S \cap T)
    BY FS_Union
<1>2. Cardinality(S \cap T) = 0
    BY FS_EmptySet
<1>3. Cardinality(S) \in Nat /\ Cardinality(T) \in Nat
    BY FS_CardinalityType
<1> QED BY <1>1, <1>2, <1>3

(* The LIMIT leaves something behind only when the batch is full. *)
LEMMA FullBatch ==
    ASSUME NEW due \in SUBSET Monitors, NEW s \in Batches(due), due \ s # {}
    PROVE  Cardinality(s) = BatchLimit
<1>1. s \in SUBSET due /\ s # due
    BY DEF Batches
<1>2. IsFiniteSet(due)
    BY SubsetsAreFinite
<1>3. Cardinality(s) # Cardinality(due)
    BY <1>1, <1>2, FS_Subset
<1> QED BY <1>3 DEF Batches

LEMMA InitTurns == Init => Turns
<1> SUFFICES ASSUME Init PROVE Turns
    OBVIOUS
<1>1. \A m \in Monitors : Cardinality(Ahead(m)) \in Nat
    BY SubsetsAreFinite DEF Ahead
<1>2. \A m \in Monitors : Overtaken(m)
    BY <1>1, Times DEF Init, Overtaken
<1> QED BY <1>2 DEF Init, Turns, LeftBehind

(* A step that stamps nothing and goes on or ends with its claim *)
LEMMA QuietTurns ==
    ASSUME Turns, lastChecked' = lastChecked, passedOver' = passedOver,
           \A f \in Engines :
              \/ left'[f] = {}
              \/ /\ left'[f] = left[f] /\ began'[f] = began[f] /\ batch'[f] = batch[f]
                 /\ pc'[f] = pc[f] \/ pc'[f] = "commit"
                 /\ Claimed(f)' \subseteq Claimed(f)
    PROVE  Turns'
<1>1. \A m \in Monitors : Overtaken(m)'
    BY DEF Turns, Overtaken, Ahead
<1>2. \A f \in Engines : LeftBehind(f)'
    BY DEF Turns, LeftBehind
<1> QED BY <1>1, <1>2 DEF Turns

LEMMA SelectTurns ==
    ASSUME IInv, Turns, NEW e \in Engines, SelectDue(e)
    PROVE  Turns'
<1>1. PICK inserting \in SUBSET Monitors : \E s \in Oldest(Claimable(e) \ inserting) :
        /\ batch' = [batch EXCEPT ![e] = s]
        /\ left' = [left EXCEPT ![e] = (Claimable(e) \ inserting) \ s]
        /\ Goto(e, "select", IF s = {} THEN "sleep" ELSE "stamp")
    BY DEF SelectDue
<1> DEFINE due == Claimable(e) \ inserting
<1>2. PICK s \in Oldest(due) :
        /\ batch' = [batch EXCEPT ![e] = s]
        /\ left' = [left EXCEPT ![e] = due \ s]
        /\ Goto(e, "select", IF s = {} THEN "sleep" ELSE "stamp")
    BY <1>1
<1>3. UNCHANGED <<now, active, interval, lastChecked, began, stampFailed, passedOver>>
    BY DEF SelectDue
<1>4. /\ batch'[e] = s /\ left'[e] = due \ s
      /\ pc'[e] = IF s = {} THEN "sleep" ELSE "stamp"
      /\ \A f \in Engines \ {e} : /\ batch'[f] = batch[f] /\ left'[f] = left[f]
                                  /\ pc'[f] = pc[f]
    BY <1>2 DEF IInv, TypeOK, Goto
<1>5. due \in SUBSET Monitors /\ s \in Batches(due) /\ s \in SUBSET due
    BY DEF Claimable, Oldest, Batches
<1>6. ASSUME NEW m \in due \ s
      PROVE  /\ lastChecked[m] < began[e]
             /\ Cardinality(s) = BatchLimit
             /\ s # {}
             /\ \A n \in s : lastChecked[n] <= lastChecked[m]
  <2>1. Cardinality(s) = BatchLimit
      BY <1>5, FullBatch
  <2>2. s # {}
      BY <2>1, BatchLimitAssumption, FS_EmptySet
  <2>3. Due(m, began[e]) /\ m \in Monitors
      BY DEF Claimable
  <2>4. lastChecked[m] < began[e]
      BY <2>3, StampTypes DEF Due, Never, IInv
  <2>5. \A n \in s : lastChecked[n] <= lastChecked[m]
      BY DEF Oldest
  <2> QED BY <2>1, <2>2, <2>4, <2>5
<1>7. LeftBehind(e)'
  <2>1. Claimed(e)' \subseteq s
      BY <1>4 DEF Claimed
  <2> QED BY <1>3, <1>4, <1>6, <2>1 DEF LeftBehind
<1>8. \A f \in Engines \ {e} : LeftBehind(f)'
    BY <1>3, <1>4 DEF Turns, LeftBehind, Claimed
<1>9. \A m \in Monitors : Overtaken(m)'
    BY <1>3 DEF Turns, Overtaken, Ahead
<1> QED BY <1>7, <1>8, <1>9 DEF Turns

(* A claim that commits *)
LEMMA CommitTurns ==
    ASSUME IInv, Turns, NEW e \in Engines, pc[e] = "commit", pc'[e] \notin {"stamp", "commit"},
           lastChecked' = Stamped(e), Turn(e, Claimed(e)), began' = began,
           \A f \in Engines \ {e} : /\ pc'[f] = pc[f] /\ batch'[f] = batch[f]
                                    /\ stampFailed'[f] = stampFailed[f]
    PROVE  Turns'
<1> DEFINE stamped == Claimed(e)
<1>t. /\ stamped \in SUBSET Monitors
      /\ \A m \in Monitors : passedOver[m] \in Nat /\ lastChecked[m] \in Nat
      /\ began[e] \in Nat
    BY StampTypes DEF IInv, TypeOK, Claimed
<1>1. lastChecked' = [m \in Monitors |-> IF m \in stamped THEN began[e] ELSE lastChecked[m]]
    BY DEF Stamped, Claimed
<1>2. /\ left' = [f \in Engines |-> IF f = e THEN {} ELSE left[f] \ stamped]
      /\ passedOver' = [m \in Monitors |->
            IF m \in stamped THEN 0
            ELSE IF stamped # {} /\ m \in left[e] THEN passedOver[m] + 1 ELSE passedOver[m]]
    BY DEF Turn
<1>3. \A n \in stamped : lastChecked[n] <= began[e]
  <2> SUFFICES ASSUME NEW n \in stamped PROVE lastChecked[n] <= began[e]
      OBVIOUS
  <2>1. lastChecked[n] = Never \/ lastChecked[n] + interval[n] <= began[e]
      BY DEF IInv, ClaimsStillDue
  <2> QED BY <2>1, <1>t, StampTypes DEF Never, IInv
<1>4. ASSUME NEW f \in Engines PROVE LeftBehind(f)'
  <2>1. CASE f = e
      BY <1>2, <2>1 DEF LeftBehind
  <2>2. CASE f # e
    <3>1. Claimed(f)' = Claimed(f) /\ Claimed(f) \cap stamped = {} /\ Claimed(f) \subseteq Monitors
        BY <2>2 DEF Claimed, IInv, ClaimsExclusive, TypeOK
    <3>2. left'[f] = left[f] \ stamped /\ left[f] \subseteq Monitors
        BY <1>2, <2>2 DEF IInv, TypeOK
    <3>3. \A m \in left'[f] \cup Claimed(f) : lastChecked'[m] = lastChecked[m]
        BY <1>1, <3>1, <3>2
    <3> QED BY <2>2, <3>1, <3>2, <3>3 DEF Turns, LeftBehind
  <2> QED BY <2>1, <2>2
<1>5. ASSUME NEW m \in Monitors PROVE Overtaken(m)'
  <2> DEFINE before == Ahead(m)
             after  == Ahead(m)'
  <2>1. /\ IsFiniteSet(before) /\ IsFiniteSet(after) /\ IsFiniteSet(stamped)
        /\ Cardinality(before) \in Nat /\ Cardinality(after) \in Nat
      BY <1>t, SubsetsAreFinite DEF Ahead
  <2>2. CASE m \in stamped
      BY <1>2, <2>1, <2>2, Times DEF Overtaken
  <2>3. CASE m \notin stamped
    <3>1. lastChecked'[m] = lastChecked[m]
        BY <1>1, <2>3
    <3>2. before \subseteq after
        BY <1>1, <1>3, <1>t, <3>1 DEF Ahead
    <3>3. Cardinality(before) <= Cardinality(after)
        BY <2>1, <3>2, FS_Subset
    <3>4. CASE ~(stamped # {} /\ m \in left[e])
      <4>1. passedOver'[m] = passedOver[m]
          BY <1>2, <2>3, <3>4
      <4> QED BY <1>t, <2>1, <3>3, <4>1, Times DEF Turns, Overtaken
    <3>5. CASE stamped # {} /\ m \in left[e]
      <4>1. passedOver'[m] = passedOver[m] + 1
          BY <1>2, <2>3, <3>5
      <4>2. stamped = batch[e] /\ Cardinality(stamped) = BatchLimit
          BY <3>5 DEF Turns, LeftBehind, Claimed
      <4>3. lastChecked[m] < began[e] /\ \A n \in stamped : lastChecked[n] <= lastChecked[m]
          BY <3>5 DEF Turns, LeftBehind
      <4>4. stamped \subseteq after /\ stamped \cap before = {}
          BY <1>1, <1>t, <3>1, <4>3 DEF Ahead
      <4>5. IsFiniteSet(before \cup stamped)
            /\ Cardinality(before \cup stamped) = Cardinality(before) + BatchLimit
        <5>1. before \cap stamped = {}
            BY <4>4
        <5> QED BY <2>1, <4>2, <5>1, DisjointUnion
      <4>6. Cardinality(before \cup stamped) <= Cardinality(after)
          BY <2>1, <3>2, <4>4, FS_Subset
      <4>7. passedOver[m] * BatchLimit <= Cardinality(before)
          BY DEF Turns, Overtaken
      <4>8. passedOver'[m] * BatchLimit <= Cardinality(after)
        <5>1. (passedOver[m] + 1) * BatchLimit = passedOver[m] * BatchLimit + BatchLimit
              /\ passedOver[m] * BatchLimit \in Nat
            BY <1>t, Times
        <5> QED BY <2>1, <4>1, <4>5, <4>6, <4>7, <5>1, BatchLimitAssumption
      <4> QED BY <4>8 DEF Overtaken
    <3> QED BY <3>4, <3>5
  <2> QED BY <2>2, <2>3
<1> QED BY <1>4, <1>5 DEF Turns

LEMMA CheckTurns ==
    ASSUME IInv, Turns, NEW e \in Engines, Check(e)
    PROVE  Turns'
<1> USE DEF Goto
<1>t. /\ DOMAIN pc = Engines /\ DOMAIN batch = Engines /\ DOMAIN left = Engines
      /\ left \in [Engines -> SUBSET Monitors] /\ passedOver \in [Monitors -> Nat]
      /\ pc \in [Engines -> {"sleep", "select", "stamp", "commit", "check"}]
      /\ batch \in [Engines -> SUBSET Monitors] /\ began \in [Engines -> 1 .. MaxTime]
      /\ stampFailed \in [Engines -> BOOLEAN]
    BY DEF IInv, TypeOK
<1>i. pc[e] \notin {"stamp", "commit"} => left[e] = {}
    BY DEF Turns, LeftBehind
<1>1. CASE Begin(e)
    BY <1>1, <1>t, <1>i, QuietTurns DEF Begin, turns, Claimed
<1>2. CASE SelectDue(e)
    BY <1>2, SelectTurns
<1>3. CASE SelectFails(e)
    BY <1>3, <1>t, <1>i, QuietTurns DEF SelectFails, turns, Claimed
<1>4. CASE Stamp(e)
    BY <1>4, <1>t, QuietTurns DEF Stamp, turns, Claimed
<1>5. CASE StampFails(e)
    BY <1>5, <1>t, QuietTurns DEF StampFails, turns, Claimed
<1>6. ASSUME pc[e] = "commit", UNCHANGED lastChecked, Turn(e, {}), began' = began,
             \A f \in Engines \ {e} : /\ pc'[f] = pc[f] /\ batch'[f] = batch[f]
                                      /\ stampFailed'[f] = stampFailed[f]
      PROVE  Turns'
  <2>1. left' = [f \in Engines |-> IF f = e THEN {} ELSE left[f]] /\ passedOver' = passedOver
      BY <1>6, <1>t DEF Turn
  <2> QED BY <1>6, <2>1, QuietTurns DEF Claimed
<1>7. CASE CommitClaim(e)
  <2>1. /\ pc[e] = "commit" /\ pc'[e] = "check" /\ began' = began
        /\ \A f \in Engines \ {e} : /\ pc'[f] = pc[f] /\ batch'[f] = batch[f]
                                    /\ stampFailed'[f] = stampFailed[f]
      BY <1>7, <1>t DEF CommitClaim
  <2> QED BY <1>7, <2>1, CommitTurns DEF CommitClaim
<1>8. CASE CommitClaimFails(e)
  <2>1. /\ pc[e] = "commit" /\ pc'[e] = "sleep" /\ began' = began
        /\ \A f \in Engines \ {e} : /\ pc'[f] = pc[f] /\ batch'[f] = batch[f]
                                    /\ stampFailed'[f] = stampFailed[f]
      BY <1>8, <1>t DEF CommitClaimFails
  <2>2. \/ lastChecked' = Stamped(e) /\ Turn(e, Claimed(e))
        \/ UNCHANGED lastChecked /\ Turn(e, {})
      BY <1>8 DEF CommitClaimFails
  <2> QED BY <2>1, <2>2, <1>6, CommitTurns
<1>9. ASSUME NEW m \in Monitors, WriteResult(e, m) PROVE Turns'
    BY <1>9, <1>t, <1>i, QuietTurns DEF WriteResult, turns, Claimed
<1>10. CASE EndRound(e)
    BY <1>10, <1>t, <1>i, QuietTurns DEF EndRound, turns, Claimed
<1>11. CASE Crash(e)
    BY <1>11, <1>t, QuietTurns DEF Crash, Claimed
<1> QED BY <1>1, <1>2, <1>3, <1>4, <1>5, <1>7, <1>8, <1>9, <1>10, <1>11 DEF Check

LEMMA NextTurns == IInv /\ Turns /\ [Next]_vars => Turns'
<1> SUFFICES ASSUME IInv, Turns, [Next]_vars PROVE Turns'
    OBVIOUS
<1>1. ASSUME NEW e \in Engines, Check(e) PROVE Turns'
    BY <1>1, CheckTurns
<1>2. ASSUME NEW m \in Monitors, Patch(m) PROVE Turns'
    BY <1>2, QuietTurns DEF Patch, turns, Claimed
<1>3. CASE Tick
    BY <1>3, QuietTurns DEF Tick, turns, Claimed
<1>4. CASE UNCHANGED vars
    BY <1>4, QuietTurns DEF vars, Claimed
<1> QED BY <1>1, <1>2, <1>3, <1>4 DEF Next

(* A due monitor waits for a bounded number of claims: with a batch limit   *)
(* of B, fewer than N / B claims that committed may have left it behind     *)
(* since it was last stamped, N being all monitors there ever were, however *)
(* many processes claim, fail, crash or lose the answer of their COMMIT.    *)
THEOREM WaitsAreBounded == Spec => []PassedOverInTurn
<1>1. IInv /\ Turns => PassedOverInTurn
  <2> SUFFICES ASSUME IInv, Turns, NEW m \in Monitors
               PROVE  passedOver[m] * BatchLimit < Cardinality(Monitors)
      BY DEF PassedOverInTurn
  <2>1. Ahead(m) \in SUBSET Monitors /\ m \notin Ahead(m)
      BY StampTypes DEF Ahead, IInv
  <2>2. /\ Cardinality(Ahead(m)) \in Nat /\ Cardinality(Monitors) \in Nat
        /\ Cardinality(Ahead(m)) <= Cardinality(Monitors)
        /\ Cardinality(Ahead(m)) # Cardinality(Monitors)
    <3>1. Ahead(m) # Monitors
        BY <2>1
    <3> QED BY <2>1, <3>1, SubsetsAreFinite, MonitorsAssumption, FS_Subset, FS_CardinalityType
  <2>3. passedOver[m] * BatchLimit \in Nat
      BY Times DEF IInv, TypeOK
  <2> QED BY <2>2, <2>3 DEF Turns, Overtaken
<1> QED BY <1>1, InitTurns, NextTurns, AlwaysIInv, PTL DEF Spec

-----------------------------------------------------------------------------
(* No stamping UPDATE has failed in an open claim. *)
NoStampFailed == \A e \in Engines : ~stampFailed[e]

LEMMA ProbedStep ==
    ASSUME IInv, NoStampFailed, ProbedOnlyIfStamped, [Next]_vars
    PROVE  ProbedOnlyIfStamped'
<1> USE DEF Goto
<1>t. /\ pc \in [Engines -> {"sleep", "select", "stamp", "commit", "check"}]
      /\ batch \in [Engines -> SUBSET Monitors] /\ began \in [Engines -> 1 .. MaxTime]
    BY DEF IInv, TypeOK
<1>n. \A e \in Engines : began[e] \in Nat
    BY StampTypes DEF IInv
(* Stamps never go back. *)
<1>f. \A m \in Monitors : lastChecked[m] \in Nat /\ lastChecked'[m] \in Nat
                          /\ lastChecked[m] <= lastChecked'[m]
  <2>1. \A m \in Monitors : lastChecked[m] \in Nat /\ interval[m] \in Nat \ {0}
      BY StampTypes DEF IInv
  <2>2. ASSUME NEW e \in Engines, CommitClaim(e) \/ CommitClaimFails(e), lastChecked' = Stamped(e),
               NEW m \in Monitors
        PROVE  lastChecked'[m] \in Nat /\ lastChecked[m] <= lastChecked'[m]
    <3>1. CASE m \in Claimed(e)
      <4>1. lastChecked'[m] = began[e]
          BY <2>2, <3>1 DEF Stamped, Claimed
      <4>2. lastChecked[m] = Never \/ lastChecked[m] + interval[m] <= began[e]
          BY <3>1 DEF IInv, ClaimsStillDue
      <4> QED BY <1>n, <2>1, <4>1, <4>2 DEF Never
    <3>2. CASE m \notin Claimed(e)
      <4>1. lastChecked'[m] = lastChecked[m]
          BY <2>2, <3>2 DEF Stamped, Claimed, CommitClaim, CommitClaimFails
      <4> QED BY <2>1, <4>1
    <3> QED BY <3>1, <3>2
  <2>3. \/ lastChecked' = lastChecked
        \/ \E e \in Engines : (CommitClaim(e) \/ CommitClaimFails(e)) /\ lastChecked' = Stamped(e)
      BY DEF Next, vars, turns, Check, Begin, SelectDue, SelectFails, Stamp, StampFails,
          CommitClaim, CommitClaimFails, WriteResult, EndRound, Crash, Patch, Tick
  <2> QED BY <2>1, <2>2, <2>3
<1>1. ASSUME NEW f \in Engines, pc[f] = "check", began'[f] = began[f], batch'[f] \subseteq batch[f]
      PROVE  \A m \in batch'[f] : began'[f] <= lastChecked'[m]
    BY <1>1, <1>t, <1>n, <1>f DEF ProbedOnlyIfStamped
<1>2. ASSUME NEW e \in Engines, Check(e), NEW f \in Engines, pc'[f] = "check"
      PROVE  \A m \in batch'[f] : began'[f] <= lastChecked'[m]
  <2>1. CASE f # e \/ ~CommitClaim(e)
    <3>1. pc[f] = "check" /\ began'[f] = began[f] /\ batch'[f] \subseteq batch[f]
        BY <1>2, <1>t, <2>1 DEF Check, Begin, SelectDue, SelectFails, Stamp, StampFails,
           CommitClaim, CommitClaimFails, WriteResult, EndRound, Crash
    <3> QED BY <1>1, <3>1
  <2>2. CASE f = e /\ CommitClaim(e)
    <3>1. ~stampFailed[e] /\ batch' = batch /\ began' = began /\ lastChecked' = Stamped(e)
        BY <2>2 DEF NoStampFailed, CommitClaim
    <3>2. \A m \in batch[e] : lastChecked'[m] = began[e]
        BY <1>t, <3>1 DEF Stamped
    <3> QED BY <1>n, <2>2, <3>1, <3>2
  <2> QED BY <2>1, <2>2
<1>3. CASE UNCHANGED <<pc, began, batch>>
    BY <1>1, <1>3 DEF ProbedOnlyIfStamped
<1>4. CASE (\E m \in Monitors : Patch(m)) \/ Tick \/ UNCHANGED vars
    BY <1>3, <1>4 DEF Patch, Tick, vars
<1> QED BY <1>2, <1>4 DEF Next, ProbedOnlyIfStamped

(* Only a stamping UPDATE that fails lets monitors be probed that were not   *)
(* stamped: no COMMIT that errs, no crash, no other process does.            *)
THEOREM OnlyFailedStampsProbe == Spec /\ []NoStampFailed => []ProbedOnlyIfStamped
<1>1. Init => ProbedOnlyIfStamped
    BY DEF Init, ProbedOnlyIfStamped
<1>2. IInv /\ NoStampFailed /\ ProbedOnlyIfStamped /\ [Next]_vars => ProbedOnlyIfStamped'
    BY ProbedStep
<1> QED BY <1>1, <1>2, AlwaysIInv, PTL DEF Spec

=============================================================================
