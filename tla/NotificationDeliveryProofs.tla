--------------------- MODULE NotificationDeliveryProofs ---------------------
(***************************************************************************)
(* Theorems about NotificationDelivery for any number of rows, of workers, *)
(* of faults and any batch limit.                                          *)
(***************************************************************************)
EXTENDS NotificationDelivery, FiniteSetTheorems, TLAPS

(* What a worker's transaction holds, and where in it a row can be *)
InTransaction(w) ==
    /\ queue[w] \subseteq batch[w]
    /\ marking[w] \subseteq batch[w] \ queue[w]
    /\ staged[w] \subseteq batch[w] \ queue[w]
    /\ pc[w] = "sleep" => batch[w] = {} /\ ~aborted[w]
    /\ pc[w] = "deliver" => marking[w] = {}
    /\ aborted[w] => staged[w] = {}
    /\ \A n \in marking[w] \cup staged[w] : received[n] > 0

(* A row is held by one worker at most, and no row that is held was sent *)
HeldOnce ==
    /\ \A w, v \in Workers : w # v => Held(w) \cap Held(v) = {}
    /\ \A w \in Workers : Held(w) \cap sent = {}

(* The row is sent, or will be when the transaction that delivered it commits *)
Done(n) == n \in sent \/ \E w \in Workers : ~aborted[w] /\ n \in marking[w] \cup staged[w]

(* Aborted transactions that have still to deliver the row *)
Doomed(n) == {w \in Workers : aborted[w] /\ n \in queue[w]}

(* Each delivery is the one that counts or is paid for by a fault *)
Paid(n) == received[n] + Cardinality(Doomed(n)) <= faults + (IF Done(n) THEN 1 ELSE 0)

IInv ==
    /\ TypeOK
    /\ \A w \in Workers : InTransaction(w)
    /\ HeldOnce
    /\ SentWasReceived
    /\ \A n \in Notifications : Paid(n)

-----------------------------------------------------------------------------
(* Counting the aborted transactions that have still to deliver a row *)

LEMMA DoomedType ==
    ASSUME NEW n
    PROVE  IsFiniteSet(Doomed(n)) /\ Cardinality(Doomed(n)) \in Nat
BY WorkersAssumption, FS_Subset, FS_CardinalityType DEF Doomed

LEMMA DoomedTypeNext ==
    ASSUME NEW n
    PROVE  IsFiniteSet(Doomed(n)') /\ Cardinality(Doomed(n)') \in Nat
BY WorkersAssumption, FS_Subset, FS_CardinalityType DEF Doomed

LEMMA FewerDoomed ==
    ASSUME NEW n, Doomed(n)' \subseteq Doomed(n)
    PROVE  Cardinality(Doomed(n)') <= Cardinality(Doomed(n))
BY DoomedType, FS_Subset

LEMMA OneMoreDoomed ==
    ASSUME NEW n, NEW w, Doomed(n)' \subseteq Doomed(n) \cup {w}
    PROVE  Cardinality(Doomed(n)') <= Cardinality(Doomed(n)) + 1
<1>1. IsFiniteSet(Doomed(n) \cup {w})
      /\ Cardinality(Doomed(n) \cup {w}) <= Cardinality(Doomed(n)) + 1
    BY DoomedType, FS_AddElement
<1>2. Cardinality(Doomed(n)') <= Cardinality(Doomed(n) \cup {w})
    BY <1>1, FS_Subset
<1> QED BY <1>1, <1>2, DoomedType, DoomedTypeNext, FS_CardinalityType

LEMMA OneDoomedLess ==
    ASSUME NEW n, NEW w \in Doomed(n), Doomed(n)' \subseteq Doomed(n) \ {w}
    PROVE  Cardinality(Doomed(n)') + 1 <= Cardinality(Doomed(n))
<1>1. IsFiniteSet(Doomed(n) \ {w})
      /\ Cardinality(Doomed(n) \ {w}) = Cardinality(Doomed(n)) - 1
    BY DoomedType, FS_RemoveElement
<1>2. Cardinality(Doomed(n)') <= Cardinality(Doomed(n) \ {w})
    BY <1>1, FS_Subset
<1> QED BY <1>1, <1>2, DoomedType, DoomedTypeNext

(* A step that delivers nothing and aborts nothing keeps a row paid for, if *)
(* it leaves the row done or is a fault.                                    *)
LEMMA PaidWithoutDelivery ==
    ASSUME TypeOK, NEW n \in Notifications, Paid(n),
           received'[n] = received[n], Doomed(n)' \subseteq Doomed(n),
           \/ faults' = faults /\ (Done(n) => Done(n)')
           \/ faults' = faults + 1
    PROVE  Paid(n)'
BY FewerDoomed, DoomedType, DoomedTypeNext DEF Paid, TypeOK

-----------------------------------------------------------------------------
LEMMA InitIInv == Init => IInv
<1> SUFFICES ASSUME Init PROVE IInv
    OBVIOUS
<1> USE DEF Init
<1>1. TypeOK
    BY MaxCreatedAssumption, MaxFaultsAssumption DEF TypeOK, Inserted, NotInserted, Held
<1>2. \A w \in Workers : InTransaction(w)
    BY DEF InTransaction
<1>3. HeldOnce /\ SentWasReceived
    BY DEF HeldOnce, SentWasReceived, Held
<1>4. ASSUME NEW n \in Notifications PROVE Paid(n)
  <2>1. Doomed(n) = {}
      BY DEF Doomed
  <2>2. ~Done(n)
      BY DEF Done
  <2> QED BY <2>1, <2>2, FS_EmptySet DEF Paid
<1> QED BY <1>1, <1>2, <1>3, <1>4 DEF IInv

LEMMA InsertKeeps ==
    ASSUME IInv, NEW n \in Notifications, NEW t \in 1 .. MaxCreated, Insert(n, t)
    PROVE  IInv'
<1> USE DEF IInv, Insert, worker
<1>1. TypeOK'
    BY MaxCreatedAssumption DEF TypeOK, Inserted, NotInserted, Held
<1>2. \A w \in Workers : InTransaction(w)'
    BY DEF InTransaction
<1>3. HeldOnce' /\ SentWasReceived'
    BY DEF HeldOnce, SentWasReceived, Held
<1>4. \A m \in Notifications : Paid(m)'
    BY DEF Paid, Doomed, Done
<1> QED BY <1>1, <1>2, <1>3, <1>4

LEMMA PollKeeps ==
    ASSUME IInv, NEW w \in Workers, Poll(w)
    PROVE  IInv'
<1> USE DEF IInv
<1>1. PICK s \in SUBSET Claimable :
         batch' = [batch EXCEPT ![w] = s] /\ queue' = [queue EXCEPT ![w] = s]
    BY DEF Poll, Oldest
<1>2. /\ pc[w] = "sleep" /\ pc' = [pc EXCEPT ![w] = "deliver"]
      /\ UNCHANGED <<created, sent, received, marking, staged, aborted, faults>>
    BY DEF Poll, Goto
<1>3. s \subseteq Inserted /\ s \cap sent = {}
      /\ \A v \in Workers : s \cap Held(v) = {}
    BY DEF Claimable
<1>4. marking[w] = {} /\ staged[w] = {} /\ ~aborted[w]
    BY <1>2 DEF InTransaction
<1>5. TypeOK'
    BY <1>1, <1>2, <1>3 DEF TypeOK, Inserted, Held
<1>6. \A v \in Workers : InTransaction(v)'
    BY <1>1, <1>2, <1>4 DEF InTransaction, TypeOK
<1>7. Held(w)' = s /\ \A v \in Workers \ {w} : Held(v)' = Held(v)
    BY <1>1, <1>2, <1>4 DEF Held, TypeOK
<1>8. HeldOnce' /\ SentWasReceived'
    BY <1>2, <1>3, <1>7 DEF HeldOnce, SentWasReceived
<1>9. ASSUME NEW m \in Notifications PROVE Paid(m)'
  <2>1. Doomed(m)' = Doomed(m)
      BY <1>1, <1>2, <1>4 DEF Doomed, TypeOK
  <2>2. Done(m)' <=> Done(m)
      BY <1>2 DEF Done
  <2> QED BY <1>2, <2>1, <2>2, PaidWithoutDelivery
<1> QED BY <1>5, <1>6, <1>8, <1>9

(* Passing over a row, whatever for *)
LEMMA PassOverKeeps ==
    ASSUME IInv, NEW w \in Workers, NEW n \in Notifications, pc[w] = "deliver", NextRow(w, n),
           UNCHANGED <<created, sent, pc, batch, marking, staged, aborted>>,
           received' \in [Notifications -> Nat],
           \A m \in Notifications : received[m] <= received'[m],
           faults' \in 0 .. MaxFaults,
           \A m \in Notifications : Doomed(m)' \subseteq Doomed(m) => Paid(m)'
    PROVE  IInv'
<1> USE DEF IInv, NextRow
<1>1. TypeOK'
    BY DEF TypeOK, Inserted, Held
<1>2. \A v \in Workers : InTransaction(v)'
    BY DEF InTransaction, TypeOK, Inserted
<1>3. HeldOnce' /\ SentWasReceived'
    BY DEF HeldOnce, SentWasReceived, Held, TypeOK, Inserted
<1>4. \A m \in Notifications : Doomed(m)' \subseteq Doomed(m)
    BY DEF Doomed, TypeOK
<1> QED BY <1>1, <1>2, <1>3, <1>4

LEMMA SkipKeeps ==
    ASSUME IInv, NEW w \in Workers, NEW n \in Notifications, Skip(w, n) \/ Refused(w, n)
    PROVE  IInv'
<1>1. /\ pc[w] = "deliver" /\ NextRow(w, n)
      /\ UNCHANGED <<created, sent, received, pc, batch, marking, staged, aborted, faults>>
    BY DEF Skip, Refused
<1>2. \A m \in Notifications : Doomed(m)' \subseteq Doomed(m) => Paid(m)'
    BY <1>1, PaidWithoutDelivery DEF IInv, Done
<1> QED BY <1>1, <1>2, PassOverKeeps DEF IInv, TypeOK

LEMMA DeliveryFailsKeeps ==
    ASSUME IInv, NEW w \in Workers, NEW n \in Notifications, DeliveryFails(w, n)
    PROVE  IInv'
<1>1. /\ pc[w] = "deliver" /\ NextRow(w, n)
      /\ UNCHANGED <<created, sent, pc, batch, marking, staged, aborted>>
      /\ received' = [received EXCEPT ![n] = @ + 1] \/ received' = received
      /\ faults < MaxFaults /\ faults' = faults + 1
    BY DEF DeliveryFails, Fault
<1>2. ASSUME NEW m \in Notifications, Doomed(m)' \subseteq Doomed(m) PROVE Paid(m)'
  <2>1. received'[m] <= received[m] + 1 /\ received'[m] \in Nat
      BY <1>1 DEF IInv, TypeOK
  <2>2. Done(m)' <=> Done(m)
      BY <1>1 DEF Done
  <2> QED BY <1>1, <1>2, <2>1, <2>2, FewerDoomed, DoomedType, DoomedTypeNext
          DEF IInv, TypeOK, Paid
<1>3. received' \in [Notifications -> Nat] /\ \A m \in Notifications : received[m] <= received'[m]
    BY <1>1 DEF IInv, TypeOK
<1>4. faults' \in 0 .. MaxFaults
    BY <1>1, MaxFaultsAssumption DEF IInv, TypeOK
<1> QED BY <1>1, <1>2, <1>3, <1>4, PassOverKeeps

LEMMA DeliverKeeps ==
    ASSUME IInv, NEW w \in Workers, NEW n \in Notifications, Deliver(w, n)
    PROVE  IInv'
<1> USE DEF IInv
<1>1. /\ pc[w] = "deliver" /\ pc' = [pc EXCEPT ![w] = "mark"]
      /\ n \in queue[w] /\ queue' = [queue EXCEPT ![w] = @ \ {n}]
      /\ received' = [received EXCEPT ![n] = @ + 1]
      /\ marking' = [marking EXCEPT ![w] = {n}]
      /\ UNCHANGED <<created, sent, batch, staged, aborted, faults>>
    BY DEF Deliver, Goto, NextRow
<1>2. marking[w] = {} /\ n \in batch[w]
    BY <1>1 DEF InTransaction
<1>3. TypeOK'
    BY <1>1 DEF TypeOK, Inserted, Held
<1>4. \A v \in Workers : InTransaction(v)'
    BY <1>1, <1>2 DEF InTransaction, TypeOK
<1>5. HeldOnce' /\ SentWasReceived'
    BY <1>1 DEF HeldOnce, SentWasReceived, Held, TypeOK, Inserted
<1>6. ASSUME NEW m \in Notifications, m # n PROVE Paid(m)'
  <2>1. received'[m] = received[m] /\ faults' = faults
      BY <1>1, <1>6 DEF TypeOK
  <2>2. Doomed(m)' \subseteq Doomed(m)
      BY <1>1 DEF Doomed, TypeOK
  <2>3. Done(m) => Done(m)'
      BY <1>1, <1>2 DEF Done, TypeOK
  <2> QED BY <2>1, <2>2, <2>3, PaidWithoutDelivery
<1>7. received'[n] = received[n] + 1
    BY <1>1 DEF TypeOK
<1>8. CASE aborted[w]
  <2>1. w \in Doomed(n) /\ Doomed(n)' \subseteq Doomed(n) \ {w}
      BY <1>1, <1>8 DEF Doomed, TypeOK
  <2>2. Done(n) => Done(n)'
      BY <1>1, <1>2 DEF Done, TypeOK
  <2>3. Paid(n)'
      BY <1>1, <1>7, <2>1, <2>2, OneDoomedLess, DoomedType, DoomedTypeNext DEF Paid, TypeOK
  <2> QED BY <1>3, <1>4, <1>5, <1>6, <2>3
<1>9. CASE ~aborted[w]
  <2>1. n \in Held(w)
      BY <1>2, <1>9 DEF Held
  <2>2. ~Done(n)
    <3>1. n \notin sent
        BY <2>1 DEF HeldOnce
    <3>2. ASSUME NEW v \in Workers, ~aborted[v], n \in marking[v] \cup staged[v] PROVE FALSE
      <4>1. n \in Held(v)
          BY <3>2 DEF Held, InTransaction
      <4>2. v = w
          BY <2>1, <4>1 DEF HeldOnce
      <4> QED BY <1>1, <3>2, <4>2 DEF InTransaction
    <3> QED BY <3>1, <3>2 DEF Done
  <2>3. Done(n)'
      BY <1>1, <1>9 DEF Done, TypeOK
  <2>4. Doomed(n)' \subseteq Doomed(n)
      BY <1>1 DEF Doomed, TypeOK
  <2>5. Paid(n)'
      BY <1>1, <1>7, <2>2, <2>3, <2>4, FewerDoomed, DoomedType, DoomedTypeNext DEF Paid, TypeOK
  <2> QED BY <1>3, <1>4, <1>5, <1>6, <2>5
<1> QED BY <1>8, <1>9

LEMMA MarkKeeps ==
    ASSUME IInv, NEW w \in Workers, Mark(w)
    PROVE  IInv'
<1> USE DEF IInv
<1>1. /\ pc[w] = "mark" /\ pc' = [pc EXCEPT ![w] = "deliver"]
      /\ staged' = [staged EXCEPT ![w] = IF aborted[w] THEN @ ELSE @ \cup marking[w]]
      /\ marking' = [marking EXCEPT ![w] = {}]
      /\ UNCHANGED <<created, sent, received, batch, queue, aborted, faults>>
    BY DEF Mark, Goto
<1>2. TypeOK'
    BY <1>1 DEF TypeOK, Inserted, Held
<1>3. \A v \in Workers : InTransaction(v)'
    BY <1>1 DEF InTransaction, TypeOK
<1>4. HeldOnce' /\ SentWasReceived'
    BY <1>1 DEF HeldOnce, SentWasReceived, Held
<1>5. ASSUME NEW m \in Notifications PROVE Paid(m)'
  <2>1. Doomed(m)' = Doomed(m)
      BY <1>1 DEF Doomed
  <2>2. Done(m) => Done(m)'
      BY <1>1 DEF Done, TypeOK
  <2> QED BY <1>1, <2>1, <2>2, PaidWithoutDelivery
<1> QED BY <1>2, <1>3, <1>4, <1>5

LEMMA MarkFailsKeeps ==
    ASSUME IInv, NEW w \in Workers, MarkFails(w)
    PROVE  IInv'
<1> USE DEF IInv
<1>1. /\ pc[w] = "mark" /\ pc' = [pc EXCEPT ![w] = "deliver"]
      /\ aborted' = [aborted EXCEPT ![w] = TRUE]
      /\ staged' = [staged EXCEPT ![w] = {}]
      /\ marking' = [marking EXCEPT ![w] = {}]
      /\ faults < MaxFaults /\ faults' = faults + 1
      /\ UNCHANGED <<created, sent, received, batch, queue>>
    BY DEF MarkFails, Goto, Fault
<1>2. TypeOK'
    BY <1>1, MaxFaultsAssumption DEF TypeOK, Inserted, Held
<1>3. \A v \in Workers : InTransaction(v)'
    BY <1>1 DEF InTransaction, TypeOK
<1>4. HeldOnce' /\ SentWasReceived'
    BY <1>1 DEF HeldOnce, SentWasReceived, Held, TypeOK
<1>5. ASSUME NEW m \in Notifications PROVE Paid(m)'
  <2>1. CASE m \notin queue[w]
    <3>1. Doomed(m)' \subseteq Doomed(m)
        BY <1>1, <2>1 DEF Doomed, TypeOK
    <3> QED BY <1>1, <3>1, PaidWithoutDelivery
  <2>2. CASE m \in queue[w]
    <3>1. Doomed(m)' \subseteq Doomed(m) \cup {w}
        BY <1>1 DEF Doomed, TypeOK
    <3>2. m \notin marking[w] \cup staged[w]
        BY <2>2 DEF InTransaction
    <3>3. Done(m) => Done(m)'
        BY <1>1, <3>2 DEF Done, TypeOK
    <3>4. Cardinality(Doomed(m)') <= Cardinality(Doomed(m)) + 1
        BY <3>1, OneMoreDoomed
    <3> QED BY <1>1, <3>3, <3>4, DoomedType, DoomedTypeNext DEF Paid, TypeOK
  <2> QED BY <2>1, <2>2
<1> QED BY <1>2, <1>3, <1>4, <1>5

(* A transaction that ends, committed with no fault or not for one *)
LEMMA LeaveKeeps ==
    ASSUME IInv, NEW w \in Workers, Leave(w), UNCHANGED <<created, received>>,
           \/ sent' = sent \cup staged[w] /\ (faults' = faults /\ marking[w] = {})
           \/ sent' = sent \cup staged[w] /\ faults' = faults + 1
           \/ sent' = sent /\ faults' = faults + 1,
           faults' \in 0 .. MaxFaults
    PROVE  IInv'
<1> USE DEF IInv, Leave
<1>1. TypeOK'
    BY DEF TypeOK, Inserted, Held
<1>2. \A v \in Workers : InTransaction(v)'
    BY DEF InTransaction, TypeOK
<1>3. HeldOnce'
  <2>1. Held(w)' = {} /\ \A v \in Workers \ {w} : Held(v)' = Held(v)
      BY DEF Held, TypeOK
  <2>2. \A v \in Workers \ {w} : Held(v) \cap staged[w] = {}
      BY DEF HeldOnce, InTransaction, Held
  <2> QED BY <2>1, <2>2 DEF HeldOnce
<1>4. SentWasReceived'
    BY DEF SentWasReceived, InTransaction
<1>5. ASSUME NEW m \in Notifications PROVE Paid(m)'
  <2>1. Doomed(m)' \subseteq Doomed(m)
      BY DEF Doomed, TypeOK
  <2>2. CASE faults' = faults + 1
      BY <2>1, <2>2, PaidWithoutDelivery
  <2>3. CASE faults' = faults
    <3>1. sent' = sent \cup staged[w] /\ marking[w] = {}
        BY <2>3 DEF TypeOK
    <3>2. Done(m) => Done(m)'
        BY <3>1 DEF Done, TypeOK
    <3> QED BY <2>1, <2>3, <3>2, PaidWithoutDelivery
  <2> QED BY <2>2, <2>3
<1> QED BY <1>1, <1>2, <1>3, <1>4, <1>5

LEMMA EndKeeps ==
    ASSUME IInv, NEW w \in Workers, Commit(w) \/ CommitFails(w) \/ Crash(w)
    PROVE  IInv'
<1>1. CASE Commit(w)
  <2>1. marking[w] = {}
      BY <1>1 DEF Commit, AtEnd, IInv, InTransaction
  <2> QED BY <1>1, <2>1, LeaveKeeps DEF Commit, IInv, TypeOK
<1>2. CASE CommitFails(w) \/ Crash(w)
  <2>1. faults' = faults + 1 /\ faults' \in 0 .. MaxFaults
      BY <1>2, MaxFaultsAssumption DEF CommitFails, Crash, Fault, IInv, TypeOK
  <2> QED BY <1>2, <2>1, LeaveKeeps DEF CommitFails, Crash
<1> QED BY <1>1, <1>2

LEMMA PollFailsKeeps ==
    ASSUME IInv, NEW w \in Workers, PollFails(w)
    PROVE  IInv'
<1> USE DEF IInv, PollFails, Fault, worker
<1>1. TypeOK'
    BY MaxFaultsAssumption DEF TypeOK, Inserted, Held
<1>2. (\A v \in Workers : InTransaction(v)') /\ HeldOnce' /\ SentWasReceived'
    BY DEF InTransaction, HeldOnce, Held, SentWasReceived
<1>3. \A m \in Notifications : Paid(m)'
    BY PaidWithoutDelivery DEF Doomed
<1> QED BY <1>1, <1>2, <1>3

-----------------------------------------------------------------------------
LEMMA NextIInv == IInv /\ [Next]_vars => IInv'
<1> SUFFICES ASSUME IInv, [Next]_vars PROVE IInv'
    OBVIOUS
<1>1. ASSUME NEW n \in Notifications, NEW t \in 1 .. MaxCreated, Insert(n, t) PROVE IInv'
    BY <1>1, InsertKeeps
<1>2. ASSUME NEW w \in Workers, Work(w) PROVE IInv'
    BY <1>2, PollKeeps, MarkKeeps, EndKeeps, DeliverKeeps, SkipKeeps DEF Work
<1>3. ASSUME NEW w \in Workers, GoesWrong(w) PROVE IInv'
    BY <1>3, PollFailsKeeps, MarkFailsKeeps, EndKeeps, DeliveryFailsKeeps DEF GoesWrong
<1>4. CASE UNCHANGED vars
    BY <1>4 DEF vars, worker, IInv, TypeOK, Inserted, Held, InTransaction, HeldOnce,
        SentWasReceived, Paid, Doomed, Done
<1> QED BY <1>1, <1>2, <1>3, <1>4 DEF Next

LEMMA AlwaysIInv == Spec => []IInv
BY InitIInv, NextIInv, PTL DEF Spec

(* Every variable keeps its type, and a sleeping worker holds no row. *)
THEOREM TypeCorrect == Spec => []TypeOK
BY AlwaysIInv, PTL DEF IInv

(* No two workers ever hold one row, and no row that is held was sent: two *)
(* workers never deliver a row at the same time unless one was aborted.    *)
THEOREM RowsAreHeldOnce == Spec => []HeldOnce
BY AlwaysIInv, PTL DEF IInv

(* sent_at is never set for a row its target did not take. *)
THEOREM SentRowsWereReceived == Spec => []SentWasReceived
BY AlwaysIInv, PTL DEF IInv

(* However many workers and rows there are, a target takes a notification at *)
(* most once more than there were faults: without one, at most once.         *)
THEOREM DuplicatesNeedFaults == Spec => []OneExtraPerFault
<1>1. IInv => OneExtraPerFault
    BY DoomedType DEF IInv, TypeOK, Paid, OneExtraPerFault
<1> QED BY <1>1, AlwaysIInv, PTL

(* A row that is sent is delivered no more, but by a worker that has lost  *)
(* its locks to a failed UPDATE.                                           *)
THEOREM SentRowsAreSettled == Spec => SentIsSettled
<1> DEFINE Settled == \A n \in sent : received'[n] # received[n] =>
                        \E w \in Workers : aborted[w] /\ n \in queue[w]
<1>1. ASSUME IInv, NEW w \in Workers, NEW n \in Notifications,
             Deliver(w, n) \/ DeliveryFails(w, n)
      PROVE  Settled
  <2>1. /\ n \in queue[w]
        /\ \A m \in Notifications : received'[m] # received[m] => m = n
      BY <1>1 DEF Deliver, DeliveryFails, NextRow, IInv, TypeOK
  <2>2. n \in sent => aborted[w]
      BY <1>1, <2>1 DEF IInv, InTransaction, HeldOnce, Held
  <2>3. sent \subseteq Notifications
      BY <1>1 DEF IInv, TypeOK, Inserted
  <2>4. ASSUME NEW m \in sent, received'[m] # received[m]
        PROVE  aborted[w] /\ m \in queue[w]
      BY <2>1, <2>2, <2>3, <2>4
  <2> QED BY <2>4
<1>2. ASSUME IInv, Next PROVE Settled
  <2>1. \/ UNCHANGED received
        \/ \E w \in Workers, n \in Notifications : Deliver(w, n) \/ DeliveryFails(w, n)
      BY <1>2 DEF Next, Work, GoesWrong, Insert, Poll, Mark, Commit, Skip, Refused,
          PollFails, MarkFails, CommitFails, Crash
  <2> QED BY <1>1, <1>2, <2>1
<1>3. IInv /\ [Next]_vars => [Settled]_vars
    BY <1>2
<1> QED BY <1>3, AlwaysIInv, PTL DEF Spec, SentIsSettled

=============================================================================
