------------------------ MODULE NotificationDelivery ------------------------
(***************************************************************************)
(* poll_once and run_worker of signalnode-core: the rows that evaluation   *)
(* left in pending_notifications are claimed in batches, handed to their   *)
(* targets one after the other and marked sent, all in one transaction.    *)
(*                                                                         *)
(* The claim locks its rows (FOR UPDATE SKIP LOCKED) until the transaction *)
(* ends.  When an UPDATE fails PostgreSQL aborts the transaction there and *)
(* then and lets go of the locks; the loop notices nothing and goes on     *)
(* delivering.  A fault is anything that fails once: a statement, a COMMIT,*)
(* a process, a delivery to a target that works.                           *)
(***************************************************************************)
EXTENDS Naturals, FiniteSets

CONSTANTS
    Notifications,  \* rows of pending_notifications that may be inserted
    Unreachable,    \* those whose target refuses every delivery
    Skipped,        \* those the worker passes over: email without SMTP settings
    Workers,        \* run_worker loops (one per signalnode-core process)
    BatchLimit,     \* LIMIT 50
    MaxCreated,     \* bound: distinct values of created_at
    MaxFaults       \* bound: faults in a behaviour

ASSUME TargetsAssumption ==
    /\ Unreachable \subseteq Notifications
    /\ Skipped \subseteq Notifications \ Unreachable
ASSUME WorkersAssumption == IsFiniteSet(Workers)
ASSUME BatchLimitAssumption == BatchLimit \in Nat \ {0}
ASSUME MaxCreatedAssumption == MaxCreated \in Nat \ {0}
ASSUME MaxFaultsAssumption == MaxFaults \in Nat

NotInserted == 0

VARIABLES
    created,    \* pending_notifications.created_at, for the rows inserted
    sent,       \* the rows whose sent_at is set
    received,   \* how many times a row's target took its delivery
    pc,         \* "sleep", "deliver" or "mark", for each worker
    batch,      \* the rows a worker's transaction selected
    queue,      \* those of them the loop has still to come to
    marking,    \* the row delivered and about to be marked
    staged,     \* rows marked sent in the open transaction
    aborted,    \* an UPDATE failed: the transaction will roll back
    faults      \* faults so far

worker == <<pc, batch, queue, marking, staged, aborted>>
vars == <<created, sent, received, worker, faults>>

Init ==
    /\ created = [n \in Notifications |-> NotInserted]
    /\ sent = {}
    /\ received = [n \in Notifications |-> 0]
    /\ pc = [w \in Workers |-> "sleep"]
    /\ batch = [w \in Workers |-> {}] /\ queue = [w \in Workers |-> {}]
    /\ marking = [w \in Workers |-> {}] /\ staged = [w \in Workers |-> {}]
    /\ aborted = [w \in Workers |-> FALSE]
    /\ faults = 0

Fault ==
    /\ faults < MaxFaults
    /\ faults' = faults + 1

Goto(w, from, to) == pc[w] = from /\ pc' = [pc EXCEPT ![w] = to]

Inserted == {n \in Notifications : created[n] # NotInserted}

(* Row locks: an aborted transaction has none left *)
Held(w) == IF aborted[w] THEN {} ELSE batch[w]

-----------------------------------------------------------------------------
(* evaluate_incident commits a row.  created_at is NOW(), the start of its  *)
(* transaction, so a row may appear behind ones that are there already.     *)
Insert(n, t) ==
    /\ n \notin Inserted
    /\ created' = [created EXCEPT ![n] = t]
    /\ UNCHANGED <<sent, received, worker, faults>>

(* Mutant: FOR UPDATE SKIP LOCKED is missing. *)
ClaimableAnyRow == Inserted \ sent

Claimable == (Inserted \ sent) \ UNION {Held(v) : v \in Workers}

(* ORDER BY created_at ASC LIMIT BatchLimit *)
Oldest(rows) ==
    {s \in SUBSET rows :
        /\ Cardinality(s) = IF Cardinality(rows) < BatchLimit THEN Cardinality(rows) ELSE BatchLimit
        /\ \A n \in s, m \in rows \ s : created[n] <= created[m]}

(* begin, and the SELECT that claims a batch *)
Poll(w) ==
    /\ Goto(w, "sleep", "deliver")
    /\ \E s \in Oldest(Claimable) :
          /\ batch' = [batch EXCEPT ![w] = s]
          /\ queue' = [queue EXCEPT ![w] = s]
    /\ UNCHANGED <<created, sent, received, marking, staged, aborted, faults>>

(* Either fails: poll_once returns *)
PollFails(w) ==
    /\ pc[w] = "sleep"
    /\ Fault
    /\ UNCHANGED <<created, sent, received, worker>>

-----------------------------------------------------------------------------
(* for row in &rows, in the order of created_at *)
NextRow(w, n) ==
    /\ n \in queue[w]
    /\ \A m \in queue[w] : created[n] <= created[m]
    /\ queue' = [queue EXCEPT ![w] = @ \ {n}]

(* The target answered: 2xx, or the SMTP server took the mail *)
Deliver(w, n) ==
    /\ n \notin Unreachable \cup Skipped
    /\ Goto(w, "deliver", "mark")
    /\ NextRow(w, n)
    /\ received' = [received EXCEPT ![n] = @ + 1]
    /\ marking' = [marking EXCEPT ![w] = {n}]
    /\ UNCHANGED <<created, sent, batch, staged, aborted, faults>>

(* No SMTP settings: the row is left as it is *)
Skip(w, n) ==
    /\ n \in Skipped
    /\ pc[w] = "deliver"
    /\ NextRow(w, n)
    /\ UNCHANGED <<created, sent, received, pc, batch, marking, staged, aborted, faults>>

(* Mutant: a row whose delivery failed is marked like the others. *)
RefusedButMarked(w, n) ==
    /\ n \in Unreachable
    /\ Goto(w, "deliver", "mark")
    /\ NextRow(w, n)
    /\ marking' = [marking EXCEPT ![w] = {n}]
    /\ UNCHANGED <<created, sent, received, batch, staged, aborted, faults>>

(* Mutant: the first failed delivery ends the loop. *)
RefusedEndsTheBatch(w, n) ==
    /\ n \in Unreachable
    /\ pc[w] = "deliver"
    /\ n \in queue[w] /\ \A m \in queue[w] : created[n] <= created[m]
    /\ queue' = [queue EXCEPT ![w] = {}]
    /\ UNCHANGED <<created, sent, received, pc, batch, marking, staged, aborted, faults>>

(* The delivery fails, as every delivery to this target does *)
Refused(w, n) ==
    /\ n \in Unreachable
    /\ pc[w] = "deliver"
    /\ NextRow(w, n)
    /\ UNCHANGED <<created, sent, received, pc, batch, marking, staged, aborted, faults>>

(* It fails once, and the target may have taken it: the answer was lost, or *)
(* came after the client's timeout.                                         *)
DeliveryFails(w, n) ==
    /\ n \notin Unreachable \cup Skipped
    /\ pc[w] = "deliver"
    /\ NextRow(w, n)
    /\ received' = [received EXCEPT ![n] = @ + 1] \/ UNCHANGED received
    /\ Fault
    /\ UNCHANGED <<created, sent, pc, batch, marking, staged, aborted>>

(* UPDATE ... SET sent_at; refused, and logged, if the transaction is aborted *)
Mark(w) ==
    /\ Goto(w, "mark", "deliver")
    /\ staged' = [staged EXCEPT ![w] = IF aborted[w] THEN @ ELSE @ \cup marking[w]]
    /\ marking' = [marking EXCEPT ![w] = {}]
    /\ UNCHANGED <<created, sent, received, batch, queue, aborted, faults>>

(* The UPDATE fails: logged, and the loop goes on in an aborted transaction *)
MarkFails(w) ==
    /\ Goto(w, "mark", "deliver")
    /\ aborted' = [aborted EXCEPT ![w] = TRUE]
    /\ staged' = [staged EXCEPT ![w] = {}]
    /\ marking' = [marking EXCEPT ![w] = {}]
    /\ Fault
    /\ UNCHANGED <<created, sent, received, batch, queue>>

-----------------------------------------------------------------------------
(* The transaction ends, and the worker sleeps for its interval *)

(* Mutant: the transaction is not ended, and its rows stay locked. *)
LeaveHolding(w) ==
    /\ pc' = [pc EXCEPT ![w] = "sleep"]
    /\ queue' = [queue EXCEPT ![w] = {}]
    /\ marking' = [marking EXCEPT ![w] = {}]
    /\ staged' = [staged EXCEPT ![w] = {}]
    /\ aborted' = [aborted EXCEPT ![w] = FALSE]
    /\ UNCHANGED batch

Leave(w) ==
    /\ pc' = [pc EXCEPT ![w] = "sleep"]
    /\ batch' = [batch EXCEPT ![w] = {}]
    /\ queue' = [queue EXCEPT ![w] = {}]
    /\ marking' = [marking EXCEPT ![w] = {}]
    /\ staged' = [staged EXCEPT ![w] = {}]
    /\ aborted' = [aborted EXCEPT ![w] = FALSE]

AtEnd(w) == pc[w] = "deliver" /\ queue[w] = {}

(* staged is empty when the transaction is aborted *)
Commit(w) ==
    /\ AtEnd(w)
    /\ sent' = sent \cup staged[w]
    /\ Leave(w)
    /\ UNCHANGED <<created, received, faults>>

(* An error: not committed, or committed and not answered *)
CommitFails(w) ==
    /\ AtEnd(w)
    /\ sent' = sent \cup staged[w] \/ UNCHANGED sent
    /\ Leave(w)
    /\ Fault
    /\ UNCHANGED <<created, received>>

(* The process dies, is restarted and polls again *)
Crash(w) ==
    /\ pc[w] # "sleep"
    /\ Leave(w)
    /\ Fault
    /\ UNCHANGED <<created, sent, received>>

-----------------------------------------------------------------------------
(* What a worker does of itself *)
Work(w) ==
    \/ Poll(w) \/ Mark(w) \/ Commit(w)
    \/ \E n \in Notifications : Deliver(w, n) \/ Skip(w, n) \/ Refused(w, n)

(* What may happen to it *)
GoesWrong(w) ==
    \/ PollFails(w) \/ MarkFails(w) \/ CommitFails(w) \/ Crash(w)
    \/ \E n \in Notifications : DeliveryFails(w, n)

Next ==
    \/ \E n \in Notifications, t \in 1 .. MaxCreated : Insert(n, t)
    \/ \E w \in Workers : Work(w) \/ GoesWrong(w)

Spec == Init /\ [][Next]_vars

(* The loop of run_worker never ends, and every await in it does: the HTTP  *)
(* client times out after ten seconds, the SMTP client after its own limit. *)
FairSpec == Spec /\ \A w \in Workers : WF_vars(Work(w))

-----------------------------------------------------------------------------
TypeOK ==
    /\ created \in [Notifications -> 0 .. MaxCreated]
    /\ sent \subseteq Inserted
    /\ received \in [Notifications -> Nat]
    /\ pc \in [Workers -> {"sleep", "deliver", "mark"}]
    /\ batch \in [Workers -> SUBSET Inserted]
    /\ queue \in [Workers -> SUBSET Inserted]
    /\ marking \in [Workers -> SUBSET Inserted]
    /\ staged \in [Workers -> SUBSET Inserted]
    /\ aborted \in [Workers -> BOOLEAN]
    /\ faults \in 0 .. MaxFaults
    /\ \A w \in Workers : pc[w] = "sleep" => Held(w) = {}

(* At least once: a row marked sent was taken by its target, whatever      *)
(* failed between the delivery, the UPDATE and the COMMIT.                 *)
SentWasReceived == \A n \in sent : received[n] > 0

(* Duplicates come from faults only: several workers, batches cut short    *)
(* and aborted transactions that go on delivering included, a target takes *)
(* a notification at most once more than there were faults.                *)
OneExtraPerFault == \A n \in Notifications : received[n] <= faults + 1

(* A row whose sent_at is committed is delivered no more: it is in nobody's *)
(* hands then but of a worker whose transaction an UPDATE has aborted, and  *)
(* whose loop goes on with rows that it has no longer locked.               *)
SentIsSettled ==
    [][\A n \in sent : received'[n] # received[n] =>
          \E w \in Workers : aborted[w] /\ n \in queue[w]]_vars

(* A failed delivery is retried: once faults stop, every row whose target  *)
(* works is sent, with refused and skipped rows ahead of it in the table.  *)
EventuallySent ==
    \A n \in Notifications \ (Unreachable \cup Skipped) : n \in Inserted ~> n \in sent
=============================================================================
