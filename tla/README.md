# signalnode in TLA+

signalnode watches websites and TCP services. Two kinds of processes share one
PostgreSQL database (`docs/adr/0001`): `signalnode-core`, the engine, which
probes monitors and delivers notifications, and `signalnode-api`, the HTTP
backend. There is no other coordination: everything that can go wrong between
them goes wrong between two SQL statements. The modules here model the code at
that grain: one action per statement, with the transactions, row locks and
early returns the code has.

## The system

| Part | Code | State | Operations |
|---|---|---|---|
| Incident evaluation | `signalnode-shared/src/incident.rs` | `incidents`, `pending_notifications`, reads `check_results`, `notification_channels` | `evaluate_incident`: opens, closes or leaves a monitor's incident, in the caller's transaction |
| Check engine | `signalnode-core/src/checker.rs` | `monitors.last_checked_at`, `check_results`; a batch in memory | `check_once` (claim, stamp, probe, write and evaluate), `run_checker` |
| Check results API | `signalnode-api/src/check_result` | `check_results` | `create_check_result` (insert and evaluate), list |
| Delivery worker | `signalnode-core/src/worker.rs`, `deliver/` | `pending_notifications.sent_at`; a batch in memory | `poll_once`, `run_worker` |
| Refresh tokens | `signalnode-api/src/auth`, `signalnode-core/src/purger.rs` | `refresh_tokens` | `login` (issue), `refresh` (exchange), `purge_once` |
| Registration, login, lockout | `signalnode-api/src/auth` | `users`, `login_attempts` | `register`, `login` (check, verify, count, reset, issue) |
| Monitor administration | `signalnode-api/src/monitor` | `monitors` | create, patch, delete (archive), get, list |
| Notification channels | `signalnode-api/src/notification_channel` | `notification_channels` | create, delete, list |
| Workspaces, authorization | `signalnode-api/src/workspace`, `authz.rs`, `middleware.rs` | `workspaces`, `workspace_members` | create with its owner, list, membership and owner checks |
| Incidents API | `signalnode-api/src/incident` | reads `incidents` | `list_open_incidents` |
| Rate limits, start-up, errors | the rest of `signalnode-api` and `signalnode-core` | in-memory limiters | library code; wiring; error enums |

`signalnode-core` runs three loops in one process (checker, delivery worker,
purger), and nothing stops two such processes from running on one database:
`FOR UPDATE SKIP LOCKED` is there for that. A check result reaches
`evaluate_incident` from the checker or from a posted result; an incident it
opens leaves one `pending_notifications` row per channel; the delivery worker
takes it from there.

What is hard, and what each part must keep:

- **Evaluation.** Two transactions that evaluate one monitor see each other's
  rows only once committed, and a result's place in the history is the *start*
  of its transaction. A monitor must have one open incident at most, opened by
  a full streak of downs that is really in the table, told to every channel or
  to none; a result reported as written must be written.
- **Scheduling.** `NOW()` is read when the claim begins, rows are locked when it
  selects them. A monitor must not be claimed twice, nor checked twice for one
  interval; a stamp must not go back; a database error must not leave monitors
  probed and unstamped.
- **Delivery.** Delivering has an effect no rollback undoes, and `sent_at` is
  committed later. Nothing may be marked that was not delivered; duplicates need
  a failure; every deliverable row must be delivered in the end.
- **Refresh tokens.** Requests race for one token, and the answer may be lost. A
  token is exchanged once; a session is never left without a token; expired rows
  go.

- **Accounts.** The lock is read before the password is verified, which takes
  long, and the failure is counted after. Concurrent failures must all be
  counted, the lock must be set by the tenth whoever sends it and survive as the
  count says, a locked account must not go on costing verifications, and of two
  registrations of one email one must lose.
- **The protected routes.** A request is checked against one table and acts on
  another, statements later. A member of one workspace must not read or write a
  row of another, by whichever ids the path names; a workspace must appear with
  its owner or not at all; a slug is one workspace's; an archived monitor should
  stay archived.

`PROJECT.json` lists these hazards one by one, with the line where each bites.

## Modules

| Module | Models | Kind |
|---|---|---|
| `CheckHistory` | the two windows of `evaluate_incident` | operators |
| `IncidentLifecycle` | what evaluation promises: results arrive one by one, each judged against the history it ends | abstract specification |
| `IncidentEvaluation` | phase 2 of `check_once`, `create_check_result`, `evaluate_incident` | implements `IncidentLifecycle` |
| `CheckSchedule` | what scheduling promises: a claim is one step and takes what is active and due at that moment | abstract specification |
| `CheckScheduling` | `check_once` and `run_checker`: claim, stamp, probe, write | implements `CheckSchedule` |
| `NotificationDelivery` | `poll_once` and `run_worker` | component |
| `RefreshSessions` | what refresh tokens promise: a session has one head, and an exchange replaces it in one step | abstract specification |
| `RefreshTokens` | `login`'s issue, `refresh`, `purge_once` | implements `RefreshSessions` |
| `Accounts` | `register`, `login`, and `refresh` as one step | component |
| `Responses` | the error enums and their answers | operators |
| `Authorization` | tokens, `auth_middleware`, the two checks of `authz.rs` | operators |
| `MonitorInput` | the bodies of the monitor endpoints, the rows they make, the table's CHECKs | operators |
| `Tenancy` | what the protected routes promise: a request writes in one step, what it asked for and its user has the right to at that moment | abstract specification |
| `Api` | every protected route: middleware, authorization, handler, statement by statement; uses `Authorization`, `MonitorInput` and `CheckHistory` | composition; implements `Tenancy` |
| `AccountTests`, `ApiTests` | the integration tests of `signalnode-api` as scenarios | tests |
| `MC...` | definitions for the configurations | instances |
| `...Proofs` | theorems | proofs |

### How the models read

- **Statements and transactions.** An action is one statement, or one step
  between two awaits. What an open transaction has written is kept per writer
  (`tx[w]`, `staged[w]`, `old`/`new`), invisible to the others until its
  `Commit` publishes it: READ COMMITTED, PostgreSQL's default, which no code
  changes. A dropped `sqlx::Transaction` rolls back.
- **An aborted transaction.** When a statement fails PostgreSQL aborts the
  transaction, releases its locks, refuses every further statement, and answers
  the `COMMIT` with a `ROLLBACK` that `sqlx` returns as `Ok`. Code that logs the
  error and goes on meets this: `EvaluationFailsCore`, `StampFails` and
  `MarkFails`.
- **Commit errors.** A `COMMIT` that returns an error may have taken effect:
  every `CommitFails` has both outcomes.
- **Row locks.** `Claimed`, `Held` and `Locked` say which rows an open
  transaction holds. A claim passes over them; an `UPDATE` or `DELETE` waits for
  them and then looks at the row again (`Patch`, `StartClose`/`FinishClose`,
  `Delete`). The share lock that an `INSERT INTO check_results` takes on its
  monitor appears in `SelectDue` as an arbitrary set of rows passed over.
- **Time.** In `IncidentEvaluation` it is the order of the BEGINs. In the other
  modules a clock ticks, as far as `MaxTime`.
- **Crashes and disconnects.** A process, or a request whose client goes away,
  can stop anywhere; what it held in memory is lost.

### IncidentEvaluation

`pc[w]` is a writer's place. Engines (`CoreWriters`) claim a batch with the
thresholds and status of that moment, get an outcome per monitor, and write them one
transaction each; requests (`ApiWriters`) insert, read the monitor, and evaluate if
it is active. `tx[w]` holds the transaction's timestamp, the downs on which it
opened an incident, the channels it read and those it has told, and the incidents it
closes; an incident's `failure` is the threshold it was opened by, its `closed_at`
the time of the transaction that closed it. `reported` records what was answered 201
or logged as written. `SerialSpec` is the specification restricted to steps that
leave the writes of each monitor serial: an assumption on the environment, which the
code leaves to its one loop per process, and not a property of it.

### CheckScheduling

`batch[e]` is the engine's `Vec` of monitors, `began[e]` its `NOW()`. The probes
take no state; the time they need is the `Tick`s between the claim's commit and
the writes. What a write does to an incident is in `IncidentEvaluation`. `left` and
`passedOver` are history: the due rows that a claim's `LIMIT` cut off, and how many
committed claims have done so to a monitor since its last stamp.

### NotificationDelivery

`received[n]` counts the deliveries the target took; it belongs to no
transaction, which is the point of the module. `Unreachable` rows have a target
that refuses every delivery, `Skipped` rows are emails of an engine without SMTP
settings. Every failure of something that works is a `Fault`, and faults are
counted.

### RefreshTokens

A session is the chain of tokens one login began. `tokens`, `used` and
`answered` are history: what was ever inserted, exchanged, handed to a client. The
decoder's leeway lets a request present a token past its `exp`, and only the DELETE
turns it away.

### Accounts

A client sends the requests of its script, and waits where the script waits:
`now` moves only there. `row[c]` is the user a login's SELECT found; between
`SelectUser`, `CheckLock`, `Verify` and `CountFailure` other clients act. An
email is what precedes its first `@` and the parts of the rest, a hash is a salt
with the password that verifies against it. `told` and `verified` are history:
failures a client was told since the last success, verifications per client since
the account was locked. `AnswerLost` is a statement reported as failed, or no
answer, where the write may have happened.

### Api

A request is `[op, token, workspace, id, body]`: the path, the bearer token and
the JSON body, of which the fields given are the record's domain. `pc[c]` goes
from `authorize` (and `exists`, the second SELECT of a refusal) over `resolve` to
`act` and the statements after it. `create_workspace`'s transaction is
`staged[c]`, which nobody sees until `CommitWorkspace`; the unique index on the
slug makes a second `InsertWorkspace` wait for it. `patch_monitor` is two
statements. `create_check_result` is one step that uses the same `Streak` as
`IncidentEvaluation`, where its statements interleave. `sealed` is history: the
monitors archived all the time since the request came.

### The abstract specifications

Each says what a part promises in terms of whole operations, and the refinement
mapping says which tables show it:

- `IncidentLifecycle` has the results of a monitor arrive one by one, each judged
  against the history it ends, or kept without being judged if the API found its
  monitor paused. `IncidentEvaluation` implements it (`ImplementsLifecycle`) wherever
  no two transactions write results of one monitor at a time (`SerialWrites`): any
  number of engines and requests, as long as they write different monitors. The
  mapping keeps the rows, says of each whether it was judged (`judged`, a ghost field:
  no column holds it), and takes a monitor as `waived` while a transaction that found
  it paused waits for its COMMIT.
- `CheckSchedule` has a claim in one step. The mapping keeps the tables and takes as
  `probing` the batch of a process that is past its claim's commit. Two of its steps
  are there because the code has them: a claim committed and never heard of, and
  monitors probed though their stamps were rolled back.
- `RefreshSessions` has an exchange in one step. The `heads` are the tokens ever
  inserted and not exchanged, `live` the stored ones, `spent` the exchanged; `begun`
  says of each refresh under way what it presented and when, so that an exchange is
  one of a token in its time.
- `Tenancy` has the tables and, of the requests under way (`asked`), the user, the
  route and the ids of the path. Every statement of a handler is a step of it or a
  stutter, so that neither the lookup of a right before the write that needs it, nor
  `create_workspace`'s open transaction, nor a failure between two statements can be
  told from the rows. The edit of an archived monitor, which `monitor_archived` shows,
  is a step of it.

### The tests as scenarios

`ApiTests` and `AccountTests` hold, for each integration test of
`signalnode-api`, the rows it inserts, the requests it sends, the answers it
asserts and the rows it counts. `AnswersAsTested` says that the model answers so.
It keeps `Api` and `Accounts` to what the program is tested to do: a check that
is missing, or one too many, shows there. Left out are the tests of rate limits,
of the order of lists and of JSON fields alone.

## Runs

| Run | Instance | Question | Result |
|---|---|---|---|
| `evaluation_serial` | 1 engine and 1 request, 2 monitors, 3 writes, thresholds 2/1, the writes of each monitor serial | Does the evaluation implement its lifecycle, through failures, crashes, archived monitors and patches? | holds |
| `evaluation_concurrent` | 1 engine and 1 request, 1 channel, 3 writes, thresholds 2/1 and 1/1 | What survives concurrent evaluation? At most one open incident of each writer, all-or-nothing fan-out, evidence of every opening and closing, durability. | holds |
| `scheduling` | 3 monitors, 2 engines, batches of 2, intervals 1 and 2, 3 ticks | Are claims exclusive, never early, each like one step, and does every due monitor get its turn? | holds |
| `delivery` | 2 workers, 4 rows (one refused, one skipped), batches of 3, 1 fault | Delivered at least once, twice only after a fault, no more once sent, and in the end? | holds |
| `refresh_tokens` | 2 requests, 3 tokens, lifetime 1 of 4 ticks | Single use, no session lost, expired rows purged and not accepted, exchanges like one step? | holds |
| `accounts` | every test of `auth/mod.rs`; 3 clients with 2 or 3 requests each at 8 and at 10 failures, or all registering one email; 1 fault | Is every failure counted, every lock set and kept, every account its creator's? | holds |
| `api` | every test of the protected routes; 2 clients on 3 workspaces, 1 fault | Are workspaces whole, slugs unique, rows kept to their workspace and written by its name, writes like single steps of requests with the right to them, requests ended? | holds |
| `monitor_archived` | 2 clients on 2 workspaces | Does an archived monitor stay archived? | violated |
| `evaluation_lost` | 1 engine | Is a result logged as written in the table? | violated |
| `evaluation_paused` | 1 engine, a monitor being paused | Opened only while active? | violated |
| `scheduling_stamp_fails` | 1 engine, 1 monitor | After a database error in the claim, is nothing probed? | violated |
| `delivery_head_of_line` | 1 worker, batch of 2, 2 undeliverable rows | Is every deliverable row sent? | violated |

The bounds. Two writers are what a race needs, and each race here is between two
transactions on one monitor; statements never read another monitor's rows, so one
monitor is enough for the races of evaluation. Where writes are serial there are two
monitors, so that the transactions of engine and API do interleave. Three writes let
an incident open and close, or an archived monitor's result come between, with
thresholds of two downs and one up so that a streak and its interruption both occur;
paused and archived monitors are the same to the evaluation, which asks for "active"
only. In `evaluation_concurrent` a threshold of one down leaves two of the three
writes to close the incident of the first at once, and one channel is there or not
when it is read and when it is told; that a part of several channels is never told
is what `FanOutIsAllOrNothing` proves for any number. That longer histories bring
nothing new is what the proofs are for. For scheduling, three monitors and batches
of two make the order and the limit matter, and three ticks let a claim that began
before another's stamp come after it. For delivery, a batch of three holds the
refused row, the skipped row and one more; two values of `created_at` give ties and
rows that appear behind others. Three tokens let two requests exchange one, or one
fail and retry. `MaxWrites`, `MaxTime`, `MaxTokens`, `MaxCreated` and `MaxFaults`
are bounds of the models and stand for nothing in the code; so are the `faults` and
the scripts of `Accounts` and `Api`. `Limit` is 10 and `LockTime` 15 minutes as in
the code: worlds that begin at eight failures let two clients be the ninth and the
tenth while a third passed the check before, worlds at ten failures begin locked,
and the waits of 5 and of 15 end before and after the lock. Races in `Api` are
between two requests on one row or one slug, so two clients are enough; bob's
workspace is there for ids that belong elsewhere, and alice has a second one,
without rows, by which she names those of her first. `VIEW` drops what no action and
no property of its run reads: in `evaluation_serial` what was reported
(`Unreported`), in `scheduling` the `NOW()` of a claim that has ended
(`CurrentClaims`). Symmetry is used where only safety is checked, on engines and
monitors in `scheduling`.

### What the violations show

Of the first three, and of the last, it is proved that nothing else leads there (see
Proofs).

- **A lost result** (`evaluation_lost`). The engine logs a failed evaluation and
  commits; the commit is a rollback, and "check result written" is logged.
- **Opened while paused** (`evaluation_paused`). The engine trusts the status its
  claim read, before the probe.
- **Probed and not stamped** (`scheduling_stamp_fails`). As above: the failed
  UPDATE aborts the claim, its commit says `Ok`, and the batch is probed.
- **Blocked delivery** (`delivery_head_of_line`). Rows that cannot be delivered
  stay the oldest; a batch full of them is selected at every poll.
- **An archived monitor revived** (`monitor_archived`). `patch_monitor` reads the
  status in one statement and updates in another; a `delete_monitor` in between is
  undone. `RevivedOnlyByOverlap` says what remains true: only a patch that was
  received before the archive can do it.

One disagreement is known and accepted, and no run repeats it: two writers that
evaluate one monitor at once may each open an incident, because neither sees the
other's. `docs/superpowers/specs/2026-05-15-incident-open-close.md` promises one
(line 31) and accepts the race at line 129 since the engine's loop serializes the
writes. What holds is checked and proved instead: at most one is opened by each
writer, whatever overlaps (`OneOpenPerWriter`), and one in all wherever the writes of
the monitor are serial (`AtMostOneOpen`). For the same reason `NoMissedCrossing` is
checked where they are serial: of two that overlap each can miss the other's
uncommitted down, and neither opens. `OnlyOverlapDeparts` says that there is no other
way to depart from the lifecycle.

### Fairness

`FairSpec` of `NotificationDelivery` is weak fairness of each worker's own steps:
`run_worker` loops for ever, the HTTP client times out after ten seconds and the
SMTP client after its default limit, so that every await ends. Failures are never
required to happen, and there are `MaxFaults` of them at most: "once faults
stop". A crashed process is restarted. `FairSpec` of `RefreshTokens` is weak
fairness of the purger, which loops in the same way, and of each request's
handler, which ends or is dropped. `FairSpec` of
`Api` is weak fairness of each client's receiving and handling: a handler's awaits
end, and a client that has sent a request awaits its answer. No fairness is
assumed between workers. `Accounts` has no liveness property.

## Proofs

The theorems hold for every value of the constants under the modules' named
assumptions (thresholds and intervals are positive, engines and requests are
disjoint, the set of workers is finite, and so on).

- `IncidentEvaluationProofs`. The inductive invariant has a part per writer: where
  it has read thresholds they are of the table (`ThresholdRead`), what it has staged
  matches its place (`Staging`), and the downs it is about to open on are committed
  or its own row (`Evidence`). From it: types, the all-or-nothing fan-out, the
  evidence of every incident, the durability of a 201. That evidence must be
  followed from the window's SELECT to the COMMIT is why the invariant of the tables
  alone is not inductive. `OneOpenOfEachWriter` adds that two incidents of one
  writer's opening, staged or committed, are apart (`Apart`): a writer that reads no
  open incident has none of its own, and what it stages is its first.
  `OneOpenWithOneWriter` follows with one writer. That an incident is closed once,
  and on evidence (`ClosuresRestOnEvidence`), needs the window a writer has read,
  which no variable keeps: `Recovering` says that committed rows and its own that
  make a full window of ups exist (`Recovered`), from the SELECT through the wait
  for the row locks, and that what it closes is of its own monitor (`Closing`). The
  rows are never deleted, so they are in the table at the COMMIT. Two closers are
  kept apart by `Locking`: a row that one has updated is still open in the table and
  in no other's update, because whoever waited for it looks again when it is let on.
  The violations of `evaluation_lost` and `evaluation_paused` have one cause each: a
  logged result is lost only if a statement of an evaluation failed in an open
  transaction (`OnlyFailedEvaluationsLose`), and an incident of a monitor that is
  not active is opened only if it was paused or archived while it was attended to
  (`OnlyPausesInBetweenOpen`; `Attended` follows what the claim or the API's read
  found up to the COMMIT).
- `LifecycleProofs`. For any number of engines, requests, monitors and thresholds,
  the evaluation implements `IncidentLifecycle` wherever the writes of each monitor
  are serial (`SerialWritesAreTheLifecycle`). The invariant `Serial` follows each
  writer beside the others: what it has read of its monitor stays true up to its COMMIT
  (`Reading`, `Judging`), because whoever else writes meanwhile writes another
  monitor and windows never look beyond one (`PublishOpens`), so that what is staged
  is what the history it ends asks for; rows are no later than the clock, and ids of
  incidents are apart. Every COMMIT is then one step of the abstract specification
  and every other statement, failure and crash a stutter, a waiver or an
  administration. From the same invariant: one open incident of a monitor at most
  (`SerialWritesOpenOnce`) and, with one pair of thresholds (`OnePair`), that no
  crossing is missed (`NoCrossingIsMissed`), which is inductive beside `Serial`: a
  judged result that ends a full streak has opened, and one that was kept unjudged
  behind it makes no claim. `OnlyOverlapDeparts` turns it round: a behaviour of the
  unrestricted specification that is not the lifecycle has two transactions on one
  monitor at a time. A single writer has none (`OneWriterIsTheLifecycle`). It is also
  what allows `Api` to take `create_check_result` as one step.
- `CheckSchedulingProofs`. Exclusive claims and claims still due are inductive
  together with the types: a stamp moves only rows its own claim holds
  (`StampKeeps`), and exclusiveness is what keeps it off the others. The action
  property that stamps move by an interval follows (`StampsOnlyMoveForward`; no run
  checks it, since the refinement says more). So does the refinement of
  `CheckSchedule` (`ClaimsAreAtomic`): the invariant `Claims` says of a transaction
  that holds rows that they are active and that its `NOW()` is past; that they are still
  due is `ClaimsStillDue`. It is inductive because a patch waits for the locks. The
  COMMIT is then the abstract claim, and the SELECT and each UPDATE are stutters.
  That a due monitor waits for a bounded number of claims (`WaitsAreBounded`) needs a
  measure: the monitors stamped later than it (`Ahead`). A claim that leaves it behind
  is full, and its COMMIT moves the whole batch among them (`CommitTurns`), because what
  it locked was no later when it was selected and nobody else can stamp it since. So
  the claims that passed it over, times the batch limit, are never more than `Ahead`
  holds (`Overtaken`), which is fewer than all monitors. The count alone is not
  inductive. `OnlyFailedStampsProbe` says that the violation of
  `scheduling_stamp_fails` has no other cause: where no stamping UPDATE fails, what is
  probed was stamped.
- `NotificationDeliveryProofs`. The bound on duplicates needs an account
  (`Paid`): a row's deliveries, plus the aborted transactions that have still to
  deliver it (`Doomed`), are at most the faults, plus one if the row is sent or
  about to be. Delivering needs `HeldOnce`: a row that is held is nobody else's
  and was not sent. The sets `Doomed` are counted with the library's facts on
  cardinality. That a row is delivered no more once it is sent (`SentRowsAreSettled`)
  follows from `HeldOnce`, which an aborted transaction no longer has for its rows.
- `RefreshTokensProofs`. A session's tokens that were not exchanged are a
  singleton (`HasHead`); an exchange replaces the head because the row its
  request holds is stored (`InHand`), what is stored was not exchanged, and
  nobody else holds it (`LocksExclusive`). New tokens are new because no jti
  exceeds the number encoded (`Numbered`). The refinement of `RefreshSessions`
  (`TokensAreSessions`) adds `Succession`: the token a request has inserted and not
  committed is new, the one it has deleted was told to some client, and expires no
  later, and `InTime`: what a request has deleted had not expired when its transaction
  began. So the COMMIT is one exchange.
- `AccountsProofs`. The inductive invariant `IInv` has what a request at its place
  has established (`Request`: the row it found is its email's, the password was
  verified), fresh ids that name one user (`FreshIds`), a clock that no failure is
  ahead of (`LockIsPast`) and, for locked accounts, that a client still before its
  verification has had none since the lock (`LockHolds`), without which "one at
  most" is not inductive. That a lock stands until its time or the password
  (`LocksNeedThePassword`) follows: a failure counted under a lock is past the limit and
  no earlier than the last, and a row is deleted for a verified password only, which
  `Request` remembers from the verification to the DELETE. The first rows are
  what `PossibleWorld` asks of them.
- `ApiProofs`. Every invariant and action property of `Api`. An answer once given
  must stay true while other clients write, so the inductive invariant judges all
  answers against the tables (`AllGood`), and a step keeps them because the tables
  only grow but for a monitor's other columns (`Grows`). To that it adds what a
  request at its place has established (`Request`: past the authorization its user
  is a member, or owner where the route asks one; a patch before its UPDATE is of a
  monitor that was not archived all along), the shape of an open transaction
  (`StagedAt`), that its rows are nobody else's (`SpacesApart`), and that what was
  archived when a request came is archived still unless a patch has revived it
  (`SealedHold`). The refinement of `Tenancy` (`RoutesAreTenancy`) adds the keys of
  channels and incidents and the order of results (`RowsApart`). A right looked up
  statements ago still holds at the write because no code takes a membership away;
  that an incident opens on a down and closes on an up follows as the newest row
  belongs to every window (`NewestDecides`). Assumed: `ScenariosAssumption`, first rows
  as the migrations and the program leave them (ids are keys, slugs unique, every
  workspace with its owner, columns within their CHECKs), and `RequestsAssumption`, the
  types of the bodies. That the first rows hold one open incident of a monitor at most
  is not assumed, since racing engines may have left two.

Only model-checked: that the tests are answered as they assert (`AnswersAsTested`, a
question about the given scripts and no others, which TLC answers by running them),
and every liveness property, since liveness under fairness and `ENABLED` are beyond
the prover. Induction over data and recursive operators are beyond it too; no
module here uses either.

## Not modelled

- The probes themselves, latency, the text of notifications and errors.
- Rate limits: `tower_governor`, a library, with three configurations.
- The HTTP and TCP of a probe and of a delivery; reading of the environment,
  `/health`, the JSON of bodies, the order and the limits of lists.
- The strength of hashes and signatures: a password verifies against its own hash
  only, a token decodes or does not.
- A panic that ends one of the engine's three loops (`main.rs:51`): the loops catch
  every error, and `join!` has no code for the rest.
- That a poll comes at all: `WaitsAreBounded` counts the claims that a due monitor
  waits for, not the time. It counts no claim that found the row locked by an INSERT
  or by another claim, and none that was rolled back.
- Deletion by cascade: no code deletes a workspace, a monitor row or a user.
- Statement interleavings inside one SQL statement, except for the row locks
  above.
- The API's and the database's clocks are one in `RefreshTokens`.

## Plan

In order of importance; the first six are done, the first, second, fourth and fifth
with an abstract specification and the proof that it is implemented. What is left is
open.

1. `IncidentEvaluation` with `IncidentLifecycle`, its runs and its invariants'
   proofs.
2. `CheckScheduling`, with proofs.
3. `NotificationDelivery`, with proofs.
4. `RefreshTokens`, with proofs.
5. `Api` with `Authorization`, `MonitorInput` and the tests, with proofs.
6. `Accounts` with the tests, with proofs.
7. `Pipeline`: a composition in which a monitor that stays down is claimed,
   probed, has its incident opened and its notification sent, as a liveness
   property over scheduling, evaluation and delivery.
8. Abstract specifications of delivery (an outbox whose duplicates are paid for by
   faults) and of the lockout (attempts counted one by one), with their refinements.
9. A due monitor is claimed in the end, as liveness: from the bound on the claims it
   waits for, with a clock without a bound.
