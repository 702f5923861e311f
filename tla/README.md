# A TLA+ verification of the distributed job orchestrator

The orchestrator accepts jobs over HTTP, stores them in PostgreSQL, delivers
their ids through Redis lists, runs them in worker processes and repairs
whatever got lost from a scheduler process. This directory holds TLA+ modules
translated from its backend (`src/backend/app`), the TLC configurations that
check them on small instances, and TLAPS proofs of the main results for every
instance. Paths below are relative to `src/backend/app` unless they start
with `src/`.

## 1. The system

| Component | State it keeps | Operations | What makes it correct |
| --- | --- | --- | --- |
| Job repository (`repositories/job_repository.py`, `db/models.py`) | `jobs` rows: status, attempts, lease, deadlines, cancellation flag, result | one guarded UPDATE per operation; scan queries with `FOR UPDATE SKIP LOCKED` | a row that has ended never changes; the lease is set exactly while somebody executes; no row waits where no scan looks |
| Submission (`services/job_submission_service.py`, `POST /jobs`) | none of its own | lookup by key, count, insert, second lookup: up to three transactions | one job per user and key; quota |
| Cancellation (`services/job_cancellation_service.py`) | none | one transaction under the row lock | a cancelled job never runs again; a job told to stop ends |
| Dispatch, retry, lease, expiry (`services/*_service.py`) and the tick (`workers/scheduler.py`) | ids still to be pushed, in memory | a transaction over a batch, then one Redis push per id | at-least-once delivery after commit; dead letter once |
| Execution (`services/job_execution_service.py`, `workers/worker.py`) | per consume loop: job, attempt, position in `execute` | claim, heartbeat, progress, checkpoint, finalize, schedule retry, dead letter | only the newest attempt writes; at most `max_attempts` starts; one result |
| Redis queue (`queue/redis_queue.py`) | copies of ids, dead letters | LPUSH, BRPOP; no persistence (`src/docker-compose.yml`) | may lose or repeat an id without harm |
| Notification outbox (`services/notification_service.py`) | outbox rows | enqueue with the terminal update; deliver a batch in one transaction | the notification tells the outcome; every one is settled |
| Handlers (`domain/job_catalog.py`) | per running attempt: step, reported progress | checkpoint, step, report, result, three kinds of error | progress and outcome belong to the attempt that holds the job; work stops soon after a cancellation |
| Listing (`services/job_read_service.py`, `core/pagination.py`) | nothing but the client's cursor | first page, next page | no job twice, none skipped, whatever happens between the pages |
| Backoff numbers, health, other reads, frontend | - | - | not modelled, see section 7 |

API, workers and scheduler never talk to each other: they meet in the tables
and in Redis. What is hard: any of them may act between two transactions of
another; a Redis push is never atomic with the commit before it; processes die
and restart, Redis forgets, ids are delivered twice or late, leases lapse while
the handler is still running, a webhook call cannot be rolled back, and one row
that cannot be written undoes the batch it is in.

## 2. Modules

```
JobDomain        statuses, transition table, groups of the WHERE clauses
JobRepository    the guarded UPDATEs and scan queries, on one row
JobStore         tables + Redis lists, statements of transactions
JobApi, JobExecution, Scheduler     one process kind each, on JobStore
Orchestrator     their composition, the clock, failures, fairness
JobLifecycle     abstract: the life of a job as its user sees it
OrchestratorProperties              the properties, the refinement mapping
Submission       POST /jobs, transaction by transaction
NotificationDelivery                the outbox and its dispatchers
JobCatalog       the handlers, inside the orchestrator (extends Orchestrator)
JobListing       GET /jobs, page by page, while the table changes
MC*              symmetry sets and small payloads for TLC
JobRowProofs -> OrchestratorProofs -> FencingProofs -> AuditProofs -> CatalogProofs
SubmissionProofs, DeliveryProofs, ListingProofs
```

How they correspond to the code:

- **Rows.** A method of `JobRepository` is a guard (`HeldBy`, `Claimable`, ...)
  and the row its SET clause leaves. A timestamp is only ever compared with the
  clock or with NULL, so it is abstracted to the deadline it stands for:
  `"null"`, `"future"`, `"past"`. Columns no query reads back are left out.
  `result` is the number of the attempt that computed it.
- **Transactions** are single steps. Scans and the cancel endpoint hold row
  locks, all other updates are one guarded UPDATE, which PostgreSQL
  re-evaluates on the newest version of the row. Reads that decide what a
  *later* transaction does are steps of their own: `HandleRetryable` reads the
  cancellation flag, `ScheduleRetry` and the finalizers act on it afterwards.
- **Pushes** to Redis are steps of their own (`Publish`, `DeadLetter`,
  `PushDeadLetter`); the ids still to be pushed are process memory
  (`to_publish`, `to_dead_letter`) and are lost when the tick fails.
- **A worker** has `Concurrency` loops, slots `<<w, i>>`, all with id `w`. A
  handler is any number of progress reports and checkpoints ended by a result,
  a cancellation, a non-retryable or a retryable error. A restarted process has
  a fresh id, so a dead worker stays dead and a spare worker plays its return.
- **The clock** is `Elapse`: any deadline may pass at any time while some scan
  compares it.
- **Failures** (`Faults`) are switched on per run: a worker dies, `execute`
  raises, a tick raises or the scheduler restarts, rows are locked by others
  (a batch smaller than LIMIT allows), Redis restarts.
- **Unnotifiable jobs.** `notify_webhook` is stored without a length check and
  copied to a column of 255 characters when the job ends. For the jobs in
  `Unnotifiable` that INSERT raises: a finalizer gives up (`FinalizeRaises`), a
  scan rolls back its whole batch and the tick ends (`ScanRaises`), the cancel
  endpoint answers with an error and changes nothing.
- **Submission** names a job by the request that inserts it. `Count` and
  `Insert` are two steps of one READ COMMITTED transaction that locks nothing;
  a transaction needs one of `Connections` pool connections.
- **NotificationDelivery** keeps what an open transaction wrote apart from the
  committed outbox (`written`), so that a rollback forgets it while `received`,
  the world's view, remembers. Two histories say why a receiver may be told
  again: `forgotten` holds the rows of which a call was rolled back,
  `unanswered` those whose receiver acted on a call that failed for the caller
  (a timeout, an error status). The order of `next_attempt_at` is the relation `before` on the
  set `due`, and a batch is a set that is worked on in that order: the provers
  reason about sets and relations, and have no facts about a selection from a
  sequence.
- **JobCatalog** replaces the orchestrator's arbitrary handler by the five real
  ones. `step` is the place inside the handler (checkpoint, work, end; index of
  `_run_steps`), `progress` the column. `Work` is what `normalize_payload` lets
  through. Every step of it is a step of `Orchestrator` or invisible there
  (`ImplementsOrchestrator`), so that its safety properties carry over. A
  result or an error may meet a finalizer that raises (`FinalizeRaises`). The
  number of steps is below 50 because up to there the floating-point
  `int((index + 1) / steps * 100)` equals the integer quotient; from 50 on it
  may be one lower (29 of 50 steps show 57 percent).
- **JobListing** keeps a job's row from the moment `_create` reads the clock
  (`"uncommitted"`) to its commit, since only then it becomes visible, possibly
  behind rows with a later `created_at`. A page is a query on the committed
  rows; `steady` and `ever` remember which jobs matched the client's filters
  all the time and at any time since its first page. Status changes follow
  the transition table, and the claim that starts a `retrying` job.

## 3. Runs that pass

| Run | Instance | Checks |
| --- | --- | --- |
| `one_job` | 1 job, limits 1-3, 2 workers x 1 loop, every failure, cancellation | all safety invariants, `TerminalIsFinal`, refinement of `JobLifecycle` |
| `two_jobs` | fair; 2 jobs, batch of 2, some rows locked, the end of one cannot be announced | no end without its notification, dead letters of the right rows, `EventuallyTerminal` for the other job |
| `progress` | fair; every failure, until they cease | `EventuallyTerminal`, `EventuallyQuiet` |
| `submissions` | 4 requests, 2 users, 1 key, quota 1, 2 connections, errors | `SameKeySameJob`, `ConflictIsResolved`, `OvershootBounded` |
| `delivery` | fair; 3 notifications, 2 dispatchers, lost answers, rollbacks, one bad address | `OneDispatcherPerRow`, `OutcomeIsEarned`, `CallsAreCounted`, `NotifiedTwiceOnlyAfterLoss`, `SettledUnlessPoisoned` |
| `listing` | 3 jobs, 2 users, 2 types, 3 statuses, page sizes 1-2, 2 instants | `PagesDescend`, `NothingSkipped` |
| `handlers` | fair; 1 job, 2 attempts, 2 workers, four payloads, failing transactions inside handlers | `SucceededShows100`, `ProgressFallsOnlyOnRestart`, `CancelStopsWork`, `OutcomeFitsType`, `CooperativeCancel`, refinement of `Orchestrator` |

Bounds and why they suffice. Three attempts allow a stale attempt, its
successor and a last one; two loops are enough for every pairwise race, and no
guard in the code compares three attempts. Two jobs are enough to mix up rows
of a batch. `MaxCopies` caps the copies of one id that redelivery may add: two
copies already let two loops hold the same id. `MaxReceived` caps repeated
calls. Three jobs and two instants make two jobs share a `created_at` with a
third on either side of the cursor, and pages of one and two rows meet full and
half-full last pages. Two steps of work are a first and a later one, which is
all `_run_steps` tells apart. In `handlers` every end can be announced, since an
exception for a second job would multiply its states; the proofs about handlers
hold for any `Unnotifiable`, and the finalizer that raises fires in `two_jobs`.
Runs that pass have one loop per worker; the
proofs of section 5 need none of these bounds, and except for fencing and the
fall of progress they hold
for any number of loops.

Every property is paired with a mutated definition under which TLC finds it
violated (`mutants` in `PROJECT.json`; the mutated forms carry the comment
"Mutation:" and stand before the definition they mutate).

### Fairness

`Orchestrator!FairSpec` assumes that a live consume loop keeps going (BRPOP
returns an id that is there; handlers and transactions end), that the scheduler
keeps ticking (`run` catches every exception of a tick; that a process that
died is started again is left to the operator, `src/docker-compose.yml` has no
restart policy), that time passes (a lease is only sure to lapse once no loop renews
it), and that failures, however many, eventually cease (`<>[][Calm]_vars`). The
last worker does not die for good. Nothing is assumed of users, of heartbeats
or of the age of a job, and no job is assumed to succeed.
`NotificationDelivery!FairSpec` assumes that a dispatcher keeps ticking, that
calls end (they have a timeout), that a backoff elapses and that failures of
the tick cease. `JobCatalog!CatalogFairness` is the loops' part of `FairSpec`
with a handler's next step in the place of "the handler ends".

## 4. Runs that show a disagreement

Each checks one sentence of the documents and finds a behaviour of the code
that contradicts it; `findings` in `PROJECT.json` quotes the sentence.

| Run | What happens |
| --- | --- |
| `cancel_retry_race` | a cancellation is accepted between the worker's check and `schedule_retry`; the guard (`running`) matches nothing, the attempt is closed as superseded, and the job stays `cancelling` for good |
| `cancel_crash` | the worker of a `cancelling` job dies; `find_expired_leases` selects `running` only |
| `shared_fencing` | with two loops per process (the default is four) the lease guard cannot tell a reaped attempt from its sibling's; the stale one may write a result or schedule a retry beyond `max_attempts` |
| `poisoned_reaper` | a job with no attempt left whose address does not fit the outbox makes every `reap_expired` raise; another expired lease of the batch is never reaped and its job stays `running` |
| `poisoned_batch` | an address that cannot be parsed (a port that is no number, say) raises `InvalidURL`, which is no `HTTPError`; the batch is rolled back and all its rows are due again. In the trace the other row comes before the bad one: its receiver is told in every tick, and the row is never settled |

Some smaller differences between documents and code are part of the models
without a run of their own; the properties say what holds in spite of them:

- `dispatch_pending` ignores what `mark_queued` matched, so a job cancelled
  before its dispatch is published and gets a QUEUED event after its end:
  the exception in `TimelineFollowsStatus`.
- A leftover id starts a `retrying` job before it is due, an edge the
  transition table does not have: `Starts` in `JobLifecycle`.
- A requeued or promoted job may be expired with the message "before it
  started running".
- The documents promise that "a user is never notified twice" (`src/README.md`
  line 263, `src/docs/DESIGN.md` lines 67 and 338, `src/docs/ADR.md` line 56).
  The unique key keeps a second *row* out of the outbox; it does not keep a
  receiver from being called twice about one row, which the code does in two
  cases. An answer is lost: the receiver acts on the call, the caller sees a
  timeout or an error status, `_on_failure` reschedules the row and the call is
  made again, up to `notification_max_attempts` times. Or a rollback: the call
  is made, a later row of the batch or the commit fails, and the attempt is
  forgotten and repeated without being counted. `NotifiedTwiceOnlyAfterLoss`
  says that there is no third case, and `CallsAreCounted` bounds the first one.
- `src/docs/DESIGN.md` line 274 says of errors that are not retried that the
  system will "dead-letter the rest"; the code, and
  `src/backend/tests/test_execution.py` line 28, fail such a job without a dead
  letter, as `OutcomeFitsType` says.
- Events carry the start of their transaction, so a transaction that waited for
  a row lock is listed before the one it waited for; `TimelineFollowsStatus` is
  about the order of the commits.
- A dead letter whose push fails after the commit is never pushed:
  `DeadLetterAtMostOnce` promises no more than its name.
- Two requests that count before either commits overshoot the quota:
  `OvershootBounded` says by how much. A duplicate request that counts after
  its original committed may be answered 429 instead of with the job.

## 5. What is proved

With TLAPS, for any sets of jobs, workers, notifications and requests, any
number of loops, batch size, attempt limits and faults. The orchestrator has one
scheduler, as the deployment does; delivery is proved for any set of them.
Assumptions on constants are the named `ASSUME`s (positive limits and sizes,
NULL is no worker, key or cursor, finite sets of requests and of job ids,
payloads that `normalize_payload` lets through), evaluated by TLC on the runs.

- **`JobRowProofs`.** `Change` lists what a step may do to one job's row,
  dispatch row and notifications. `ChangeKeepsRowOK`: every such change
  preserves `RowOK`, the per-row invariant (notification, lease, reachability,
  cancellation, freshness).
- **`OrchestratorProofs`.** `EveryStepIsAChange`: each step is, for every job,
  a `Change`. For the finalizers this needs more than the row: that the attempt
  a loop writes is one the job has had, and that a loop on its way to
  `_finalize_cancelled` has seen a flag that is never taken back, so that it
  cannot cancel a job that was not asked to be. Hence
  `CoreInv == TypeOK /\ RowsOK /\ SlotsOK`. From it: `TypeCorrect`,
  `NotificationCorrect`, `LeaseCorrect`, `NothingIsStranded`,
  `CancellationCorrect`, `TerminalCorrect`; and `Refinement`: the system
  implements `JobLifecycle` under the mapping `View`.
- **`FencingProofs`.** Assuming `Concurrency = 1`: `FencingCorrect` and
  `AttemptsAreBounded`. `Fencing` alone is inductive with `CoreInv` (a claimable
  job is unlocked, so the claiming loop becomes its only owner), but the attempt
  bound needs two companions: a loop about to schedule a retry has an attempt
  left (`BackoffOK`), and a job that can still be started has one (`BudgetOK`);
  the two meet through `Fencing`, which says that the loop's attempt is the
  job's count. The assumption is necessary: `shared_fencing` is
  a counterexample for two loops.
- **`AuditProofs`.** For any number of loops: `AttemptsAreAudited` and
  `SingleWinnerAlways`. The invariant is `CoreInv` with both properties: that
  no two loops own one row of `job_attempts` is what lets a loop close its row
  without touching another's, and that an open row is `running` is what makes
  the winner unique when its loop closes it. Each step opens one row (a claim),
  closes one (`Closes`, as succeeded exactly if it also writes the result) or
  leaves the table alone (`AuditStays`). No lease is needed for this, so it
  survives where `shared_fencing` shows that fencing does not.
  The trail a job leaves is in the same module: `DeliveredCorrect`,
  `TimelineCorrect`, `DeadLetterCorrect`. Their invariant `TrailInv` adds
  `TrailStarts` to `CoreInv` and the three properties: a dispatch row exists
  from the submission on, and a dispatch time is set only with the row
  published. That is why an id can only be pushed or found by a scan after its
  dispatch, and why the one late QUEUED event is that of a job cancelled before
  it. `DeadLetterAtMostOnce` is proved job by job (`LetterOK`): the step that
  fails a job for good finds it unended, so nobody owes it a dead letter yet,
  and whoever commits that step is the only one that owes it afterwards.
- **`CatalogProofs`.** `CatalogRefines`: every step with the real handlers is
  one of the orchestrator or invisible there, so that `CoreInv`, `AuditInv` and
  `TrailInv` hold with them; the rest stands on those. `PlaceOK` says how far a
  handler can be: not past its first checkpoint with an error to raise before
  it, and past a late step only at a checkpoint or at the end. From it come
  `CatalogTypeCorrect` and `CancelStopsTheHandler`. `SucceededShowsAll` and
  `OutcomesFit` follow because a step succeeds or fails a job only by the
  handler it came from (`HandlersDecide`) and nothing changes an ended row or
  its progress. `ProgressNeverFallsBack` assumes `Concurrency = 1`: only then
  does the lease guard of `update_progress` single out the newest attempt. Its
  companion `ProgressIsReported` says that the column shows what the holder of
  the job reported last, once it has reported anything.
- **`SubmissionProofs`.** `SubmissionTypeCorrect`; `SameKeySameJobAlways` and
  `ConflictIsAlwaysResolved` from the invariant that two stored jobs of one user
  never share a key and an answer always names a job with the key of its
  request; `OvershootIsBounded` by counting admitted requests together with
  active jobs.
- **`DeliveryProofs`.** `DeliveryTypeCorrect`, `OneDispatcherAlways`,
  `OutcomeIsAlwaysEarned`, `CallsAreAlwaysCounted`, `TwiceOnlyAfterLoss`. What is
  written in an open
  transaction is not committed, so the invariant has to say what it is: a row a
  transaction wrote is `mark_sent` of the locked row, and then its receiver was
  told, or `on_failure` of it, and it is no longer in the batch
  (`TransactionsOK`). Due rows are pending (`DueIsPending`), which is what a
  lock is taken on. The number of transactions that wrote a row, by which
  `CallsAreCounted` counts, is zero or one because of `OneDispatcherPerRow`.
  `TwiceOnlyAfterLoss` needs `ToldOK`: once the receiver of a row was told, and
  neither its answer nor the transaction was lost, the row is sent or will be by
  the transaction that still holds it, so that nobody calls again.
- **`ListingProofs`.** `ListingTypeCorrect`, `PagesAlwaysDescend`,
  `NothingIsSkipped`. The invariant is what a cursor stands for (`CursorOK`): a
  row that was shown, with its `created_at`; everything else shown precedes it,
  and everything that matched all the time and was not shown comes after it. It
  survives the steps of others because a row keeps its `created_at` from before
  its commit on. The extra row enters through `WholePage`: a query that is not
  cut off by its limit has returned all there is.

Only model-checked is liveness (`EventuallyTerminal`, `EventuallyQuiet`,
`CooperativeCancel`, `SettledUnlessPoisoned`): fairness and ENABLED are outside
TLAPS' reach. So is induction over data, hence nothing here is defined by a
RECURSIVE operator. Every other property of a passing run is a theorem.

## 6. Plan

Done, in this order: rows and store; worker, scheduler and API; composition and
failures; core invariant and refinement; submission; delivery; fencing;
unnotifiable jobs; listing; handlers; the audit of attempts; the trail of a job;
the proofs about handlers, delivery and the listing.

Next:

1. That `before` is a strict total order on the due rows and that calls of one
   transaction follow it, from which an open transaction can always go on.
2. What fencing still gives with several loops per worker: the loops that pass
   the lease guards all belong to the process that claimed the job last.

## 7. Not modelled

- Backoff values (floating point with jitter): the models allow any delay.
- `GET /jobs/{id}`, its events and the summary: single reads that carry nothing
  over. A cursor the API did not issue: it is answered 400, or is a position
  like any other.
- The order between and within the priority lists: a loop may take any id that
  is there. The documents accept that low priorities starve, and no property
  depends on the order.
- Health, schemas, logging, configuration loading, migrations beyond the empty
  initial tables, scripts and the dashboard: they change no state of the
  system, or only through the modelled endpoints.
- Body and HMAC signature of webhook calls.
- Retries inside the Redis client: one `publish` or `dead_letter` is one push,
  which happened or did not.
- Real time: that a batch of slow webhook calls delays the next tick.
- The number of copies an id may have in Redis: `redeliver_stuck` adds one per
  `queue_stuck_seconds` without a limit, and no property states one.
