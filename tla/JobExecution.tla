---------------------------- MODULE JobExecution ----------------------------
(***************************************************************************)
(* The worker processes: Worker, its consume loops, and the execution      *)
(* service they call.  A worker runs Concurrency consume loops, all with   *)
(* the worker's one id; a slot <<w, i>> is loop i of worker w.  A slot     *)
(* stops between the transactions of execute, and everyone else may act    *)
(* there.  The pc of a slot names the next thing it does:                  *)
(*                                                                         *)
(*   idle          consume the queue                                       *)
(*   popped        _claim                                                  *)
(*   handling      the job type's handler, then the finalizer it calls for *)
(*   stopping      _finalize_cancelled                                     *)
(*   exhausted     _finalize_failed with dead_lettered = True              *)
(*   backoff       _schedule_retry                                         *)
(*   deadlettering queue.dead_letter, after that transaction committed     *)
(***************************************************************************)
EXTENDS JobStore

CONSTANT Concurrency  \* settings.worker_concurrency

ASSUME ConcurrencyIsPositive == Concurrency \in Nat \ {0}

VARIABLES
  slot,   \* per slot, where it is and which attempt of which job it runs
  alive   \* workers whose process has not died

workerVars == <<slot, alive>>

Slots == Workers \X (1 .. Concurrency)

PC == {"idle", "popped", "handling", "stopping", "exhausted", "backoff",
       "deadlettering"}

\* Where a slot is inside execute, its attempt claimed and not closed.
Executing == {"handling", "stopping", "exhausted", "backoff"}

Idle == [pc |-> "idle", job |-> NULL, attempt |-> 0]

WorkerTypeOK ==
  /\ slot \in [Slots -> [pc : PC, job : Jobs \cup {NULL}, attempt : Nat]]
  /\ \A s \in Slots : slot[s].pc # "idle" => slot[s].job \in Jobs
  /\ alive \in SUBSET Workers

WorkerInit ==
  /\ slot = [s \in Slots |-> Idle]
  /\ alive = Workers

-----------------------------------------------------------------------------
worker_id(s) == s[1]

At(s, pc) == worker_id(s) \in alive /\ slot[s].pc = pc

Goto(s, pc) == slot' = [slot EXCEPT ![s].pc = pc]

Return(s) == slot' = [slot EXCEPT ![s] = Idle]

Row(s) == jobs[slot[s].job]

\* JobAttemptRepository.finish
finish(s, outcome) ==
  job_attempts' = [job_attempts EXCEPT ![slot[s].job][slot[s].attempt] = outcome]

\* _mark_superseded: the guarded UPDATE of a finalizer matched no row.
mark_superseded(s) ==
  /\ finish(s, "superseded")
  /\ UNCHANGED <<jobs, job_events, notification_outbox>>

\* The body the three finalizers share: the guarded UPDATE leaves r, a row in
\* a terminal status, and the attempt, the event and the notification follow
\* in the same transaction.
Finalize(s, r) ==
  /\ UpdateJob(slot[s].job, r)
  /\ finish(s, r.status)
  /\ record(slot[s].job, r.status)
  /\ enqueue_terminal_notification(slot[s].job, r.status)

-----------------------------------------------------------------------------
\* _consume_loop: BRPOP takes an id off the queue for good.
Consume(s, j) ==
  /\ At(s, "idle")
  /\ consume(j)
  /\ slot' = [slot EXCEPT ![s] = [pc |-> "popped", job |-> j, attempt |-> 0]]
  /\ UNCHANGED <<tables, dead_letter, alive>>

\* Mutation: a message whose job cannot be claimed goes back to the queue.
Claim_mutant(s) ==
  /\ At(s, "popped")
  /\ \/ /\ Claimable(Row(s))
        /\ UpdateJob(slot[s].job, claim_for_execution(Row(s), worker_id(s)))
        /\ job_attempts' =
             [job_attempts EXCEPT ![slot[s].job] = Append(@, "running")]
        /\ record(slot[s].job, "running")
        /\ slot' = [slot EXCEPT ![s].pc = "handling",
                                ![s].attempt = Row(s).attempts + 1]
        /\ UNCHANGED queue
     \/ /\ ~Claimable(Row(s))
        /\ Return(s)
        /\ publish(slot[s].job)
        /\ UNCHANGED <<jobs, job_attempts, job_events>>
  /\ UNCHANGED <<dispatch_outbox, notification_outbox, dead_letter, alive>>

\* _claim.  A message whose job cannot be claimed is dropped.
Claim(s) ==
  /\ At(s, "popped")
  /\ \/ /\ Claimable(Row(s))
        /\ UpdateJob(slot[s].job, claim_for_execution(Row(s), worker_id(s)))
        /\ job_attempts' =
             [job_attempts EXCEPT ![slot[s].job] = Append(@, "running")]
        /\ record(slot[s].job, "running")
        /\ slot' = [slot EXCEPT ![s].pc = "handling",
                                ![s].attempt = Row(s).attempts + 1]
     \/ /\ ~Claimable(Row(s))
        /\ Return(s)
        /\ UNCHANGED <<jobs, job_attempts, job_events>>
  /\ UNCHANGED <<dispatch_outbox, notification_outbox, queue, dead_letter, alive>>

\* One turn of _heartbeat_loop, the task that runs beside the handler.
Heartbeat(s) ==
  /\ \E pc \in Executing : At(s, pc)
  /\ RunningBy(Row(s), worker_id(s))
  /\ UpdateJob(slot[s].job, heartbeat(Row(s)))
  /\ UNCHANGED <<job_attempts, job_events, dispatch_outbox,
                 notification_outbox, queue, dead_letter, workerVars>>

\* _report_progress, called by the handler after each of its steps.
ReportProgress(s) ==
  /\ At(s, "handling")
  /\ HeldBy(Row(s), worker_id(s))
  /\ UpdateJob(slot[s].job, update_progress(Row(s)))
  /\ UNCHANGED <<job_attempts, job_events, dispatch_outbox,
                 notification_outbox, queue, dead_letter, workerVars>>

\* _check_cancelled: at a checkpoint the handler sees the request and raises
\* JobCancelledError.  A checkpoint that sees none changes nothing.
CheckCancelled(s) ==
  /\ At(s, "handling")
  /\ Row(s).cancellation_requested_at # "null"
  /\ Goto(s, "stopping")
  /\ UNCHANGED <<storeVars, alive>>

-----------------------------------------------------------------------------
\* Mutation: the attempt is closed before the guarded UPDATE is tried.
FinalizeSucceeded_mutant(s) ==
  /\ At(s, "handling")
  /\ \/ /\ HeldBy(Row(s), worker_id(s))
        /\ Finalize(s, mark_succeeded(Row(s), slot[s].attempt))
     \/ /\ ~HeldBy(Row(s), worker_id(s))
        /\ finish(s, "succeeded")
        /\ UNCHANGED <<jobs, job_events, notification_outbox>>
  /\ Return(s)
  /\ UNCHANGED <<dispatch_outbox, queue, dead_letter, alive>>

\* _finalize_succeeded: the handler returned a result.
FinalizeSucceeded(s) ==
  /\ At(s, "handling")
  /\ \/ /\ HeldBy(Row(s), worker_id(s))
        /\ Finalize(s, mark_succeeded(Row(s), slot[s].attempt))
     \/ /\ ~HeldBy(Row(s), worker_id(s))
        /\ mark_superseded(s)
  /\ Return(s)
  /\ UNCHANGED <<dispatch_outbox, queue, dead_letter, alive>>

\* _finalize_failed(dead_lettered = False): the handler raised
\* NonRetryableError.
FinalizeFailed(s) ==
  /\ At(s, "handling")
  /\ \/ /\ HeldBy(Row(s), worker_id(s))
        /\ Finalize(s, mark_failed(Row(s), FALSE))
     \/ /\ ~HeldBy(Row(s), worker_id(s))
        /\ mark_superseded(s)
  /\ Return(s)
  /\ UNCHANGED <<dispatch_outbox, queue, dead_letter, alive>>

\* Mutation: the guard is that of a job nobody wants to stop.
FinalizeCancelled_mutant(s) ==
  /\ At(s, "stopping")
  /\ \/ /\ RunningBy(Row(s), worker_id(s))
        /\ Finalize(s, finalize_cancelled_by_worker(Row(s)))
     \/ /\ ~RunningBy(Row(s), worker_id(s))
        /\ mark_superseded(s)
  /\ Return(s)
  /\ UNCHANGED <<dispatch_outbox, queue, dead_letter, alive>>

\* _finalize_cancelled
FinalizeCancelled(s) ==
  /\ At(s, "stopping")
  /\ \/ /\ HeldBy(Row(s), worker_id(s))
        /\ Finalize(s, finalize_cancelled_by_worker(Row(s)))
     \/ /\ ~HeldBy(Row(s), worker_id(s))
        /\ mark_superseded(s)
  /\ Return(s)
  /\ UNCHANGED <<dispatch_outbox, queue, dead_letter, alive>>

\* A finalizer whose notification cannot be stored raises.  Its transaction is
\* undone and _process logs the error: the job stays running, with a lease
\* that nobody renews.
FinalizeRaises(s) ==
  /\ At(s, "handling") \/ At(s, "stopping") \/ At(s, "exhausted")
  /\ HeldBy(Row(s), worker_id(s))
  /\ slot[s].job \in Unnotifiable
  /\ Return(s)
  /\ UNCHANGED <<storeVars, alive>>

\* _handle_retryable: the handler raised RetryableError or anything else
\* unexpected.  The cancellation flag is read in a transaction of its own,
\* and what is read decides which transaction comes next.
HandleRetryable(s) ==
  /\ At(s, "handling")
  /\ Goto(s, IF Row(s).cancellation_requested_at # "null" THEN "stopping"
             ELSE IF slot[s].attempt >= Row(s).max_attempts THEN "exhausted"
             ELSE "backoff")
  /\ UNCHANGED <<storeVars, alive>>

\* Mutation: the dead letter is pushed though the finalizer matched no row.
FinalizeExhausted_mutant(s) ==
  /\ At(s, "exhausted")
  /\ \/ /\ HeldBy(Row(s), worker_id(s))
        /\ Finalize(s, mark_failed(Row(s), TRUE))
     \/ /\ ~HeldBy(Row(s), worker_id(s))
        /\ mark_superseded(s)
  /\ Goto(s, "deadlettering")
  /\ UNCHANGED <<dispatch_outbox, queue, dead_letter, alive>>

\* _finalize_failed(dead_lettered = True)
FinalizeExhausted(s) ==
  /\ At(s, "exhausted")
  /\ \/ /\ HeldBy(Row(s), worker_id(s))
        /\ Finalize(s, mark_failed(Row(s), TRUE))
        /\ Goto(s, "deadlettering")
     \/ /\ ~HeldBy(Row(s), worker_id(s))
        /\ mark_superseded(s)
        /\ Return(s)
  /\ UNCHANGED <<dispatch_outbox, queue, dead_letter, alive>>

\* The queue.dead_letter that follows it.
PushDeadLetter(s) ==
  /\ At(s, "deadlettering")
  /\ push_dead_letter(slot[s].job)
  /\ Return(s)
  /\ UNCHANGED <<tables, queue, alive>>

\* _schedule_retry
ScheduleRetry(s) ==
  /\ At(s, "backoff")
  /\ \/ /\ RunningBy(Row(s), worker_id(s))
        /\ UpdateJob(slot[s].job, schedule_retry(Row(s)))
        /\ finish(s, "failed")
        /\ record(slot[s].job, "retrying")
        /\ UNCHANGED notification_outbox
     \/ /\ ~RunningBy(Row(s), worker_id(s))
        /\ mark_superseded(s)
  /\ Return(s)
  /\ UNCHANGED <<dispatch_outbox, queue, dead_letter, alive>>

-----------------------------------------------------------------------------
(***************************************************************************)
(* Failures.                                                               *)
(***************************************************************************)

\* _process logs whatever a transaction or a Redis call of execute raises and
\* the loop goes on with the next message; the heartbeat is stopped.
ExecuteError(s) ==
  /\ worker_id(s) \in alive
  /\ slot[s].pc # "idle"
  /\ Return(s)
  /\ UNCHANGED <<storeVars, alive>>

\* The process dies, or is told to stop: run cancels its consume loops.  It
\* comes back under a fresh worker id, a worker that has been idle so far.
Crash(w) ==
  /\ w \in alive
  /\ alive' = alive \ {w}
  /\ slot' = [s \in Slots |-> IF worker_id(s) = w THEN Idle ELSE slot[s]]
  /\ UNCHANGED storeVars

=============================================================================
