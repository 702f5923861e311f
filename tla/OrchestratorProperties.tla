----------------------- MODULE OrchestratorProperties -----------------------
(***************************************************************************)
(* What makes the orchestrator correct.                                    *)
(***************************************************************************)
EXTENDS Orchestrator

-----------------------------------------------------------------------------
(***************************************************************************)
(* Safety, whatever the number of loops per worker.                        *)
(***************************************************************************)

\* A job has a notification exactly when it has ended, and it is the one that
\* tells its outcome: every transaction that makes a status terminal enqueues
\* it, and no second terminal status ever follows
\* (enqueue_terminal_notification and its five callers).
NotificationMatchesOutcome ==
  \A j \in Jobs :
    notification_outbox[j] =
      IF is_terminal(jobs[j].status) THEN {jobs[j].status} ELSE {}

\* The lease columns are set exactly while a job is being executed, so that
\* the guards on locked_by mean what they say.
LeaseDiscipline ==
  \A j \in Jobs :
    LET held == jobs[j].status \in FINALIZABLE
    IN  /\ (jobs[j].locked_by # NULL) <=> held
        /\ (jobs[j].lock_expires_at # "null") <=> held

\* No job waits where no scan looks: a pending job has a pending dispatch row,
\* a queued one a dispatch time, a retrying one a due time, a running one a
\* lease that can lapse.
NothingStranded ==
  \A j \in Jobs :
    /\ jobs[j].status = "pending" <=> dispatch_outbox[j] = "pending"
                                      /\ jobs[j].status \notin {"cancelled", "expired"}
    /\ jobs[j].status = "queued" => jobs[j].last_dispatched_at # "null"
    /\ jobs[j].status = "retrying" <=> jobs[j].next_attempt_at # "null"
    /\ jobs[j].status = "running" => jobs[j].lock_expires_at # "null"

\* A job whose cancellation was accepted is never queued, retried, started or
\* expired again: it is being stopped, or it has ended.
CancellationIsFinal ==
  \A j \in Jobs :
    jobs[j].cancellation_requested_at # "null" =>
      jobs[j].status \in {"cancelling", "cancelled", "succeeded", "failed"}

\* An id in the queue, on its way there or taken from there belongs to a job
\* whose dispatch was committed (commit, then publish): no worker is woken for
\* a job that is still pending.
DeliveredIsDispatched ==
  \A j \in Jobs :
    (\/ queue[j] > 0
     \/ j \in to_publish
     \/ \E s \in Slots : slot[s].pc # "idle" /\ slot[s].job = j)
      => dispatch_outbox[j] = "published" /\ jobs[j].status # "pending"

\* job_attempts has one row per started attempt, a loop inside execute owns an
\* open row, and no two loops own the same one.
AttemptsAudited ==
  /\ \A j \in Jobs : Len(job_attempts[j]) = jobs[j].attempts
  /\ \A s \in Slots :
       slot[s].pc \in Executing =>
         /\ slot[s].attempt \in 1 .. jobs[slot[s].job].attempts
         /\ job_attempts[slot[s].job][slot[s].attempt] = "running"
  /\ \A s, t \in Slots :
       /\ slot[s].pc \in Executing
       /\ slot[t].pc \in Executing
       /\ slot[s].job = slot[t].job
       /\ slot[s].attempt = slot[t].attempt
       => s = t

\* At-least-once execution, single-commit results: a job has a result exactly
\* when it succeeded, it is the result of the one attempt recorded as
\* succeeded, and every other attempt was closed otherwise or abandoned.
SingleWinner ==
  \A j \in Jobs :
    /\ (jobs[j].status = "succeeded") <=> (jobs[j].result # 0)
    /\ \A n \in DOMAIN job_attempts[j] :
         (job_attempts[j][n] = "succeeded") <=> (jobs[j].result = n)

\* The event recorded last, in the order of the commits, names the job's status
\* (events.record beside every guarded UPDATE).  The exception is a job that
\* ended before its first dispatch: dispatch_pending, which does not look at
\* what mark_queued matched, then adds that the job was queued.
TimelineFollowsStatus ==
  \A j \in Jobs :
    \/ job_events[j] = jobs[j].status
    \/ /\ jobs[j].status \in {"cancelled", "expired"}
       /\ jobs[j].last_dispatched_at = "null"
       /\ dispatch_outbox[j] = "published"
       /\ job_events[j] = "queued"

\* A job is pushed to the dead letters at most once, by the worker or by the
\* lease reaper, and only after it was committed as failed and dead-lettered.
DeadLetterAtMostOnce ==
  \A j \in Jobs :
    LET pushing == {s \in Slots : slot[s].pc = "deadlettering" /\ slot[s].job = j}
    IN  /\ j \in to_dead_letter => dead_letter[j] = 0 /\ pushing = {}
        /\ \A s \in pushing : dead_letter[j] = 0 /\ pushing = {s}
        /\ dead_letter[j] <= 1
        /\ (j \in to_dead_letter \/ pushing # {} \/ dead_letter[j] = 1)
             => jobs[j].status = "failed" /\ jobs[j].dead_lettered_at # "null"

\* The row of a job that has ended never changes again, not even by the
\* heartbeat, the progress report or the finalizer of an attempt that was
\* given up on, nor by the dispatch of its still pending outbox row.
TerminalIsFinal ==
  [][\A j \in Jobs : is_terminal(jobs[j].status) => jobs'[j] = jobs[j]]_vars

\* The refinement mapping: what GET /jobs/{id} and the notifications tell.
View ==
  [j \in Jobs |->
    [status |-> jobs[j].status, attempts |-> jobs[j].attempts,
     result |-> jobs[j].result, notified |-> notification_outbox[j]]]

Lifecycle == INSTANCE JobLifecycle WITH view <- View

\* The whole system implements the life of a job its user is promised: every
\* step of a worker, the scheduler or the API is, for each job, a step of that
\* life or invisible.
ImplementsLifecycle == Lifecycle!Spec

-----------------------------------------------------------------------------
(***************************************************************************)
(* Safety when a worker runs one loop, so that the worker id in locked_by  *)
(* identifies the attempt.                                                 *)
(***************************************************************************)

\* The lease guards of the finalizers let through only the newest attempt: an
\* attempt whose lease was reaped cannot touch its successor's job.
Fencing ==
  \A s \in Slots :
    /\ slot[s].pc \in Executing
    /\ HeldBy(jobs[slot[s].job], worker_id(s))
    => slot[s].attempt = jobs[slot[s].job].attempts

\* A job is never started more often than its max_attempts, over retries,
\* reaped leases and duplicate deliveries together.
AttemptsBounded ==
  \A j \in Jobs : jobs[j].attempts <= jobs[j].max_attempts

-----------------------------------------------------------------------------
(***************************************************************************)
(* Liveness, under FairSpec.                                               *)
(***************************************************************************)

\* A submitted job that nobody cancels and whose end can be announced ends,
\* however workers and ticks fail, and whatever else waits in the tables.
EventuallyTerminal ==
  \A j \in Jobs \ (Cancellable \cup Unnotifiable) :
    jobs[j].status = "pending" ~> is_terminal(jobs[j].status)

\* Everything about a job that has ended comes to rest: its copies leave the
\* queue, the loops that still hold them let go, and nothing publishes it again
\* (redeliver_stuck adds copies while a job waits; _claim drops them).
EventuallyQuiet ==
  \A j \in Jobs :
    is_terminal(jobs[j].status) ~>
      [](/\ queue[j] = 0
         /\ j \notin to_publish \cup to_dead_letter
         /\ \A s \in Slots : slot[s].job # j)

\* A job whose worker was told to stop it ends.
CancelResolves ==
  \A j \in Jobs : jobs[j].status = "cancelling" ~> is_terminal(jobs[j].status)

=============================================================================
