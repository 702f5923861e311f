------------------------------- MODULE JobApi -------------------------------
(***************************************************************************)
(* The write endpoints of the HTTP API, each one transaction: submission   *)
(* of a job whose idempotency key is new and which is admitted, and        *)
(* cancellation under the lock of the job's row.                           *)
(***************************************************************************)
EXTENDS JobStore

CONSTANTS
  AttemptLimits,  \* values of max_attempts a submission may carry
  Cancellable     \* jobs whose user may ask for cancellation

ASSUME LimitsArePositive == AttemptLimits \subseteq Nat \ {0}

\* Mutation: a second write publishes the id without waiting for dispatch.
Submit_mutant(j, limit) ==
  /\ jobs[j].status = "absent"
  /\ UpdateJob(j, NewRow(limit))
  /\ record(j, "pending")
  /\ dispatch_outbox' = [dispatch_outbox EXCEPT ![j] = "pending"]
  /\ publish(j)
  /\ UNCHANGED <<job_attempts, notification_outbox, dead_letter>>

\* JobSubmissionService._create: the job, its event and its dispatch row.
Submit(j, limit) ==
  /\ jobs[j].status = "absent"
  /\ UpdateJob(j, NewRow(limit))
  /\ record(j, "pending")
  /\ dispatch_outbox' = [dispatch_outbox EXCEPT ![j] = "pending"]
  /\ UNCHANGED <<job_attempts, notification_outbox, queue, dead_letter>>

\* Mutation: the request leaves no trace in the timeline.
RequestCancellation_mutant(j) ==
  /\ jobs[j].status = "running"
  /\ UpdateJob(j, request_running_cancellation(jobs[j]))
  /\ UNCHANGED <<job_events, notification_outbox>>

\* JobCancellationService.cancel of a running job only raises the flag.
RequestCancellation(j) ==
  /\ jobs[j].status = "running"
  /\ UpdateJob(j, request_running_cancellation(jobs[j]))
  /\ record(j, "cancelling")
  /\ UNCHANGED notification_outbox

\* Its cancel of a job nobody runs is final at once.
CancelInactive(j) ==
  /\ jobs[j].status \in INACTIVE_CANCELLABLE
  /\ UpdateJob(j, cancel_inactive(jobs[j]))
  /\ record(j, "cancelled")
  /\ enqueue_terminal_notification(j, "cancelled")

\* The call changes nothing when the job is unknown, terminal (409) or
\* already cancelling (202).
Cancel(j) ==
  /\ j \in Cancellable
  /\ RequestCancellation(j) \/ CancelInactive(j)
  /\ UNCHANGED <<job_attempts, dispatch_outbox, queue, dead_letter>>

=============================================================================
