---------------------------- MODULE JobRepository ----------------------------
(***************************************************************************)
(* The jobs table, one row at a time.  A method of JobRepository is a      *)
(* guarded UPDATE of one row; here it is the guard of its WHERE clause     *)
(* (an operator on the row) and the row that its SET clause leaves.  The   *)
(* services compose these operators into transactions.                     *)
(*                                                                         *)
(* A timestamp is read by the code only to compare it with the clock, so a *)
(* column is abstracted to the deadline it stands for: NULL, still in the  *)
(* future, or past.  The deadline of last_dispatched_at is the moment      *)
(* queue_stuck_seconds later, that of created_at job_queue_max_age_seconds *)
(* later.  Of the other timestamps only "IS NULL" is ever asked.            *)
(* Columns no query reads back (heartbeat_at, queued_at, completed_at,     *)
(* updated_at, cancel_reason, progress, the error texts) are left out.     *)
(***************************************************************************)
EXTENDS Naturals, JobDomain

CONSTANTS
  Workers,  \* worker ids; a restarted worker process has a fresh id
  NULL      \* SQL's NULL in the column locked_by

ASSUME NULLIsNoWorker == NULL \notin Workers

Deadline == {"null", "future", "past"}

Timestamp == {"null", "set"}

\* A row of the table.  The status "absent" stands for a row that has not
\* been inserted.  result is abstracted to the number of the attempt whose
\* handler computed it, 0 for NULL.
JobRow ==
  [status : JobStatus \cup {"absent"},
   attempts : Nat,
   max_attempts : Nat \ {0},
   locked_by : Workers \cup {NULL},
   lock_expires_at : Deadline,
   next_attempt_at : Deadline,
   last_dispatched_at : Deadline,
   created_at : Deadline,
   cancellation_requested_at : Timestamp,
   started_at : Timestamp,
   dead_lettered_at : Timestamp,
   result : Nat]

AbsentRow ==
  [status |-> "absent", attempts |-> 0, max_attempts |-> 1,
   locked_by |-> NULL, lock_expires_at |-> "null",
   next_attempt_at |-> "null", last_dispatched_at |-> "null",
   created_at |-> "null", cancellation_requested_at |-> "null",
   started_at |-> "null", dead_lettered_at |-> "null", result |-> 0]

\* The Job(...) that submission inserts.
NewRow(limit) ==
  [AbsentRow EXCEPT !.status = "pending", !.max_attempts = limit,
                    !.created_at = "future"]

-----------------------------------------------------------------------------
(***************************************************************************)
(* The queries of the scheduler's scans.                                   *)
(***************************************************************************)
find_due_retries(row) == row.status = "retrying" /\ row.next_attempt_at = "past"

\* Mutation: the reaper also takes over jobs that are being cancelled.
find_expired_leases_mutant(row) ==
  row.status \in FINALIZABLE /\ row.lock_expires_at = "past"

find_expired_leases(row) == row.status = "running" /\ row.lock_expires_at = "past"

\* Mutation: a queued job is redelivered only if it was never dispatched.
find_stuck_queued_mutant(row) ==
  row.status = "queued" /\ row.last_dispatched_at = "null"

find_stuck_queued(row) ==
  row.status = "queued" /\ row.last_dispatched_at \in {"null", "past"}

find_expirable(row) == row.status \in EXPIRABLE /\ row.created_at = "past"

-----------------------------------------------------------------------------
(***************************************************************************)
(* WHERE clauses of the worker's updates.                                  *)
(***************************************************************************)
Claimable(row) ==
  row.status \in CLAIMABLE /\ row.cancellation_requested_at = "null"

\* Mutation: the finalizers check the status and forget the lease.
HeldBy_mutant(row, w) == row.status \in FINALIZABLE

HeldBy(row, w) == row.locked_by = w /\ row.status \in FINALIZABLE

RunningBy(row, w) == row.locked_by = w /\ row.status = "running"

(***************************************************************************)
(* SET clauses of the worker's updates.                                    *)
(***************************************************************************)
\* Mutation: only the first claim of a job counts as an attempt.
claim_for_execution_mutant(row, w) ==
  [row EXCEPT !.status = "running",
              !.attempts = IF row.started_at = "null" THEN @ + 1 ELSE @,
              !.locked_by = w, !.lock_expires_at = "future",
              !.started_at = "set", !.next_attempt_at = "null"]

claim_for_execution(row, w) ==
  [row EXCEPT !.status = "running", !.attempts = @ + 1, !.locked_by = w,
              !.lock_expires_at = "future", !.started_at = "set",
              !.next_attempt_at = "null"]

heartbeat(row) == [row EXCEPT !.lock_expires_at = "future"]

update_progress(row) == [row EXCEPT !.lock_expires_at = "future"]

mark_succeeded(row, n) ==
  [row EXCEPT !.status = "succeeded", !.result = n,
              !.locked_by = NULL, !.lock_expires_at = "null"]

mark_failed(row, dead_lettered) ==
  [row EXCEPT !.status = "failed",
              !.locked_by = NULL, !.lock_expires_at = "null",
              !.dead_lettered_at = IF dead_lettered THEN "set" ELSE "null"]

\* Mutation: the retry is given no due time.
schedule_retry_mutant(row) ==
  [row EXCEPT !.status = "retrying", !.locked_by = NULL,
              !.lock_expires_at = "null"]

schedule_retry(row) ==
  [row EXCEPT !.status = "retrying", !.next_attempt_at = "future",
              !.locked_by = NULL, !.lock_expires_at = "null"]

finalize_cancelled_by_worker(row) ==
  [row EXCEPT !.status = "cancelled",
              !.locked_by = NULL, !.lock_expires_at = "null"]

-----------------------------------------------------------------------------
(***************************************************************************)
(* The updates of the cancel endpoint.                                     *)
(***************************************************************************)
cancel_inactive(row) ==
  [row EXCEPT !.status = "cancelled", !.cancellation_requested_at = "set",
              !.next_attempt_at = "null"]

request_running_cancellation(row) ==
  [row EXCEPT !.status = "cancelling", !.cancellation_requested_at = "set"]

-----------------------------------------------------------------------------
(***************************************************************************)
(* The updates of the scheduler.                                           *)
(***************************************************************************)
\* Mutation: the dispatch of a job does not look at its status.
mark_queued_mutant(row) ==
  [row EXCEPT !.status = "queued", !.last_dispatched_at = "future"]

mark_queued(row) ==
  IF row.status = "pending"
  THEN [row EXCEPT !.status = "queued", !.last_dispatched_at = "future"]
  ELSE row

mark_redispatched(row) == [row EXCEPT !.last_dispatched_at = "future"]

\* Mutation: a requeued job stays locked by the worker that lost it.
requeue_expired_lease_mutant(row) ==
  [row EXCEPT !.status = "queued", !.last_dispatched_at = "future",
              !.lock_expires_at = "null"]

requeue_expired_lease(row) ==
  [row EXCEPT !.status = "queued", !.last_dispatched_at = "future",
              !.locked_by = NULL, !.lock_expires_at = "null"]

fail_expired_lease(row) ==
  [row EXCEPT !.status = "failed",
              !.locked_by = NULL, !.lock_expires_at = "null",
              !.dead_lettered_at = "set"]

move_retry_to_queued(row) ==
  [row EXCEPT !.status = "queued", !.last_dispatched_at = "future",
              !.next_attempt_at = "null"]

expire(row) == [row EXCEPT !.status = "expired"]

=============================================================================
