---------------------------- MODULE JobRowProofs ----------------------------
(***************************************************************************)
(* What one step of the orchestrator can do to what is stored about one    *)
(* job: its row, its dispatch row and its notifications.  The relation     *)
(* Change lists the guarded UPDATEs of the repository; the lemmas show     *)
(* what they preserve, one row at a time.  OrchestratorProofs shows that   *)
(* every step of the system is a Change of every job.                      *)
(***************************************************************************)
EXTENDS Orchestrator, TLAPS

\* Changes of a row that is not ended by them.
QuietChange(row, r) ==
  \/ row.status = "running" /\ r = request_running_cancellation(row)
  \/ Claimable(row) /\ \E w \in Workers : r = claim_for_execution(row, w)
  \/ row.status = "running" /\ r = heartbeat(row)
  \/ row.status \in FINALIZABLE /\ r = update_progress(row)
  \/ row.status = "running" /\ r = schedule_retry(row)
  \/ find_due_retries(row) /\ r = move_retry_to_queued(row)
  \/ find_expired_leases(row) /\ ~Exhausted(row) /\ r = requeue_expired_lease(row)
  \/ find_stuck_queued(row) /\ r = mark_redispatched(row)
  \/ row.status = "running" /\ r = [row EXCEPT !.lock_expires_at = "past"]
  \/ row.status = "retrying" /\ r = [row EXCEPT !.next_attempt_at = "past"]
  \/ row.status = "queued" /\ r = [row EXCEPT !.last_dispatched_at = "past"]
  \/ row.status \in EXPIRABLE /\ r = [row EXCEPT !.created_at = "past"]

\* Changes that end the job.
EndingChange(row, r) ==
  \/ row.status \in INACTIVE_CANCELLABLE /\ r = cancel_inactive(row)
  \/ /\ row.status \in FINALIZABLE
     /\ \/ \E n \in 1 .. row.attempts : r = mark_succeeded(row, n)
        \/ r = mark_failed(row, FALSE)
        \/ r = mark_failed(row, TRUE)
  \/ row.status = "cancelling" /\ r = finalize_cancelled_by_worker(row)
  \/ find_expired_leases(row) /\ Exhausted(row) /\ r = fail_expired_lease(row)
  \/ find_expirable(row) /\ r = expire(row)

\* The row, the dispatch row and the notifications of a job go from row, o, n
\* to r, p, m.
Change(row, o, n, r, p, m) ==
  \/ r = row /\ p = o /\ m = n
  \/ QuietChange(row, r) /\ p = o /\ m = n
  \/ EndingChange(row, r) /\ p = o /\ m = n \cup {r.status}
  \/ /\ row.status = "absent"
     /\ \E limit \in AttemptLimits : r = NewRow(limit)
     /\ p = "pending"
     /\ m = n
  \/ o = "pending" /\ p = "published" /\ r = mark_queued(row) /\ m = n

\* The invariant of one job; its conjuncts are the per-job parts of the
\* system's invariants.
NotificationOK(row, n) == n = IF is_terminal(row.status) THEN {row.status} ELSE {}

LeaseOK(row) ==
  LET held == row.status \in FINALIZABLE
  IN  /\ (row.locked_by # NULL) <=> held
      /\ (row.lock_expires_at # "null") <=> held

ReachableOK(row, o) ==
  /\ row.status = "pending" <=> o = "pending" /\ row.status \notin {"cancelled", "expired"}
  /\ row.status = "queued" => row.last_dispatched_at # "null"
  /\ row.status = "retrying" <=> row.next_attempt_at # "null"
  /\ row.status = "running" => row.lock_expires_at # "null"

CancellationOK(row) ==
  row.cancellation_requested_at # "null" =>
    row.status \in {"cancelling", "cancelled", "succeeded", "failed"}

FreshOK(row) ==
  /\ row.status \in {"absent", "pending"} => row.attempts = 0
  /\ row.status # "succeeded" => row.result = 0

RowOK(row, o, n) ==
  /\ NotificationOK(row, n)
  /\ LeaseOK(row)
  /\ ReachableOK(row, o)
  /\ CancellationOK(row)
  /\ FreshOK(row)

-----------------------------------------------------------------------------
\* Every SET clause leaves a row of the table.
LEMMA UpdatesAreTyped ==
  ASSUME NEW row \in JobRow
  PROVE  /\ \A limit \in Nat \ {0} : NewRow(limit) \in JobRow
         /\ \A w \in Workers : claim_for_execution(row, w) \in JobRow
         /\ heartbeat(row) \in JobRow
         /\ update_progress(row) \in JobRow
         /\ \A n \in Nat : mark_succeeded(row, n) \in JobRow
         /\ mark_failed(row, TRUE) \in JobRow
         /\ mark_failed(row, FALSE) \in JobRow
         /\ schedule_retry(row) \in JobRow
         /\ finalize_cancelled_by_worker(row) \in JobRow
         /\ cancel_inactive(row) \in JobRow
         /\ request_running_cancellation(row) \in JobRow
         /\ mark_queued(row) \in JobRow
         /\ mark_redispatched(row) \in JobRow
         /\ requeue_expired_lease(row) \in JobRow
         /\ fail_expired_lease(row) \in JobRow
         /\ move_retry_to_queued(row) \in JobRow
         /\ expire(row) \in JobRow
         /\ [row EXCEPT !.lock_expires_at = "past"] \in JobRow
         /\ [row EXCEPT !.next_attempt_at = "past"] \in JobRow
         /\ [row EXCEPT !.last_dispatched_at = "past"] \in JobRow
         /\ [row EXCEPT !.created_at = "past"] \in JobRow
<1>1. /\ {"pending", "queued", "running", "retrying", "succeeded", "failed",
           "cancelling", "cancelled", "expired"} \subseteq JobStatus \cup {"absent"}
      /\ "absent" \in JobStatus \cup {"absent"}
      /\ {"null", "future", "past"} \subseteq Deadline
      /\ {"null", "set"} \subseteq Timestamp
      /\ 0 \in Nat /\ 1 \in Nat \ {0}
      /\ row.attempts + 1 \in Nat
  BY DEF JobStatus, Deadline, Timestamp, JobRow
<1>a. \A limit \in Nat \ {0} : NewRow(limit) \in JobRow
  BY <1>1, Zenon DEF JobRow, NewRow, AbsentRow
<1>b. \A w \in Workers : claim_for_execution(row, w) \in JobRow
  BY <1>1, Zenon DEF JobRow, claim_for_execution
<1>c. heartbeat(row) \in JobRow /\ update_progress(row) \in JobRow
  BY <1>1, Zenon DEF JobRow, heartbeat, update_progress
<1>d. \A n \in Nat : mark_succeeded(row, n) \in JobRow
  BY <1>1, Zenon DEF JobRow, mark_succeeded
<1>e. mark_failed(row, TRUE) \in JobRow /\ mark_failed(row, FALSE) \in JobRow
  BY <1>1, Zenon DEF JobRow, mark_failed
<1>f. schedule_retry(row) \in JobRow /\ finalize_cancelled_by_worker(row) \in JobRow
  BY <1>1, Zenon DEF JobRow, schedule_retry, finalize_cancelled_by_worker
<1>g. cancel_inactive(row) \in JobRow /\ request_running_cancellation(row) \in JobRow
  BY <1>1, Zenon DEF JobRow, cancel_inactive, request_running_cancellation
<1>h. mark_queued(row) \in JobRow /\ mark_redispatched(row) \in JobRow
  BY <1>1, Zenon DEF JobRow, mark_queued, mark_redispatched
<1>i. requeue_expired_lease(row) \in JobRow /\ fail_expired_lease(row) \in JobRow
  BY <1>1, Zenon DEF JobRow, requeue_expired_lease, fail_expired_lease
<1>j. move_retry_to_queued(row) \in JobRow /\ expire(row) \in JobRow
  BY <1>1, Zenon DEF JobRow, move_retry_to_queued, expire
<1>k. /\ [row EXCEPT !.lock_expires_at = "past"] \in JobRow
      /\ [row EXCEPT !.next_attempt_at = "past"] \in JobRow
  BY <1>1, Zenon DEF JobRow
<1>l. /\ [row EXCEPT !.last_dispatched_at = "past"] \in JobRow
      /\ [row EXCEPT !.created_at = "past"] \in JobRow
  BY <1>1, Zenon DEF JobRow
<1> QED
  BY <1>a, <1>b, <1>c, <1>d, <1>e, <1>f, <1>g, <1>h, <1>i, <1>j, <1>k, <1>l

\* Every Change leads from a row of the table to a row of the table.
LEMMA ChangeIsTyped ==
  ASSUME NEW row \in JobRow, NEW o, NEW n, NEW r, NEW p, NEW m,
         Change(row, o, n, r, p, m)
  PROVE  r \in JobRow
<1>1. ASSUME QuietChange(row, r) PROVE r \in JobRow
  BY <1>1, UpdatesAreTyped DEF QuietChange
<1>2. ASSUME EndingChange(row, r) PROVE r \in JobRow
  <2>1. row.attempts \in Nat
    BY DEF JobRow
  <2>2. \A k \in 1 .. row.attempts : k \in Nat
    BY <2>1
  <2> QED
    BY <1>2, <2>2, UpdatesAreTyped DEF EndingChange
<1>3. ASSUME NEW limit \in AttemptLimits PROVE NewRow(limit) \in JobRow
  BY LimitsArePositive, UpdatesAreTyped
<1> QED
  BY <1>1, <1>2, <1>3, UpdatesAreTyped DEF Change

\* A change that is not an end preserves the invariant of the row.
LEMMA QuietChangeKeepsRowOK ==
  ASSUME NEW row \in JobRow, NEW o, NEW n, NEW r,
         RowOK(row, o, n), QuietChange(row, r)
  PROVE  RowOK(r, o, n)
<1> USE NULLIsNoWorker
    DEF JobRow, RowOK, NotificationOK, LeaseOK, ReachableOK, CancellationOK,
        FreshOK, is_terminal, TERMINAL_STATUSES, FINALIZABLE
<1>1. CASE row.status = "running" /\ r = request_running_cancellation(row)
  BY <1>1 DEF request_running_cancellation
<1>2. ASSUME Claimable(row), NEW w \in Workers, r = claim_for_execution(row, w)
      PROVE  RowOK(r, o, n)
  BY <1>2 DEF Claimable, CLAIMABLE, claim_for_execution
<1>3. CASE row.status = "running" /\ r = heartbeat(row)
  BY <1>3 DEF heartbeat
<1>4. CASE row.status \in FINALIZABLE /\ r = update_progress(row)
  BY <1>4 DEF update_progress
<1>5. CASE row.status = "running" /\ r = schedule_retry(row)
  BY <1>5 DEF schedule_retry
<1>6. CASE find_due_retries(row) /\ r = move_retry_to_queued(row)
  BY <1>6 DEF find_due_retries, move_retry_to_queued
<1>7. CASE find_expired_leases(row) /\ r = requeue_expired_lease(row)
  BY <1>7 DEF find_expired_leases, requeue_expired_lease
<1>8. CASE find_stuck_queued(row) /\ r = mark_redispatched(row)
  BY <1>8 DEF find_stuck_queued, mark_redispatched
<1>9. CASE row.status = "running" /\ r = [row EXCEPT !.lock_expires_at = "past"]
  BY <1>9
<1>10. CASE row.status = "retrying" /\ r = [row EXCEPT !.next_attempt_at = "past"]
  BY <1>10
<1>11. CASE row.status = "queued" /\ r = [row EXCEPT !.last_dispatched_at = "past"]
  BY <1>11
<1>12. CASE row.status \in EXPIRABLE /\ r = [row EXCEPT !.created_at = "past"]
  BY <1>12 DEF EXPIRABLE
<1> HIDE DEF JobRow, RowOK, FINALIZABLE
<1> QED
  BY <1>1, <1>2, <1>3, <1>4, <1>5, <1>6, <1>7, <1>8, <1>9, <1>10, <1>11, <1>12
     DEF QuietChange

\* A change that ends the job starts from a job that has not ended, and the
\* notification it enqueues is the only one.
LEMMA EndingChangeKeepsRowOK ==
  ASSUME NEW row \in JobRow, NEW o, NEW n, NEW r,
         RowOK(row, o, n), EndingChange(row, r)
  PROVE  RowOK(r, o, n \cup {r.status})
<1> USE NULLIsNoWorker
    DEF JobRow, RowOK, NotificationOK, LeaseOK, ReachableOK, CancellationOK,
        FreshOK, is_terminal, TERMINAL_STATUSES, FINALIZABLE
<1>1. CASE row.status \in INACTIVE_CANCELLABLE /\ r = cancel_inactive(row)
  BY <1>1 DEF INACTIVE_CANCELLABLE, cancel_inactive
<1>2. ASSUME row.status \in FINALIZABLE, NEW k \in 1 .. row.attempts,
             r = mark_succeeded(row, k)
      PROVE  RowOK(r, o, n \cup {r.status})
  BY <1>2 DEF mark_succeeded
<1>3. CASE row.status \in FINALIZABLE /\ r = mark_failed(row, FALSE)
  BY <1>3 DEF mark_failed
<1>4. CASE row.status \in FINALIZABLE /\ r = mark_failed(row, TRUE)
  BY <1>4 DEF mark_failed
<1>5. CASE row.status = "cancelling" /\ r = finalize_cancelled_by_worker(row)
  BY <1>5 DEF finalize_cancelled_by_worker
<1>6. CASE find_expired_leases(row) /\ r = fail_expired_lease(row)
  BY <1>6 DEF find_expired_leases, fail_expired_lease
<1>7. CASE find_expirable(row) /\ r = expire(row)
  BY <1>7 DEF find_expirable, EXPIRABLE, expire
<1> HIDE DEF JobRow, RowOK, FINALIZABLE
<1> QED
  BY <1>1, <1>2, <1>3, <1>4, <1>5, <1>6, <1>7 DEF EndingChange

\* Every Change preserves the invariant of a job.
LEMMA ChangeKeepsRowOK ==
  ASSUME NEW row \in JobRow, NEW o, NEW n, NEW r, NEW p, NEW m,
         RowOK(row, o, n), Change(row, o, n, r, p, m)
  PROVE  RowOK(r, p, m)
<1>1. ASSUME row.status = "absent", NEW limit \in AttemptLimits,
             r = NewRow(limit), p = "pending", m = n
      PROVE  RowOK(r, p, m)
  BY <1>1, NULLIsNoWorker
     DEF NewRow, AbsentRow, JobRow, RowOK, NotificationOK, LeaseOK,
         ReachableOK, CancellationOK, FreshOK, is_terminal,
         TERMINAL_STATUSES, FINALIZABLE
<1>2. ASSUME o = "pending", p = "published", r = mark_queued(row), m = n
      PROVE  RowOK(r, p, m)
  BY <1>2 DEF mark_queued, JobRow, RowOK, NotificationOK, LeaseOK,
         ReachableOK, CancellationOK, FreshOK, is_terminal,
         TERMINAL_STATUSES, FINALIZABLE
<1> QED
  BY <1>1, <1>2, QuietChangeKeepsRowOK, EndingChangeKeepsRowOK DEF Change

\* No guarded UPDATE matches a job that has ended.
LEMMA ChangeSparesTheEnded ==
  ASSUME NEW row \in JobRow, NEW o, NEW n, NEW r, NEW p, NEW m,
         is_terminal(row.status), Change(row, o, n, r, p, m)
  PROVE  r = row
BY DEF Change, QuietChange, EndingChange, is_terminal, TERMINAL_STATUSES,
       Claimable, CLAIMABLE, FINALIZABLE, EXPIRABLE, INACTIVE_CANCELLABLE,
       find_due_retries, find_expired_leases, find_stuck_queued,
       find_expirable, mark_queued

\* Attempts are only ever added, and a cancellation request is never dropped.
LEMMA ChangeIsMonotone ==
  ASSUME NEW row \in JobRow, NEW o, NEW n, NEW r, NEW p, NEW m,
         RowOK(row, o, n), Change(row, o, n, r, p, m)
  PROVE  /\ r.attempts \in {row.attempts, row.attempts + 1}
         /\ row.cancellation_requested_at # "null"
              => r.cancellation_requested_at # "null"
<1> USE DEF JobRow
<1>1. ASSUME QuietChange(row, r)
      PROVE  /\ r.attempts \in {row.attempts, row.attempts + 1}
             /\ row.cancellation_requested_at # "null"
                  => r.cancellation_requested_at # "null"
  BY <1>1 DEF QuietChange, request_running_cancellation, claim_for_execution,
       heartbeat, update_progress, schedule_retry, move_retry_to_queued,
       requeue_expired_lease, mark_redispatched
<1>2. ASSUME EndingChange(row, r)
      PROVE  /\ r.attempts = row.attempts
             /\ row.cancellation_requested_at # "null"
                  => r.cancellation_requested_at # "null"
  BY <1>2 DEF EndingChange, cancel_inactive, mark_succeeded, mark_failed,
       finalize_cancelled_by_worker, fail_expired_lease, expire
<1>3. ASSUME row.status = "absent", NEW limit \in AttemptLimits, r = NewRow(limit)
      PROVE  r.attempts = row.attempts /\ row.cancellation_requested_at = "null"
  BY <1>3 DEF NewRow, AbsentRow, RowOK, FreshOK, CancellationOK
<1>4. ASSUME r = mark_queued(row)
      PROVE  /\ r.attempts = row.attempts
             /\ r.cancellation_requested_at = row.cancellation_requested_at
  BY <1>4 DEF mark_queued
<1> HIDE DEF JobRow
<1> QED
  BY <1>1, <1>2, <1>3, <1>4 DEF Change

=============================================================================
