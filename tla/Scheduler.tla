------------------------------ MODULE Scheduler ------------------------------
(***************************************************************************)
(* The scheduler process.  A tick runs the scans in a fixed order; a scan  *)
(* is one transaction over a batch of due rows, followed by the Redis      *)
(* pushes for the rows it moved, one at a time.  The ids still to be       *)
(* pushed live only in the process: whatever ends the tick loses them.     *)
(* The tick's last scan, notification delivery, touches none of this       *)
(* state.                                                                  *)
(***************************************************************************)
EXTENDS JobStore

CONSTANT BatchSize  \* settings.scheduler_batch_size

ASSUME BatchSizeIsPositive == BatchSize \in Nat \ {0}

VARIABLES
  phase,           \* the scan whose transaction is next
  to_publish,      \* ids the last scan has yet to publish
  to_dead_letter   \* ids it has yet to push to the dead letters

schedulerVars == <<phase, to_publish, to_dead_letter>>

Phase == {"dispatch_pending", "promote_due", "reap_expired",
          "redeliver_stuck", "expire_stale"}

SchedulerTypeOK ==
  /\ phase \in Phase
  /\ to_publish \in SUBSET Jobs
  /\ to_dead_letter \in SUBSET Jobs

SchedulerInit ==
  /\ phase = "dispatch_pending"
  /\ to_publish = {}
  /\ to_dead_letter = {}

-----------------------------------------------------------------------------
\* tick: scan `here` runs once its predecessor has made all its pushes.
Step(here, next) ==
  /\ phase = here
  /\ to_publish = {}
  /\ to_dead_letter = {}
  /\ phase' = next

\* The rows of a batch are updated and the others left alone.
UpdateBatch(batch, r(_)) ==
  jobs' = [j \in Jobs |-> IF j \in batch THEN r(jobs[j]) ELSE jobs[j]]

RecordBatch(batch, to_status) ==
  job_events' = [j \in Jobs |-> IF j \in batch THEN to_status ELSE job_events[j]]

\* Mutation: a notification that cannot be stored is skipped.
NotifyBatch_mutant(batch, status) ==
  notification_outbox' =
    [j \in Jobs |-> IF j \in batch \ Unnotifiable
                    THEN notification_outbox[j] \cup {status}
                    ELSE notification_outbox[j]]

\* enqueue_terminal_notification for each job of the batch.  If it raises for
\* one of them, the transaction is undone for all.
NotifyBatch(batch, status) ==
  /\ batch \cap Unnotifiable = {}
  /\ notification_outbox' =
       [j \in Jobs |-> IF j \in batch THEN notification_outbox[j] \cup {status}
                       ELSE notification_outbox[j]]

-----------------------------------------------------------------------------
claim_pending == {j \in Jobs : dispatch_outbox[j] = "pending"}

\* The rows the next scan selects.
Due ==
  CASE phase = "dispatch_pending" -> claim_pending
    [] phase = "promote_due" -> {j \in Jobs : find_due_retries(jobs[j])}
    [] phase = "reap_expired" -> {j \in Jobs : find_expired_leases(jobs[j])}
    [] phase = "redeliver_stuck" -> {j \in Jobs : find_stuck_queued(jobs[j])}
    [] phase = "expire_stale" -> {j \in Jobs : find_expirable(jobs[j])}

\* LIMIT batch_size FOR UPDATE SKIP LOCKED: the batch is a part of the due
\* rows, for rows another transaction has locked are left out.
Batches == {b \in SUBSET Due : Cardinality(b) <= BatchSize}

\* No due row was left out for a lock.
Full(batch) == batch = Due \/ Cardinality(batch) = BatchSize

\* dispatch_pending.  mark_queued matches only a pending job, and its result
\* is not looked at: the event is recorded and the id published either way.
DispatchPending(batch) ==
  /\ Step("dispatch_pending", "promote_due")
  /\ batch \in Batches
  /\ dispatch_outbox' =
       [j \in Jobs |-> IF j \in batch THEN "published" ELSE dispatch_outbox[j]]
  /\ UpdateBatch(batch, mark_queued)
  /\ RecordBatch(batch, "queued")
  /\ to_publish' = batch
  /\ UNCHANGED <<job_attempts, notification_outbox, queue, dead_letter,
                 to_dead_letter>>

\* promote_due
PromoteDue(batch) ==
  /\ Step("promote_due", "reap_expired")
  /\ batch \in Batches
  /\ UpdateBatch(batch, move_retry_to_queued)
  /\ RecordBatch(batch, "queued")
  /\ to_publish' = batch
  /\ UNCHANGED <<job_attempts, dispatch_outbox, notification_outbox, queue,
                 dead_letter, to_dead_letter>>

\* Mutation: one attempt too many.
Exhausted_mutant(row) == row.attempts > row.max_attempts

\* reap_expired: a job with no attempt left fails, any other is requeued.
Exhausted(row) == row.attempts >= row.max_attempts

ReapRow(row) ==
  IF Exhausted(row) THEN fail_expired_lease(row) ELSE requeue_expired_lease(row)

\* Mutation: the failure of every job in the batch is announced.
ReapExpired_notifyAll(batch) ==
  LET dead == {j \in batch : Exhausted(jobs[j])}
  IN  /\ Step("reap_expired", "redeliver_stuck")
      /\ batch \in Batches
      /\ UpdateBatch(batch, ReapRow)
      /\ job_events' = [j \in Jobs |-> IF j \in batch THEN ReapRow(jobs[j]).status
                                       ELSE job_events[j]]
      /\ NotifyBatch(batch, "failed")
      /\ to_dead_letter' = dead
      /\ to_publish' = batch \ dead
      /\ UNCHANGED <<job_attempts, dispatch_outbox, queue, dead_letter>>

\* Mutation: the dead letters are taken from all due rows, not the batch.
ReapExpired_dueDead(batch) ==
  LET dead == {j \in Due : Exhausted(jobs[j])}
  IN  /\ Step("reap_expired", "redeliver_stuck")
      /\ batch \in Batches
      /\ UpdateBatch(batch, ReapRow)
      /\ job_events' = [j \in Jobs |-> IF j \in batch THEN ReapRow(jobs[j]).status
                                       ELSE job_events[j]]
      /\ NotifyBatch(dead \cap batch, "failed")
      /\ to_dead_letter' = dead
      /\ to_publish' = batch \ dead
      /\ UNCHANGED <<job_attempts, dispatch_outbox, queue, dead_letter>>

ReapExpired(batch) ==
  LET dead == {j \in batch : Exhausted(jobs[j])}
  IN  /\ Step("reap_expired", "redeliver_stuck")
      /\ batch \in Batches
      /\ UpdateBatch(batch, ReapRow)
      /\ job_events' = [j \in Jobs |-> IF j \in batch THEN ReapRow(jobs[j]).status
                                       ELSE job_events[j]]
      /\ NotifyBatch(dead, "failed")
      /\ to_dead_letter' = dead
      /\ to_publish' = batch \ dead
      /\ UNCHANGED <<job_attempts, dispatch_outbox, queue, dead_letter>>

\* redeliver_stuck
RedeliverStuck(batch) ==
  /\ Step("redeliver_stuck", "expire_stale")
  /\ batch \in Batches
  /\ UpdateBatch(batch, mark_redispatched)
  /\ to_publish' = batch
  /\ UNCHANGED <<job_attempts, job_events, dispatch_outbox,
                 notification_outbox, queue, dead_letter, to_dead_letter>>

\* expire_stale
ExpireStale(batch) ==
  /\ Step("expire_stale", "dispatch_pending")
  /\ batch \in Batches
  /\ UpdateBatch(batch, expire)
  /\ RecordBatch(batch, "expired")
  /\ NotifyBatch(batch, "expired")
  /\ UNCHANGED <<job_attempts, dispatch_outbox, queue, dead_letter,
                 to_publish, to_dead_letter>>

\* The rows of a batch whose end the scan announces.
Announced(batch) ==
  CASE phase = "reap_expired" -> {j \in batch : Exhausted(jobs[j])}
    [] phase = "expire_stale" -> batch
    [] OTHER -> {}

\* Mutation: the tick goes on trying the scan that raised.
ScanRaises_mutant(batch) ==
  /\ to_publish = {}
  /\ to_dead_letter = {}
  /\ batch \in Batches
  /\ Announced(batch) \cap Unnotifiable # {}
  /\ UNCHANGED <<storeVars, phase, to_publish, to_dead_letter>>

\* A scan that announces a job whose notification cannot be stored raises: its
\* transaction is undone and run abandons the tick.
ScanRaises(batch) ==
  /\ to_publish = {}
  /\ to_dead_letter = {}
  /\ batch \in Batches
  /\ Announced(batch) \cap Unnotifiable # {}
  /\ phase' = "dispatch_pending"
  /\ UNCHANGED <<storeVars, to_publish, to_dead_letter>>

-----------------------------------------------------------------------------
\* The pushes of a scan.  reap_expired pushes its dead letters first.
DeadLetter(j) ==
  /\ j \in to_dead_letter
  /\ push_dead_letter(j)
  /\ to_dead_letter' = to_dead_letter \ {j}
  /\ UNCHANGED <<tables, queue, phase, to_publish>>

Publish(j) ==
  /\ to_dead_letter = {}
  /\ j \in to_publish
  /\ publish(j)
  /\ to_publish' = to_publish \ {j}
  /\ UNCHANGED <<tables, dead_letter, phase, to_dead_letter>>

\* A transaction or a push raises, and run logs it and sleeps until the next
\* tick; or the process dies and is restarted.
TickFails ==
  /\ phase' = "dispatch_pending"
  /\ to_publish' = {}
  /\ to_dead_letter' = {}
  /\ UNCHANGED storeVars

=============================================================================
