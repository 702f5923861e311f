---------------------------- MODULE FencingProofs ----------------------------
(***************************************************************************)
(* The lease as a fencing token: when a worker runs one consume loop, only *)
(* the newest attempt of a job can write to it, and so a job is started at *)
(* most max_attempts times.  With more loops per worker both fail, because *)
(* the loops share the id that the lease records.                          *)
(***************************************************************************)
EXTENDS OrchestratorProofs

\* A loop about to schedule a retry has an attempt left.
BackoffOK ==
  \A s \in Slots :
    slot[s].pc = "backoff" => slot[s].attempt < jobs[slot[s].job].max_attempts

\* A job that can still be started has an attempt left.
Budget(row) ==
  /\ row.attempts <= row.max_attempts
  /\ row.status \in {"absent", "pending", "queued", "retrying"} =>
       row.attempts < row.max_attempts

BudgetOK == \A j \in Jobs : Budget(jobs[j])

FencingInv == CoreInv /\ Fencing /\ BackoffOK /\ BudgetOK

-----------------------------------------------------------------------------
\* Only a claim makes a job running, only a scheduled retry makes it retrying,
\* and each does so to the job of the loop that takes the step.
StartsOnlyBy(claimed, retried) ==
  \A j \in Jobs :
    /\ j \notin claimed /\ jobs'[j].status = "running" => jobs[j].status = "running"
    /\ j \notin retried /\ jobs'[j].status = "retrying" => jobs[j].status = "retrying"

\* A loop stays, leaves execute, or moves on inside it with the same attempt.
SlotStays(s) ==
  \/ slot'[s] = slot[s]
  \/ slot'[s].pc \notin Executing
  \/ /\ slot[s].pc \in Executing
     /\ slot'[s].job = slot[s].job
     /\ slot'[s].attempt = slot[s].attempt
     /\ slot'[s].pc = "backoff" =>
          slot[s].attempt < jobs[slot[s].job].max_attempts

SlotsStay == \A s \in Slots : SlotStays(s)

\* A change of one row touches no other.
LEMMA OneRowStarts ==
  ASSUME TypeOK, NEW j \in Jobs, NEW r, UpdateJob(j, r), NEW c, NEW d,
         j \notin c => r.status # "running" \/ jobs[j].status = "running",
         j \notin d => r.status # "retrying" \/ jobs[j].status = "retrying"
  PROVE  StartsOnlyBy(c, d)
BY DEF TypeOK, StoreTypeOK, UpdateJob, StartsOnlyBy

\* A loop that returns leaves the others alone.
LEMMA ReturnStays ==
  ASSUME TypeOK, NEW s \in Slots, Return(s)
  PROVE  SlotsStay
<1>1. slot'[s].pc = "idle" /\ \A t \in Slots \ {s} : slot'[t] = slot[t]
  BY DEF TypeOK, WorkerTypeOK, Return, Idle
<1> QED
  BY <1>1 DEF SlotsStay, SlotStays, Executing

\* A loop that goes elsewhere in its code leaves the others alone.
LEMMA GotoStays ==
  ASSUME TypeOK, NEW s \in Slots, NEW pc, Goto(s, pc),
         \/ pc \notin Executing
         \/ /\ slot[s].pc \in Executing
            /\ pc = "backoff" => slot[s].attempt < jobs[slot[s].job].max_attempts
  PROVE  SlotsStay
<1>1. /\ slot'[s].pc = pc /\ slot'[s].job = slot[s].job /\ slot'[s].attempt = slot[s].attempt
      /\ \A t \in Slots \ {s} : slot'[t] = slot[t]
  BY DEF TypeOK, WorkerTypeOK, Goto
<1> QED
  BY <1>1 DEF SlotsStay, SlotStays

\* Steps that leave every loop where it is, and every job's row.
LEMMA NothingMoves ==
  /\ UNCHANGED workerVars => SlotsStay
  /\ \A c, d : jobs' = jobs => StartsOnlyBy(c, d)
BY DEF workerVars, SlotsStay, SlotStays, StartsOnlyBy

\* The API, the clock and the scheduler start nothing and schedule no retry.
LEMMA OthersStartNothing ==
  ASSUME TypeOK,
         \/ Api
         \/ \E j \in Jobs : Elapse(j)
         \/ \E batch \in SUBSET Jobs : Scan(batch)
         \/ \E j \in Jobs : DeadLetter(j) \/ Publish(j)
         \/ TickFails
         \/ RedisRestarts
  PROVE  StartsOnlyBy({}, {})
<1>1. ASSUME NEW j \in Jobs, NEW limit, Submit(j, limit) PROVE StartsOnlyBy({}, {})
  <2>1. NewRow(limit).status = "pending"
    BY DEF NewRow, AbsentRow
  <2> QED BY <1>1, <2>1, OneRowStarts DEF Submit
<1>2. ASSUME NEW j \in Jobs, Cancel(j) PROVE StartsOnlyBy({}, {})
  <2>1. jobs[j] \in JobRow
    BY DEF TypeOK, StoreTypeOK
  <2>2. /\ request_running_cancellation(jobs[j]).status = "cancelling"
        /\ cancel_inactive(jobs[j]).status = "cancelled"
    BY <2>1 DEF JobRow, request_running_cancellation, cancel_inactive
  <2> QED BY <1>2, <2>2, OneRowStarts DEF Cancel, RequestCancellation, CancelInactive
<1>3. ASSUME NEW j \in Jobs, Elapse(j) PROVE StartsOnlyBy({}, {})
  <2>1. jobs[j] \in JobRow
    BY DEF TypeOK, StoreTypeOK
  <2>2. PICK r : UpdateJob(j, r) /\ r.status = jobs[j].status
    BY <1>3, <2>1 DEF Elapse, LeaseLapses, RetryFallsDue, QueuedTooLong, AgesOut, JobRow
  <2> QED BY <2>2, OneRowStarts
<1>4. ASSUME NEW batch, Scan(batch) PROVE StartsOnlyBy({}, {})
  <2> SUFFICES ASSUME NEW j \in Jobs
               PROVE  \/ jobs'[j] = jobs[j]
                      \/ jobs'[j].status \notin {"running", "retrying"}
                      \/ jobs'[j].status = jobs[j].status
    BY DEF StartsOnlyBy
  <2>1. jobs[j] \in JobRow
    BY DEF TypeOK, StoreTypeOK
  <2> USE <1>4, <2>1 DEF JobRow, UpdateBatch
  <2>2. CASE DispatchPending(batch)
    BY <2>2 DEF DispatchPending, mark_queued
  <2>3. CASE PromoteDue(batch)
    BY <2>3 DEF PromoteDue, move_retry_to_queued
  <2>4. CASE ReapExpired(batch)
    BY <2>4 DEF ReapExpired, ReapRow, fail_expired_lease, requeue_expired_lease
  <2>5. CASE RedeliverStuck(batch)
    BY <2>5 DEF RedeliverStuck, mark_redispatched
  <2>6. CASE ExpireStale(batch)
    BY <2>6 DEF ExpireStale, expire
  <2>7. CASE ScanRaises(batch)
    BY <2>7, NothingMoves DEF ScanRaises, storeVars, tables
  <2> QED BY <2>2, <2>3, <2>4, <2>5, <2>6, <2>7 DEF Scan
<1>5. CASE (\E j \in Jobs : DeadLetter(j) \/ Publish(j)) \/ TickFails \/ RedisRestarts
  BY <1>5, NothingMoves DEF DeadLetter, Publish, TickFails, RedisRestarts, storeVars, tables
<1> QED
  BY <1>1, <1>2, <1>3, <1>4, <1>5 DEF Api

-----------------------------------------------------------------------------
\* What a loop does besides claiming and scheduling a retry starts nothing.
LEMMA LoopsStartNothing ==
  ASSUME TypeOK, NEW s \in Slots,
         \/ \E j \in Jobs : Consume(s, j)
         \/ Heartbeat(s) \/ ReportProgress(s) \/ CheckCancelled(s)
         \/ FinalizeSucceeded(s) \/ FinalizeFailed(s) \/ FinalizeCancelled(s)
         \/ HandleRetryable(s) \/ FinalizeExhausted(s) \/ PushDeadLetter(s)
         \/ FinalizeRaises(s) \/ ExecuteError(s)
  PROVE  StartsOnlyBy({}, {})
<1>1. CASE \/ \E j \in Jobs : Consume(s, j)
           \/ CheckCancelled(s) \/ HandleRetryable(s) \/ PushDeadLetter(s)
           \/ FinalizeRaises(s) \/ ExecuteError(s)
  BY <1>1, NothingMoves
     DEF Consume, CheckCancelled, HandleRetryable, PushDeadLetter, FinalizeRaises,
         ExecuteError, storeVars, tables
<1>2. ASSUME slot[s].pc # "idle",
             \/ jobs' = jobs
             \/ \E r : /\ UpdateJob(slot[s].job, r)
                       /\ \/ r.status = Row(s).status
                          \/ r.status \notin {"running", "retrying"}
      PROVE  StartsOnlyBy({}, {})
  <2>1. slot[s].job \in Jobs /\ Row(s) = jobs[slot[s].job]
    BY <1>2, SlotHasRow
  <2> QED BY <1>2, <2>1, OneRowStarts, NothingMoves
<1>3. CASE Heartbeat(s) \/ ReportProgress(s)
  <2>1. slot[s].pc # "idle"
    BY <1>3 DEF Heartbeat, ReportProgress, At, Executing
  <2>2. Row(s) \in JobRow
    BY <2>1, SlotHasRow
  <2>3. heartbeat(Row(s)).status = Row(s).status /\ update_progress(Row(s)).status = Row(s).status
    BY <2>2 DEF JobRow, heartbeat, update_progress
  <2> QED BY <1>2, <1>3, <2>1, <2>3 DEF Heartbeat, ReportProgress
<1>4. CASE FinalizeSucceeded(s) \/ FinalizeFailed(s) \/ FinalizeCancelled(s) \/ FinalizeExhausted(s)
  <2>1. slot[s].pc # "idle"
    BY <1>4 DEF FinalizeSucceeded, FinalizeFailed, FinalizeCancelled, FinalizeExhausted, At
  <2>2. Row(s) \in JobRow
    BY <2>1, SlotHasRow
  <2>3. /\ mark_succeeded(Row(s), slot[s].attempt).status = "succeeded"
        /\ mark_failed(Row(s), FALSE).status = "failed"
        /\ mark_failed(Row(s), TRUE).status = "failed"
        /\ finalize_cancelled_by_worker(Row(s)).status = "cancelled"
    BY <2>2 DEF JobRow, mark_succeeded, mark_failed, finalize_cancelled_by_worker
  <2> QED
    BY <1>2, <1>4, <2>1, <2>3
       DEF FinalizeSucceeded, FinalizeFailed, FinalizeCancelled, FinalizeExhausted,
           Finalize, mark_superseded
<1> QED
  BY <1>1, <1>3, <1>4

\* Apart from a claim, a loop inside execute keeps its attempt, and goes to
\* its retry only with an attempt left (_handle_retryable).
LEMMA LoopsKeepTheirAttempt ==
  ASSUME TypeOK, NEW s \in Slots,
         \/ \E j \in Jobs : Consume(s, j)
         \/ Heartbeat(s) \/ ReportProgress(s) \/ CheckCancelled(s)
         \/ FinalizeSucceeded(s) \/ FinalizeFailed(s) \/ FinalizeCancelled(s)
         \/ HandleRetryable(s) \/ FinalizeExhausted(s) \/ PushDeadLetter(s)
         \/ ScheduleRetry(s) \/ FinalizeRaises(s) \/ ExecuteError(s)
  PROVE  SlotsStay
<1>1. ASSUME NEW j \in Jobs, Consume(s, j) PROVE SlotsStay
  <2>1. slot'[s].pc = "popped" /\ \A t \in Slots \ {s} : slot'[t] = slot[t]
    BY <1>1 DEF Consume, TypeOK, WorkerTypeOK
  <2> QED BY <2>1 DEF SlotsStay, SlotStays, Executing
<1>2. CASE Heartbeat(s) \/ ReportProgress(s)
  BY <1>2, NothingMoves DEF Heartbeat, ReportProgress
<1>3. CASE CheckCancelled(s)
  BY <1>3, GotoStays DEF CheckCancelled, At, Executing
<1>4. CASE HandleRetryable(s)
  <2>1. slot[s].pc = "handling" /\ slot[s].pc # "idle"
    BY <1>4 DEF HandleRetryable, At
  <2>2. /\ slot[s].attempt \in Nat
        /\ Row(s) = jobs[slot[s].job]
        /\ Row(s).max_attempts \in Nat
    BY <2>1, SlotHasRow DEF TypeOK, WorkerTypeOK, JobRow
  <2>3. PICK pc \in Executing :
          /\ Goto(s, pc)
          /\ pc = "backoff" => ~(slot[s].attempt >= Row(s).max_attempts)
    BY <1>4 DEF HandleRetryable, Executing
  <2> QED BY <2>1, <2>2, <2>3, GotoStays DEF Executing
<1>5. CASE FinalizeExhausted(s)
  BY <1>5, ReturnStays, GotoStays DEF FinalizeExhausted, Executing
<1>6. CASE \/ FinalizeSucceeded(s) \/ FinalizeFailed(s) \/ FinalizeCancelled(s)
           \/ PushDeadLetter(s) \/ ScheduleRetry(s) \/ FinalizeRaises(s) \/ ExecuteError(s)
  BY <1>6, ReturnStays
     DEF FinalizeSucceeded, FinalizeFailed, FinalizeCancelled, PushDeadLetter,
         ScheduleRetry, FinalizeRaises, ExecuteError
<1> QED
  BY <1>1, <1>2, <1>3, <1>4, <1>5, <1>6

\* Every step is a claim, the scheduling of a retry, or starts nothing.
LEMMA StepsAreThree ==
  ASSUME TypeOK, Next
  PROVE  \/ \E s \in Slots : Claim(s)
         \/ SlotsStay /\ StartsOnlyBy({}, {})
         \/ \E s \in Slots : ScheduleRetry(s) /\ SlotsStay
<1>1. ASSUME NEW s \in Slots, ~Claim(s),
             \/ \E j \in Jobs : Consume(s, j)
             \/ Advance(s) \/ Heartbeat(s) \/ ReportProgress(s) \/ ExecuteError(s)
      PROVE  SlotsStay /\ (StartsOnlyBy({}, {}) \/ ScheduleRetry(s))
  BY <1>1, LoopsStartNothing, LoopsKeepTheirAttempt DEF Advance
<1>2. ASSUME NEW w \in Workers, Crash(w) PROVE SlotsStay /\ StartsOnlyBy({}, {})
  <2>1. \A s \in Slots : slot'[s] = slot[s] \/ slot'[s].pc = "idle"
    BY <1>2 DEF Crash, Idle
  <2>2. jobs' = jobs
    BY <1>2 DEF Crash, storeVars, tables
  <2> QED BY <2>1, <2>2, NothingMoves DEF SlotsStay, SlotStays, Executing
<1>3. ASSUME UNCHANGED workerVars,
             \/ Api
             \/ \E j \in Jobs : Elapse(j)
             \/ \E batch \in SUBSET Jobs : Scan(batch)
             \/ \E j \in Jobs : DeadLetter(j) \/ Publish(j)
             \/ TickFails
             \/ RedisRestarts
      PROVE  SlotsStay /\ StartsOnlyBy({}, {})
  BY <1>3, OthersStartNothing, NothingMoves
<1> QED
  BY <1>1, <1>2, <1>3 DEF Next, Calm, Disturbance, Worker, Tick

-----------------------------------------------------------------------------
\* What a step leaves of a job's lease, attempts and limit: unless it claims
\* the job or creates it, a job that is held was held by the same worker for
\* the same attempt.
LEMMA LeaseIsKept ==
  ASSUME NEW row \in JobRow, NEW o, NEW n, NEW r, NEW p, NEW m,
         RowOK(row, o, n), Change(row, o, n, r, p, m),
         r.status = "running" => row.status = "running"
  PROVE  /\ r.attempts = row.attempts
         /\ row.status # "absent" => r.max_attempts = row.max_attempts
         /\ r.status \in FINALIZABLE =>
              row.status \in FINALIZABLE /\ r.locked_by = row.locked_by
<1> USE DEF JobRow, FINALIZABLE
<1>1. CASE QuietChange(row, r)
  <2>1. CASE Claimable(row) /\ \E w \in Workers : r = claim_for_execution(row, w)
    BY <2>1 DEF Claimable, CLAIMABLE, claim_for_execution
  <2> QED
    BY <1>1, <2>1 DEF QuietChange, request_running_cancellation, heartbeat,
       update_progress, schedule_retry, move_retry_to_queued, find_due_retries,
       requeue_expired_lease, mark_redispatched, find_stuck_queued, EXPIRABLE
<1>2. CASE EndingChange(row, r)
  BY <1>2 DEF EndingChange, cancel_inactive, mark_succeeded, mark_failed,
       finalize_cancelled_by_worker, fail_expired_lease, expire
<1>3. CASE row.status = "absent" /\ \E limit \in AttemptLimits : r = NewRow(limit)
  BY <1>3 DEF NewRow, AbsentRow, RowOK, FreshOK
<1>4. CASE r = mark_queued(row)
  BY <1>4 DEF mark_queued
<1> HIDE DEF JobRow, FINALIZABLE
<1> QED
  BY <1>1, <1>2, <1>3, <1>4 DEF Change

\* A step that neither claims the job nor schedules its retry keeps its budget.
LEMMA BudgetIsKept ==
  ASSUME NEW row \in JobRow, NEW o, NEW n, NEW r, NEW p, NEW m,
         RowOK(row, o, n), Change(row, o, n, r, p, m), Budget(row),
         r.status = "running" => row.status = "running",
         r.status = "retrying" => row.status = "retrying"
  PROVE  Budget(r)
<1> USE DEF JobRow, Budget
<1>1. CASE QuietChange(row, r)
  <2>1. CASE Claimable(row) /\ \E w \in Workers : r = claim_for_execution(row, w)
    BY <2>1 DEF Claimable, CLAIMABLE, claim_for_execution
  <2>2. CASE row.status = "running" /\ r = schedule_retry(row)
    BY <2>2 DEF schedule_retry
  <2>3. CASE ~Exhausted(row) /\ r = requeue_expired_lease(row)
    BY <2>3 DEF Exhausted, requeue_expired_lease
  <2> QED
    BY <1>1, <2>1, <2>2, <2>3 DEF QuietChange, request_running_cancellation, heartbeat,
       update_progress, move_retry_to_queued, find_due_retries,
       mark_redispatched, find_stuck_queued, EXPIRABLE
<1>2. CASE EndingChange(row, r)
  BY <1>2 DEF EndingChange, cancel_inactive, mark_succeeded, mark_failed,
       finalize_cancelled_by_worker, fail_expired_lease, expire
<1>3. ASSUME NEW limit \in AttemptLimits, r = NewRow(limit) PROVE Budget(r)
  BY <1>3, LimitsArePositive DEF NewRow, AbsentRow
<1>4. CASE r = mark_queued(row)
  BY <1>4 DEF mark_queued
<1> HIDE DEF JobRow, Budget
<1> QED
  BY <1>1, <1>2, <1>3, <1>4 DEF Change

\* The invariant holds initially.
LEMMA InitFencing == Init => FencingInv
<1> SUFFICES ASSUME Init PROVE FencingInv
  OBVIOUS
<1>1. \A s \in Slots : slot[s].pc = "idle"
  BY DEF Init, WorkerInit, Idle
<1> QED
  BY <1>1, InitCoreInv DEF FencingInv, Fencing, BackoffOK, BudgetOK, Budget,
     Executing, Init, StoreInit, AbsentRow

-----------------------------------------------------------------------------
\* A step that starts no attempt leaves each loop the attempt it may write for.
LEMMA StayingKeepsFencing ==
  ASSUME FencingInv, Effects, SlotsStay,
         \A j \in Jobs : jobs'[j].status = "running" => jobs[j].status = "running"
  PROVE  Fencing' /\ BackoffOK'
<1> SUFFICES ASSUME NEW s \in Slots, slot'[s].pc \in Executing
             PROVE  /\ HeldBy(jobs'[slot'[s].job], worker_id(s)) =>
                         slot'[s].attempt = jobs'[slot'[s].job].attempts
                    /\ slot'[s].pc = "backoff" =>
                         slot'[s].attempt < jobs'[slot'[s].job].max_attempts
  BY DEF Fencing, BackoffOK, Executing
<1> DEFINE j == slot[s].job
<1>1. /\ slot[s].pc \in Executing
      /\ slot'[s].job = j
      /\ slot'[s].attempt = slot[s].attempt
      /\ slot'[s].pc = "backoff" => slot[s].attempt < jobs[j].max_attempts
  BY DEF SlotsStay, SlotStays, FencingInv, BackoffOK
<1>2. j \in Jobs /\ jobs[j] \in JobRow
  BY <1>1, SlotHasRow DEF FencingInv, CoreInv, Executing
<1>3. /\ RowOK(jobs[j], dispatch_outbox[j], notification_outbox[j])
      /\ slot[s].attempt \in 1 .. jobs[j].attempts
  BY <1>1, <1>2 DEF FencingInv, CoreInv, RowsOK, SlotsOK, SlotOK
<1>4. jobs[j].status # "absent"
  BY <1>2, <1>3 DEF RowOK, FreshOK, JobRow
<1>5. /\ jobs'[j].attempts = jobs[j].attempts
      /\ jobs'[j].max_attempts = jobs[j].max_attempts
      /\ jobs'[j].status \in FINALIZABLE =>
           jobs[j].status \in FINALIZABLE /\ jobs'[j].locked_by = jobs[j].locked_by
  BY <1>2, <1>3, <1>4, LeaseIsKept DEF Effects, Effect
<1>6. HeldBy(jobs[j], worker_id(s)) => slot[s].attempt = jobs[j].attempts
  BY <1>1 DEF FencingInv, Fencing
<1> QED
  BY <1>1, <1>5, <1>6 DEF HeldBy

\* A step that neither starts an attempt nor schedules a retry.
LEMMA StartingNothingKeepsFencing ==
  ASSUME FencingInv, Effects, SlotsStay, StartsOnlyBy({}, {})
  PROVE  Fencing' /\ BackoffOK' /\ BudgetOK'
<1>1. Fencing' /\ BackoffOK'
  BY StayingKeepsFencing DEF StartsOnlyBy
<1>2. ASSUME NEW j \in Jobs PROVE Budget(jobs'[j])
  <2>1. /\ jobs[j] \in JobRow
        /\ RowOK(jobs[j], dispatch_outbox[j], notification_outbox[j])
        /\ Budget(jobs[j])
    BY DEF FencingInv, CoreInv, TypeOK, StoreTypeOK, RowsOK, BudgetOK
  <2> QED
    BY <2>1, BudgetIsKept DEF Effects, Effect, StartsOnlyBy
<1> QED
  BY <1>1, <1>2 DEF BudgetOK, Budget

\* A retry is scheduled by the newest attempt, which is not the last.
LEMMA RetryKeepsFencing ==
  ASSUME FencingInv, Effects, SlotsStay, NEW s \in Slots, ScheduleRetry(s)
  PROVE  Fencing' /\ BackoffOK' /\ BudgetOK'
<1> DEFINE j == slot[s].job
<1>1. slot[s].pc = "backoff" /\ slot[s].pc \in Executing /\ slot[s].pc # "idle"
  BY DEF ScheduleRetry, At, Executing
<1>2. j \in Jobs /\ jobs[j] \in JobRow /\ Row(s) = jobs[j]
  BY <1>1, SlotHasRow DEF FencingInv, CoreInv
<1>3. CASE ~RunningBy(Row(s), worker_id(s))
  <2>1. StartsOnlyBy({}, {})
    BY <1>3, NothingMoves DEF ScheduleRetry, mark_superseded
  <2> QED BY <2>1, StartingNothingKeepsFencing
<1>4. CASE RunningBy(Row(s), worker_id(s))
  <2>1. UpdateJob(j, schedule_retry(jobs[j]))
    BY <1>2, <1>4 DEF ScheduleRetry
  <2>2. /\ jobs'[j] = schedule_retry(jobs[j])
        /\ \A i \in Jobs \ {j} : jobs'[i] = jobs[i]
    BY <1>2, <2>1 DEF UpdateJob, FencingInv, CoreInv, TypeOK, StoreTypeOK
  <2>3. /\ jobs'[j].status = "retrying"
        /\ jobs'[j].attempts = jobs[j].attempts
        /\ jobs'[j].max_attempts = jobs[j].max_attempts
    BY <1>2, <2>2 DEF schedule_retry, JobRow
  <2>4. Fencing' /\ BackoffOK'
    BY <2>2, <2>3, StayingKeepsFencing
  <2>5. jobs[j].attempts = slot[s].attempt /\ slot[s].attempt < jobs[j].max_attempts
    BY <1>1, <1>2, <1>4
       DEF FencingInv, Fencing, BackoffOK, HeldBy, RunningBy, FINALIZABLE
  <2>6. Budget(jobs'[j])
    BY <1>2, <2>3, <2>5 DEF Budget, JobRow
  <2> QED
    BY <2>2, <2>4, <2>6 DEF BudgetOK, FencingInv
<1> QED
  BY <1>3, <1>4

\* A claim makes the worker's only loop the owner of the newest attempt.
LEMMA ClaimKeepsFencing ==
  ASSUME Concurrency = 1, FencingInv, NEW s \in Slots, Claim(s)
  PROVE  Fencing' /\ BackoffOK' /\ BudgetOK'
<1> DEFINE j == slot[s].job
<1>1. slot[s].pc = "popped" /\ slot[s].pc # "idle"
  BY DEF Claim, At
<1>2. j \in Jobs /\ jobs[j] \in JobRow /\ Row(s) = jobs[j] /\ worker_id(s) \in Workers
  BY <1>1, SlotHasRow DEF FencingInv, CoreInv
<1>t. /\ slot \in [Slots -> [pc : PC, job : Jobs \cup {NULL}, attempt : Nat]]
      /\ jobs \in [Jobs -> JobRow]
  BY DEF FencingInv, CoreInv, TypeOK, WorkerTypeOK, StoreTypeOK
<1>3. CASE ~Claimable(Row(s))
  <2>1. jobs' = jobs /\ Return(s)
    BY <1>3 DEF Claim
  <2>2. slot'[s].pc \notin Executing /\ \A t \in Slots \ {s} : slot'[t] = slot[t]
    BY <1>t, <2>1 DEF Return, Idle, Executing
  <2>3. Fencing'
    BY <2>1, <2>2 DEF FencingInv, Fencing
  <2>4. BackoffOK'
    BY <2>1, <2>2 DEF FencingInv, BackoffOK, Executing
  <2> QED
    BY <2>1, <2>3, <2>4 DEF FencingInv, BudgetOK
<1>4. CASE Claimable(Row(s))
  <2>1. /\ UpdateJob(j, claim_for_execution(jobs[j], worker_id(s)))
        /\ slot' = [slot EXCEPT ![s].pc = "handling",
                                ![s].attempt = jobs[j].attempts + 1]
    BY <1>2, <1>4 DEF Claim
  <2>2. /\ jobs'[j] = claim_for_execution(jobs[j], worker_id(s))
        /\ \A i \in Jobs \ {j} : jobs'[i] = jobs[i]
    BY <1>2, <1>t, <2>1 DEF UpdateJob
  <2>3. /\ jobs'[j].status = "running"
        /\ jobs'[j].locked_by = worker_id(s)
        /\ jobs'[j].attempts = jobs[j].attempts + 1
        /\ jobs'[j].max_attempts = jobs[j].max_attempts
    BY <1>2, <2>2 DEF claim_for_execution, JobRow
  <2>4. /\ slot'[s].pc = "handling"
        /\ slot'[s].job = j
        /\ slot'[s].attempt = jobs[j].attempts + 1
        /\ \A t \in Slots \ {s} : slot'[t] = slot[t]
    BY <1>t, <2>1
  <2>5. \A t \in Slots \ {s} : worker_id(t) # worker_id(s)
    BY DEF Slots, worker_id
  <2>6. Fencing'
    <3> SUFFICES ASSUME NEW t \in Slots, slot'[t].pc \in Executing,
                        HeldBy(jobs'[slot'[t].job], worker_id(t))
                 PROVE  slot'[t].attempt = jobs'[slot'[t].job].attempts
      BY DEF Fencing
    <3>1. CASE t = s
      BY <2>3, <2>4, <3>1
    <3>2. CASE t # s
      <4>1. slot'[t] = slot[t] /\ slot[t].pc # "idle"
        BY <2>4, <3>2 DEF Executing
      <4>2. slot[t].job \in Jobs
        BY <4>1, SlotHasRow DEF FencingInv, CoreInv
      <4>3. slot[t].job # j
        BY <2>3, <2>5, <3>2, <4>1 DEF HeldBy
      <4>4. jobs'[slot[t].job] = jobs[slot[t].job]
        BY <2>2, <4>2, <4>3
      <4> QED BY <4>1, <4>4 DEF FencingInv, Fencing
    <3> QED BY <3>1, <3>2
  <2>7. BackoffOK'
    <3> SUFFICES ASSUME NEW t \in Slots, slot'[t].pc = "backoff"
                 PROVE  slot'[t].attempt < jobs'[slot'[t].job].max_attempts
      BY DEF BackoffOK
    <3>1. slot'[t] = slot[t] /\ slot[t].pc # "idle"
      BY <2>4
    <3>2. slot[t].job \in Jobs
      BY <3>1, SlotHasRow DEF FencingInv, CoreInv
    <3>3. jobs'[slot[t].job].max_attempts = jobs[slot[t].job].max_attempts
      BY <2>2, <2>3, <3>2
    <3> QED BY <3>1, <3>3 DEF FencingInv, BackoffOK
  <2>8. Budget(jobs'[j])
    BY <1>2, <1>4, <2>3 DEF FencingInv, BudgetOK, Budget, JobRow, Claimable, CLAIMABLE
  <2> QED
    BY <2>2, <2>6, <2>7, <2>8 DEF BudgetOK, FencingInv
<1> QED
  BY <1>3, <1>4

\* Every step keeps the invariant.
LEMMA NextKeepsFencing ==
  ASSUME Concurrency = 1
  PROVE  FencingInv /\ [Next]_vars => FencingInv'
<1> SUFFICES ASSUME FencingInv, [Next]_vars PROVE FencingInv'
  OBVIOUS
<1>1. CoreInv'
  BY NextKeepsCoreInv DEF FencingInv
<1>2. CASE Next
  <2>1. Effects
    BY <1>2, EveryStepIsAChange DEF FencingInv
  <2>2. Fencing' /\ BackoffOK' /\ BudgetOK'
    BY <1>2, <2>1, StepsAreThree, ClaimKeepsFencing, StartingNothingKeepsFencing,
       RetryKeepsFencing DEF FencingInv, CoreInv
  <2> QED BY <1>1, <2>2 DEF FencingInv
<1>3. CASE UNCHANGED vars
  <2>1. UNCHANGED <<jobs, slot>>
    BY <1>3 DEF vars, storeVars, tables, workerVars
  <2>2. Fencing' /\ BackoffOK' /\ BudgetOK'
    BY <2>1 DEF FencingInv, Fencing, BackoffOK, BudgetOK
  <2> QED BY <1>1, <2>2 DEF FencingInv
<1> QED
  BY <1>2, <1>3

\* When a worker runs one loop, an attempt that lost its lease to the reaper
\* can no longer write to its job, whoever runs the job by then.
THEOREM FencingCorrect ==
  ASSUME Concurrency = 1
  PROVE  Spec => []Fencing
<1>1. FencingInv => Fencing
  BY DEF FencingInv
<1> QED
  BY <1>1, InitFencing, NextKeepsFencing, PTL DEF Spec

\* When a worker runs one loop, a job is started at most max_attempts times,
\* over retries, reaped leases and duplicate deliveries together.
THEOREM AttemptsAreBounded ==
  ASSUME Concurrency = 1
  PROVE  Spec => []AttemptsBounded
<1>1. FencingInv => AttemptsBounded
  BY DEF FencingInv, BudgetOK, Budget, AttemptsBounded
<1> QED
  BY <1>1, InitFencing, NextKeepsFencing, PTL DEF Spec

=============================================================================
