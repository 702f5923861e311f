------------------------- MODULE OrchestratorProofs -------------------------
(***************************************************************************)
(* Theorems about the whole orchestrator, for any number of jobs, workers, *)
(* consume loops and failures.                                             *)
(***************************************************************************)
EXTENDS JobRowProofs, OrchestratorProperties, SequenceTheorems

RowsOK ==
  \A j \in Jobs : RowOK(jobs[j], dispatch_outbox[j], notification_outbox[j])

\* A loop inside execute runs an attempt its job has had, and one that was
\* told to stop was told so by its job's row.
SlotOK(s) ==
  /\ slot[s].pc \in Executing =>
       slot[s].attempt \in 1 .. jobs[slot[s].job].attempts
  /\ slot[s].pc = "stopping" =>
       jobs[slot[s].job].cancellation_requested_at # "null"

SlotsOK == \A s \in Slots : SlotOK(s)

\* The inductive invariant.
CoreInv == TypeOK /\ RowsOK /\ SlotsOK

-----------------------------------------------------------------------------
\* The tables keyed by job stay tables keyed by job.
Keyed ==
  /\ jobs = [j \in Jobs |-> jobs[j]]
  /\ dispatch_outbox = [j \in Jobs |-> dispatch_outbox[j]]
  /\ notification_outbox = [j \in Jobs |-> notification_outbox[j]]

Effect(j) ==
  Change(jobs[j], dispatch_outbox[j], notification_outbox[j],
         jobs'[j], dispatch_outbox'[j], notification_outbox'[j])

Effects == Keyed' /\ \A j \in Jobs : Effect(j)

\* A loop that is not idle has a job, with a row.
LEMMA SlotHasRow ==
  ASSUME TypeOK, NEW s \in Slots, slot[s].pc # "idle"
  PROVE  /\ slot[s].job \in Jobs
         /\ Row(s) \in JobRow
         /\ Row(s) = jobs[slot[s].job]
         /\ worker_id(s) \in Workers
BY DEF TypeOK, WorkerTypeOK, StoreTypeOK, Row, worker_id, Slots

\* An action that writes no table changes no job.
LEMMA TablesUnchanged ==
  ASSUME TypeOK, UNCHANGED <<jobs, dispatch_outbox, notification_outbox>>
  PROVE  Effects
BY DEF TypeOK, StoreTypeOK, Effects, Keyed, Effect, Change

\* An action that writes one row, and not its notifications.
LEMMA OneRowQuietly ==
  ASSUME TypeOK, NEW j \in Jobs, NEW r, QuietChange(jobs[j], r),
         UpdateJob(j, r), UNCHANGED <<dispatch_outbox, notification_outbox>>
  PROVE  Effects
BY DEF TypeOK, StoreTypeOK, UpdateJob, Effects, Keyed, Effect, Change

\* An action that ends one job and enqueues its notification.
LEMMA OneRowEnds ==
  ASSUME TypeOK, NEW j \in Jobs, NEW r, EndingChange(jobs[j], r),
         UpdateJob(j, r), enqueue_terminal_notification(j, r.status),
         UNCHANGED dispatch_outbox
  PROVE  Effects
BY DEF TypeOK, StoreTypeOK, UpdateJob, enqueue_terminal_notification,
       Effects, Keyed, Effect, Change

-----------------------------------------------------------------------------
\* Submission inserts one row.
LEMMA SubmitEffects ==
  ASSUME TypeOK, NEW j \in Jobs, NEW limit \in AttemptLimits, Submit(j, limit)
  PROVE  Effects
BY DEF TypeOK, StoreTypeOK, Submit, UpdateJob, Effects, Keyed, Effect, Change

\* Cancellation changes one row, or ends it and enqueues its notification.
LEMMA CancelEffects ==
  ASSUME TypeOK, NEW j \in Jobs, Cancel(j)
  PROVE  Effects
<1>1. CASE RequestCancellation(j)
  BY <1>1, OneRowQuietly DEF Cancel, RequestCancellation, QuietChange
<1>2. CASE CancelInactive(j)
  <2>1. cancel_inactive(jobs[j]).status = "cancelled"
    BY DEF TypeOK, StoreTypeOK, JobRow, cancel_inactive
  <2> QED
    BY <1>2, <2>1, OneRowEnds DEF Cancel, CancelInactive, EndingChange
<1> QED
  BY <1>1, <1>2 DEF Cancel

\* A claim changes one row, or drops the message.
LEMMA ClaimEffects ==
  ASSUME TypeOK, NEW s \in Slots, Claim(s)
  PROVE  Effects
<1>1. CASE Claimable(Row(s))
  BY <1>1, SlotHasRow, OneRowQuietly DEF Claim, At, QuietChange
<1>2. CASE ~Claimable(Row(s))
  BY <1>2, TablesUnchanged DEF Claim
<1> QED
  BY <1>1, <1>2

\* A heartbeat and a progress report renew one lease.
LEMMA RenewalEffects ==
  ASSUME TypeOK, NEW s \in Slots, Heartbeat(s) \/ ReportProgress(s)
  PROVE  Effects
<1>1. slot[s].pc # "idle"
  BY DEF Heartbeat, ReportProgress, At, Executing
<1>2. CASE Heartbeat(s)
  BY <1>1, <1>2, SlotHasRow, OneRowQuietly DEF Heartbeat, RunningBy, QuietChange
<1>3. CASE ReportProgress(s)
  BY <1>1, <1>3, SlotHasRow, OneRowQuietly DEF ReportProgress, HeldBy, QuietChange
<1> QED
  BY <1>2, <1>3

\* The transactions that finalize an attempt.
LEMMA FinalizeEffects ==
  ASSUME TypeOK, SlotsOK, RowsOK, NEW s \in Slots,
         \/ FinalizeSucceeded(s)
         \/ FinalizeFailed(s)
         \/ FinalizeCancelled(s)
         \/ FinalizeExhausted(s)
  PROVE  Effects
<1>1. /\ slot[s].pc \in Executing
      /\ slot[s].pc # "idle"
  BY DEF FinalizeSucceeded, FinalizeFailed, FinalizeCancelled,
         FinalizeExhausted, At, Executing
<1>2. /\ slot[s].job \in Jobs
      /\ Row(s) \in JobRow
      /\ Row(s) = jobs[slot[s].job]
  BY <1>1, SlotHasRow
<1>3. CASE ~HeldBy(Row(s), worker_id(s))
  BY <1>3, TablesUnchanged
     DEF FinalizeSucceeded, FinalizeFailed, FinalizeCancelled,
         FinalizeExhausted, mark_superseded
<1>4. CASE HeldBy(Row(s), worker_id(s))
  <2>1. Row(s).status \in FINALIZABLE
    BY <1>4 DEF HeldBy
  <2>2. CASE FinalizeSucceeded(s)
    <3>1. slot[s].attempt \in 1 .. Row(s).attempts
      BY <1>1, <1>2 DEF SlotsOK, SlotOK
    <3>2. EndingChange(Row(s), mark_succeeded(Row(s), slot[s].attempt))
      BY <2>1, <3>1 DEF EndingChange
    <3> QED
      BY <1>2, <1>4, <2>2, <3>2, OneRowEnds DEF FinalizeSucceeded, Finalize
  <2>3. CASE FinalizeFailed(s)
    <3>1. EndingChange(Row(s), mark_failed(Row(s), FALSE))
      BY <2>1 DEF EndingChange
    <3> QED
      BY <1>2, <1>4, <2>3, <3>1, OneRowEnds DEF FinalizeFailed, Finalize
  <2>4. CASE FinalizeExhausted(s)
    <3>1. EndingChange(Row(s), mark_failed(Row(s), TRUE))
      BY <2>1 DEF EndingChange
    <3> QED
      BY <1>2, <1>4, <2>4, <3>1, OneRowEnds DEF FinalizeExhausted, Finalize
  <2>5. CASE FinalizeCancelled(s)
    <3>1. Row(s).cancellation_requested_at # "null"
      BY <1>2, <2>5 DEF FinalizeCancelled, At, SlotsOK, SlotOK
    <3>2. Row(s).status = "cancelling"
      BY <1>2, <2>1, <3>1 DEF RowsOK, RowOK, CancellationOK, FINALIZABLE
    <3>3. EndingChange(Row(s), finalize_cancelled_by_worker(Row(s)))
      BY <3>2 DEF EndingChange
    <3> QED
      BY <1>2, <1>4, <2>5, <3>3, OneRowEnds DEF FinalizeCancelled, Finalize
  <2> QED
    BY <2>2, <2>3, <2>4, <2>5
<1> QED
  BY <1>3, <1>4

\* Scheduling a retry changes one row, or supersedes the attempt.
LEMMA ScheduleRetryEffects ==
  ASSUME TypeOK, NEW s \in Slots, ScheduleRetry(s)
  PROVE  Effects
<1>1. CASE RunningBy(Row(s), worker_id(s))
  BY <1>1, SlotHasRow, OneRowQuietly DEF ScheduleRetry, At, RunningBy, QuietChange
<1>2. CASE ~RunningBy(Row(s), worker_id(s))
  BY <1>2, TablesUnchanged DEF ScheduleRetry, mark_superseded
<1> QED
  BY <1>1, <1>2

\* The rows a scan may touch are the due ones.
LEMMA BatchIsDue ==
  ASSUME NEW batch, batch \in Batches
  PROVE  batch \subseteq Due
BY DEF Batches

\* Each scan changes the rows of its batch, each as its query allows.
LEMMA ScanEffects ==
  ASSUME TypeOK, NEW batch, Scan(batch)
  PROVE  Effects
<1>1. batch \subseteq Due
  BY BatchIsDue DEF Scan, DispatchPending, PromoteDue, ReapExpired,
     RedeliverStuck, ExpireStale, ScanRaises
<1>2. CASE DispatchPending(batch)
  <2>1. Due = claim_pending
    BY <1>2 DEF DispatchPending, Step, Due
  <2> QED
    BY <1>1, <1>2, <2>1
       DEF DispatchPending, claim_pending, UpdateBatch, TypeOK, StoreTypeOK,
           Effects, Keyed, Effect, Change
<1>3. CASE PromoteDue(batch)
  <2>1. Due = {j \in Jobs : find_due_retries(jobs[j])}
    BY <1>3 DEF PromoteDue, Step, Due
  <2> QED
    BY <1>1, <1>3, <2>1
       DEF PromoteDue, UpdateBatch, TypeOK, StoreTypeOK,
           Effects, Keyed, Effect, Change, QuietChange
<1>4. CASE ReapExpired(batch)
  <2>1. Due = {j \in Jobs : find_expired_leases(jobs[j])}
    BY <1>4 DEF ReapExpired, Step, Due
  <2>2. \A j \in Jobs : fail_expired_lease(jobs[j]).status = "failed"
    BY DEF TypeOK, StoreTypeOK, JobRow, fail_expired_lease
  <2> QED
    BY <1>1, <1>4, <2>1, <2>2
       DEF ReapExpired, ReapRow, UpdateBatch, NotifyBatch, TypeOK, StoreTypeOK,
           Effects, Keyed, Effect, Change, QuietChange, EndingChange
<1>5. CASE RedeliverStuck(batch)
  <2>1. Due = {j \in Jobs : find_stuck_queued(jobs[j])}
    BY <1>5 DEF RedeliverStuck, Step, Due
  <2> QED
    BY <1>1, <1>5, <2>1
       DEF RedeliverStuck, UpdateBatch, TypeOK, StoreTypeOK,
           Effects, Keyed, Effect, Change, QuietChange
<1>6. CASE ExpireStale(batch)
  <2>1. Due = {j \in Jobs : find_expirable(jobs[j])}
    BY <1>6 DEF ExpireStale, Step, Due
  <2>2. \A j \in Jobs : expire(jobs[j]).status = "expired"
    BY DEF TypeOK, StoreTypeOK, JobRow, expire
  <2> QED
    BY <1>1, <1>6, <2>1, <2>2
       DEF ExpireStale, UpdateBatch, NotifyBatch, TypeOK, StoreTypeOK,
           Effects, Keyed, Effect, Change, EndingChange
<1>7. CASE ScanRaises(batch)
  BY <1>7, TablesUnchanged DEF ScanRaises, storeVars, tables
<1> QED
  BY <1>2, <1>3, <1>4, <1>5, <1>6, <1>7 DEF Scan

\* Passing time changes one deadline.
LEMMA ElapseEffects ==
  ASSUME TypeOK, NEW j \in Jobs, Elapse(j)
  PROVE  Effects
BY OneRowQuietly
   DEF Elapse, LeaseLapses, RetryFallsDue, QueuedTooLong, AgesOut, QuietChange

\* Every step of the system is, for every job, one of the guarded UPDATEs of
\* the repository or leaves what is stored about the job alone.
LEMMA EveryStepIsAChange ==
  ASSUME CoreInv, Next
  PROVE  Effects
<1> USE DEF CoreInv
<1>1. ASSUME NEW j \in Jobs, NEW limit \in AttemptLimits, Submit(j, limit)
      PROVE  Effects
  BY <1>1, SubmitEffects
<1>2. ASSUME NEW j \in Jobs, Cancel(j) PROVE Effects
  BY <1>2, CancelEffects
<1>3. ASSUME NEW s \in Slots, NEW j \in Jobs, Consume(s, j) PROVE Effects
  BY <1>3, TablesUnchanged DEF Consume, tables
<1>4. ASSUME NEW s \in Slots, Advance(s) PROVE Effects
  <2>1. CASE CheckCancelled(s) \/ HandleRetryable(s) \/ PushDeadLetter(s)
              \/ FinalizeRaises(s)
    BY <2>1, TablesUnchanged
       DEF CheckCancelled, HandleRetryable, PushDeadLetter, FinalizeRaises,
           storeVars, tables
  <2> QED
    BY <1>4, <2>1, ClaimEffects, FinalizeEffects, ScheduleRetryEffects DEF Advance
<1>5. ASSUME NEW s \in Slots, Heartbeat(s) \/ ReportProgress(s) PROVE Effects
  BY <1>5, RenewalEffects
<1>6. ASSUME NEW s \in Slots, ExecuteError(s) PROVE Effects
  BY <1>6, TablesUnchanged DEF ExecuteError, storeVars, tables
<1>7. ASSUME NEW w \in Workers, Crash(w) PROVE Effects
  BY <1>7, TablesUnchanged DEF Crash, storeVars, tables
<1>8. ASSUME NEW batch, Scan(batch) PROVE Effects
  BY <1>8, ScanEffects
<1>9. ASSUME NEW j \in Jobs, DeadLetter(j) \/ Publish(j) PROVE Effects
  BY <1>9, TablesUnchanged DEF DeadLetter, Publish, tables
<1>10. CASE TickFails \/ RedisRestarts
  BY <1>10, TablesUnchanged DEF TickFails, RedisRestarts, storeVars, tables
<1>11. ASSUME NEW j \in Jobs, Elapse(j) PROVE Effects
  BY <1>11, ElapseEffects
<1> QED
  BY <1>1, <1>2, <1>3, <1>4, <1>5, <1>6, <1>7, <1>8, <1>9, <1>10, <1>11
     DEF Next, Calm, Disturbance, Api, Worker, Tick

-----------------------------------------------------------------------------
\* What Effects says of the whole store.
LEMMA EffectsKeepTables ==
  ASSUME TypeOK, RowsOK, Effects
  PROVE  /\ jobs' \in [Jobs -> JobRow]
         /\ dispatch_outbox' \in [Jobs -> OutboxStatus]
         /\ notification_outbox' \in [Jobs -> SUBSET TERMINAL_STATUSES]
         /\ RowsOK'
<1>1. ASSUME NEW j \in Jobs
      PROVE  /\ jobs'[j] \in JobRow
             /\ dispatch_outbox'[j] \in OutboxStatus
             /\ RowOK(jobs'[j], dispatch_outbox'[j], notification_outbox'[j])
  <2>1. jobs[j] \in JobRow /\ dispatch_outbox[j] \in OutboxStatus
    BY DEF TypeOK, StoreTypeOK
  <2>2. RowOK(jobs[j], dispatch_outbox[j], notification_outbox[j])
    BY DEF RowsOK
  <2>3. Change(jobs[j], dispatch_outbox[j], notification_outbox[j],
               jobs'[j], dispatch_outbox'[j], notification_outbox'[j])
    BY DEF Effects, Effect
  <2>4. dispatch_outbox'[j] \in OutboxStatus
    BY <2>1, <2>3 DEF Change, OutboxStatus
  <2> QED
    BY <2>1, <2>2, <2>3, <2>4, ChangeIsTyped, ChangeKeepsRowOK
<1>2. ASSUME NEW j \in Jobs
      PROVE  notification_outbox'[j] \in SUBSET TERMINAL_STATUSES
  BY <1>1 DEF RowOK, NotificationOK, is_terminal
<1> QED
  BY <1>1, <1>2 DEF Effects, Keyed, RowsOK

\* A loop that stays where it is keeps a job that has had its attempt.
LEMMA EffectsKeepSlot ==
  ASSUME CoreInv, Effects, NEW s \in Slots, slot'[s] = slot[s]
  PROVE  SlotOK(s)'
<1>1. CASE slot[s].pc = "idle"
  BY <1>1 DEF SlotOK, Executing
<1>2. CASE slot[s].pc # "idle"
  <2> DEFINE j == slot[s].job
  <2>1. j \in Jobs /\ jobs[j] \in JobRow
    BY <1>2, SlotHasRow DEF CoreInv
  <2>2. /\ jobs'[j].attempts \in {jobs[j].attempts, jobs[j].attempts + 1}
        /\ jobs[j].cancellation_requested_at # "null"
             => jobs'[j].cancellation_requested_at # "null"
    BY <2>1, ChangeIsMonotone DEF CoreInv, RowsOK, Effects, Effect
  <2>3. jobs[j].attempts \in Nat
    BY <2>1 DEF JobRow
  <2> QED
    BY <2>1, <2>2, <2>3 DEF CoreInv, SlotsOK, SlotOK
<1> QED
  BY <1>1, <1>2

\* A loop that has left execute, or not yet entered it, owes nothing.
LEMMA OutsideSlotOK ==
  ASSUME NEW s, slot'[s].pc \notin Executing
  PROVE  SlotOK(s)'
BY DEF SlotOK, Executing

\* The invariant holds initially.
LEMMA InitCoreInv == Init => CoreInv
<1> SUFFICES ASSUME Init PROVE CoreInv
  OBVIOUS
<1>1. AbsentRow \in JobRow
  <2>1. 0 \in Nat /\ 1 \in Nat \ {0}
    OBVIOUS
  <2> QED
    BY <2>1, Zenon DEF AbsentRow, JobRow, JobStatus, Deadline, Timestamp
<1>2. TypeOK
  BY <1>1 DEF Init, StoreInit, WorkerInit, SchedulerInit, TypeOK, StoreTypeOK,
       WorkerTypeOK, SchedulerTypeOK, OutboxStatus, AttemptStatus, Idle, PC,
       Phase, JobStatus
<1>3. RowsOK
  BY DEF Init, StoreInit, AbsentRow, RowsOK, RowOK, NotificationOK, LeaseOK,
       ReachableOK, CancellationOK, FreshOK, is_terminal, TERMINAL_STATUSES,
       FINALIZABLE
<1>4. SlotsOK
  BY DEF Init, WorkerInit, Idle, SlotsOK, SlotOK, Executing
<1> QED
  BY <1>2, <1>3, <1>4 DEF CoreInv

-----------------------------------------------------------------------------
(***************************************************************************)
(* The rest of the state, action by action.                                *)
(***************************************************************************)
RestTypeOK ==
  /\ job_attempts \in [Jobs -> Seq(AttemptStatus)]
  /\ job_events \in [Jobs -> JobStatus \cup {"absent"}]
  /\ queue \in [Jobs -> Nat]
  /\ dead_letter \in [Jobs -> Nat]
  /\ WorkerTypeOK
  /\ SchedulerTypeOK

\* Closing an attempt leaves a sequence of attempts.
LEMMA FinishIsTyped ==
  ASSUME TypeOK, NEW s \in Slots, NEW outcome \in AttemptStatus, finish(s, outcome)
  PROVE  job_attempts' \in [Jobs -> Seq(AttemptStatus)]
<1>1. ASSUME NEW q \in Seq(AttemptStatus), NEW n
      PROVE  [q EXCEPT ![n] = outcome] \in Seq(AttemptStatus)
  <2>1. q \in [1 .. Len(q) -> AttemptStatus] /\ Len(q) \in Nat
    OBVIOUS
  <2>2. [q EXCEPT ![n] = outcome] \in [1 .. Len(q) -> AttemptStatus]
    BY <2>1
  <2> QED
    BY <2>1, <2>2, SeqDef
<1> QED
  BY <1>1 DEF TypeOK, StoreTypeOK, finish

\* Recording an event keeps the timeline well typed.
LEMMA RecordIsTyped ==
  ASSUME TypeOK, NEW j \in Jobs, NEW status \in JobStatus, record(j, status)
  PROVE  job_events' \in [Jobs -> JobStatus \cup {"absent"}]
BY DEF TypeOK, StoreTypeOK, record

\* A loop that goes on to another place of execute with the same attempt.
LEMMA GotoIsTyped ==
  ASSUME TypeOK, NEW s \in Slots, slot[s].pc # "idle", NEW pc \in PC, Goto(s, pc),
         UNCHANGED alive
  PROVE  WorkerTypeOK'
BY DEF TypeOK, WorkerTypeOK, Goto

\* Returning to the consume loop keeps the slots well typed.
LEMMA ReturnIsTyped ==
  ASSUME TypeOK, NEW s \in Slots, Return(s), UNCHANGED alive
  PROVE  WorkerTypeOK'
BY DEF TypeOK, WorkerTypeOK, Return, Idle, PC

\* A loop that returns leaves the others where they are.
LEMMA ReturnKeepsSlots ==
  ASSUME CoreInv, Effects, NEW s \in Slots, Return(s)
  PROVE  SlotsOK'
<1>1. slot'[s].pc \notin Executing
  BY DEF CoreInv, TypeOK, WorkerTypeOK, Return, Idle, Executing
<1>2. \A t \in Slots : t # s => slot'[t] = slot[t]
  BY DEF CoreInv, TypeOK, WorkerTypeOK, Return
<1> QED
  BY <1>1, <1>2, EffectsKeepSlot, OutsideSlotOK DEF SlotsOK

\* A step that leaves the workers alone.
LEMMA IdleWorkersKeepSlots ==
  ASSUME CoreInv, Effects, UNCHANGED workerVars
  PROVE  WorkerTypeOK' /\ SlotsOK'
BY EffectsKeepSlot DEF CoreInv, TypeOK, WorkerTypeOK, workerVars, SlotsOK

\* An API call keeps what the effects on the tables say nothing about.
LEMMA ApiKeepsRest ==
  ASSUME CoreInv, Effects, Api \/ (\E j \in Jobs : Elapse(j)) \/ RedisRestarts,
         UNCHANGED <<workerVars, schedulerVars>>
  PROVE  RestTypeOK' /\ SlotsOK'
<1> USE DEF CoreInv, RestTypeOK, TypeOK, StoreTypeOK
<1>1. WorkerTypeOK' /\ SlotsOK' /\ SchedulerTypeOK'
  BY IdleWorkersKeepSlots DEF SchedulerTypeOK, schedulerVars
<1>2. ASSUME NEW j \in Jobs, NEW limit \in AttemptLimits, Submit(j, limit)
      PROVE  RestTypeOK'
  BY <1>1, <1>2, RecordIsTyped DEF Submit, JobStatus
<1>3. ASSUME NEW j \in Jobs, Cancel(j) PROVE RestTypeOK'
  BY <1>1, <1>3, RecordIsTyped DEF Cancel, RequestCancellation, CancelInactive, JobStatus
<1>4. ASSUME NEW j \in Jobs, Elapse(j) PROVE RestTypeOK'
  BY <1>1, <1>4 DEF Elapse
<1>5. CASE RedisRestarts
  BY <1>1, <1>5 DEF RedisRestarts, tables
<1> QED
  BY <1>1, <1>2, <1>3, <1>4, <1>5 DEF Api

\* So does a step of the scheduler,
LEMMA TickKeepsRest ==
  ASSUME CoreInv, Effects, UNCHANGED workerVars,
         \/ \E batch \in SUBSET Jobs : Scan(batch)
         \/ \E j \in Jobs : DeadLetter(j) \/ Publish(j)
         \/ TickFails
  PROVE  RestTypeOK' /\ SlotsOK'
<1> USE DEF CoreInv, RestTypeOK, TypeOK, StoreTypeOK, SchedulerTypeOK
<1>1. WorkerTypeOK' /\ SlotsOK'
  BY IdleWorkersKeepSlots
<1>2. ASSUME NEW batch \in SUBSET Jobs, Scan(batch) PROVE RestTypeOK'
  <2>1. CASE DispatchPending(batch) \/ PromoteDue(batch) \/ RedeliverStuck(batch)
    BY <1>1, <2>1 DEF DispatchPending, PromoteDue, RedeliverStuck, RecordBatch,
       Step, Phase, JobStatus
  <2>2. CASE ExpireStale(batch)
    BY <1>1, <2>2 DEF ExpireStale, RecordBatch, Step, Phase, JobStatus
  <2>3. CASE ReapExpired(batch)
    <3>1. \A j \in Jobs : ReapRow(jobs[j]).status \in JobStatus
      BY DEF JobRow, JobStatus, ReapRow, fail_expired_lease, requeue_expired_lease
    <3> QED
      BY <1>1, <2>3, <3>1 DEF ReapExpired, Step, Phase
  <2>4. CASE ScanRaises(batch)
    BY <1>1, <2>4 DEF ScanRaises, Phase, storeVars, tables
  <2> QED
    BY <1>2, <2>1, <2>2, <2>3, <2>4 DEF Scan
<1>3. ASSUME NEW j \in Jobs, DeadLetter(j) \/ Publish(j) PROVE RestTypeOK'
  <2>1. CASE DeadLetter(j)
    BY <1>1, <2>1 DEF DeadLetter, push_dead_letter, tables
  <2>2. CASE Publish(j)
    BY <1>1, <2>2 DEF Publish, publish, tables
  <2> QED
    BY <1>3, <2>1, <2>2
<1>4. CASE TickFails
  BY <1>1, <1>4 DEF TickFails, Phase, storeVars, tables
<1> QED
  BY <1>1, <1>2, <1>3, <1>4

\* and the delivery of a message,
LEMMA ConsumeKeepsRest ==
  ASSUME CoreInv, Effects, UNCHANGED schedulerVars,
         NEW s \in Slots, NEW j \in Jobs, Consume(s, j)
  PROVE  RestTypeOK' /\ SlotsOK'
<1> USE DEF CoreInv, TypeOK, StoreTypeOK, WorkerTypeOK
<1>1. slot'[s].pc \notin Executing /\ \A t \in Slots : t # s => slot'[t] = slot[t]
  BY DEF Consume, Executing
<1>2. SlotsOK'
  BY <1>1, EffectsKeepSlot, OutsideSlotOK DEF SlotsOK
<1>3. WorkerTypeOK'
  BY DEF Consume, PC
<1> QED
  BY <1>2, <1>3 DEF Consume, consume, RestTypeOK, SchedulerTypeOK, schedulerVars,
     tables

\* and a claim.
LEMMA ClaimKeepsRest ==
  ASSUME CoreInv, Effects, UNCHANGED schedulerVars, NEW s \in Slots, Claim(s)
  PROVE  RestTypeOK' /\ SlotsOK'
<1> USE DEF CoreInv, TypeOK, StoreTypeOK
<1>1. slot[s].job \in Jobs /\ Row(s) \in JobRow /\ Row(s) = jobs[slot[s].job]
  BY SlotHasRow DEF Claim, At
<1>2. CASE Claimable(Row(s))
  <2>1. Row(s).attempts \in Nat
    BY <1>1 DEF JobRow
  <2>2. jobs'[slot[s].job].attempts = Row(s).attempts + 1
    <3>1. jobs'[slot[s].job] = claim_for_execution(Row(s), worker_id(s))
      BY <1>1, <1>2 DEF Claim, UpdateJob
    <3> QED
      BY <1>1, <3>1 DEF claim_for_execution, JobRow
  <2>3. /\ slot'[s].pc = "handling"
        /\ slot'[s].job = slot[s].job
        /\ slot'[s].attempt = Row(s).attempts + 1
        /\ \A t \in Slots : t # s => slot'[t] = slot[t]
    BY <1>2 DEF Claim, WorkerTypeOK
  <2>4. SlotOK(s)'
    BY <2>1, <2>2, <2>3 DEF SlotOK
  <2>5. SlotsOK'
    BY <2>3, <2>4, EffectsKeepSlot DEF SlotsOK
  <2>6. WorkerTypeOK'
    <3> DEFINE r == [slot[s] EXCEPT !.pc = "handling", !.attempt = Row(s).attempts + 1]
    <3>1. r \in [pc : PC, job : Jobs \cup {NULL}, attempt : Nat]
      <4>1. Row(s).attempts + 1 \in Nat /\ "handling" \in PC
        BY <2>1 DEF PC
      <4>2. slot[s] \in [pc : PC, job : Jobs \cup {NULL}, attempt : Nat]
        BY DEF WorkerTypeOK
      <4> QED
        BY <4>1, <4>2, Zenon
    <3>2. slot' = [slot EXCEPT ![s] = r]
      BY <1>2 DEF Claim, WorkerTypeOK
    <3>3. slot' \in [Slots -> [pc : PC, job : Jobs \cup {NULL}, attempt : Nat]]
      BY <3>1, <3>2 DEF WorkerTypeOK
    <3> QED
      BY <1>1, <2>3, <3>3 DEF Claim, WorkerTypeOK
  <2>7. job_attempts' \in [Jobs -> Seq(AttemptStatus)]
    <3>1. Append(job_attempts[slot[s].job], "running") \in Seq(AttemptStatus)
      BY <1>1 DEF AttemptStatus
    <3> QED
      BY <1>1, <1>2, <3>1 DEF Claim
  <2>8. job_events' \in [Jobs -> JobStatus \cup {"absent"}]
    BY <1>1, <1>2, RecordIsTyped DEF Claim, JobStatus
  <2> QED
    BY <1>2, <2>5, <2>6, <2>7, <2>8
       DEF Claim, RestTypeOK, SchedulerTypeOK, schedulerVars
<1>3. CASE ~Claimable(Row(s))
  BY <1>3, ReturnIsTyped, ReturnKeepsSlots
     DEF Claim, RestTypeOK, SchedulerTypeOK, schedulerVars
<1> QED
  BY <1>2, <1>3

\* The steps of execute that only read, and the heartbeat and the progress
\* report, which write only the row.
LEMMA ReadersKeepRest ==
  ASSUME CoreInv, Effects, UNCHANGED schedulerVars, NEW s \in Slots,
         \/ Heartbeat(s)
         \/ ReportProgress(s)
         \/ CheckCancelled(s)
         \/ HandleRetryable(s)
  PROVE  RestTypeOK' /\ SlotsOK'
<1> USE DEF CoreInv, TypeOK, StoreTypeOK
<1>1. CASE Heartbeat(s) \/ ReportProgress(s)
  BY <1>1, IdleWorkersKeepSlots
     DEF Heartbeat, ReportProgress, RestTypeOK, SchedulerTypeOK, schedulerVars
<1>2. CASE CheckCancelled(s) \/ HandleRetryable(s)
  <2>1. At(s, "handling") /\ UNCHANGED <<storeVars, alive>>
    BY <1>2 DEF CheckCancelled, HandleRetryable
  <2>2. slot[s].pc = "handling"
    BY <2>1 DEF At
  <2>3. PICK pc \in {"stopping", "exhausted", "backoff"} :
          /\ Goto(s, pc)
          /\ pc = "stopping" => Row(s).cancellation_requested_at # "null"
    BY <1>2 DEF CheckCancelled, HandleRetryable
  <2>4. WorkerTypeOK'
    BY <2>1, <2>2, <2>3, GotoIsTyped DEF PC
  <2>5. /\ slot'[s].pc = pc
        /\ slot'[s].job = slot[s].job
        /\ slot'[s].attempt = slot[s].attempt
        /\ \A t \in Slots : t # s => slot'[t] = slot[t]
    BY <2>3 DEF WorkerTypeOK, Goto
  <2>6. jobs' = jobs
    BY <2>1 DEF storeVars, tables
  <2>7. SlotOK(s)'
    BY <2>2, <2>3, <2>5, <2>6 DEF SlotsOK, SlotOK, Executing, Row
  <2>8. SlotsOK'
    BY <2>5, <2>7, EffectsKeepSlot DEF SlotsOK
  <2> QED
    BY <2>1, <2>4, <2>8
       DEF RestTypeOK, SchedulerTypeOK, schedulerVars, storeVars, tables
<1> QED
  BY <1>1, <1>2

\* The transactions that close an attempt.
LEMMA ClosersKeepRest ==
  ASSUME CoreInv, Effects, UNCHANGED schedulerVars, NEW s \in Slots,
         \/ FinalizeSucceeded(s)
         \/ FinalizeFailed(s)
         \/ FinalizeCancelled(s)
         \/ FinalizeExhausted(s)
         \/ ScheduleRetry(s)
  PROVE  RestTypeOK' /\ SlotsOK'
<1> USE DEF CoreInv
<1>1. slot[s].pc # "idle" /\ UNCHANGED <<queue, dead_letter, alive>>
  BY DEF FinalizeSucceeded, FinalizeFailed, FinalizeCancelled,
         FinalizeExhausted, ScheduleRetry, At
<1>2. slot[s].job \in Jobs /\ Row(s) \in JobRow
  BY <1>1, SlotHasRow
<1>3. WorkerTypeOK' /\ SlotsOK'
  <2>1. CASE Return(s)
    BY <1>1, <2>1, ReturnIsTyped, ReturnKeepsSlots
  <2>2. CASE Goto(s, "deadlettering")
    <3>1. WorkerTypeOK'
      BY <1>1, <2>2, GotoIsTyped DEF PC
    <3>2. slot'[s].pc \notin Executing /\ \A t \in Slots : t # s => slot'[t] = slot[t]
      BY <2>2 DEF TypeOK, WorkerTypeOK, Goto, Executing
    <3> QED
      BY <3>1, <3>2, EffectsKeepSlot, OutsideSlotOK DEF SlotsOK
  <2> QED
    BY <2>1, <2>2 DEF FinalizeSucceeded, FinalizeFailed, FinalizeCancelled,
       FinalizeExhausted, ScheduleRetry
<1>4. \/ mark_superseded(s)
      \/ \E r : Finalize(s, r) /\ r.status \in {"succeeded", "failed", "cancelled"}
      \/ finish(s, "failed") /\ record(slot[s].job, "retrying")
  <2>1. /\ mark_succeeded(Row(s), slot[s].attempt).status = "succeeded"
        /\ mark_failed(Row(s), TRUE).status = "failed"
        /\ mark_failed(Row(s), FALSE).status = "failed"
        /\ finalize_cancelled_by_worker(Row(s)).status = "cancelled"
    BY <1>2 DEF JobRow, mark_succeeded, mark_failed, finalize_cancelled_by_worker
  <2> QED
    BY <2>1 DEF FinalizeSucceeded, FinalizeFailed, FinalizeCancelled,
       FinalizeExhausted, ScheduleRetry
<1>5. /\ job_attempts' \in [Jobs -> Seq(AttemptStatus)]
      /\ job_events' \in [Jobs -> JobStatus \cup {"absent"}]
  <2>1. CASE mark_superseded(s)
    BY <2>1, FinishIsTyped DEF mark_superseded, AttemptStatus, TypeOK, StoreTypeOK
  <2>2. ASSUME NEW r, Finalize(s, r), r.status \in {"succeeded", "failed", "cancelled"}
        PROVE  /\ job_attempts' \in [Jobs -> Seq(AttemptStatus)]
               /\ job_events' \in [Jobs -> JobStatus \cup {"absent"}]
    BY <1>2, <2>2, FinishIsTyped, RecordIsTyped DEF Finalize, AttemptStatus, JobStatus
  <2>3. CASE finish(s, "failed") /\ record(slot[s].job, "retrying")
    BY <1>2, <2>3, FinishIsTyped, RecordIsTyped DEF AttemptStatus, JobStatus
  <2> QED
    BY <1>4, <2>1, <2>2, <2>3
<1> QED
  BY <1>1, <1>3, <1>5
     DEF RestTypeOK, SchedulerTypeOK, schedulerVars, TypeOK, StoreTypeOK

\* The steps in which a loop gives up what it has, and the push of a dead
\* letter.
LEMMA LeaversKeepRest ==
  ASSUME CoreInv, Effects, UNCHANGED schedulerVars,
         \/ \E s \in Slots : PushDeadLetter(s) \/ FinalizeRaises(s) \/ ExecuteError(s)
         \/ \E w \in Workers : Crash(w)
  PROVE  RestTypeOK' /\ SlotsOK'
<1> USE DEF CoreInv, RestTypeOK, TypeOK, StoreTypeOK, SchedulerTypeOK, schedulerVars
<1>1. ASSUME NEW s \in Slots, PushDeadLetter(s) PROVE RestTypeOK' /\ SlotsOK'
  <2>1. slot[s].job \in Jobs
    BY <1>1, SlotHasRow DEF PushDeadLetter, At
  <2> QED
    BY <1>1, <2>1, ReturnIsTyped, ReturnKeepsSlots
       DEF PushDeadLetter, push_dead_letter, tables
<1>2. ASSUME NEW s \in Slots, FinalizeRaises(s) \/ ExecuteError(s)
      PROVE  RestTypeOK' /\ SlotsOK'
  BY <1>2, ReturnIsTyped, ReturnKeepsSlots
     DEF FinalizeRaises, ExecuteError, storeVars, tables
<1>3. ASSUME NEW w \in Workers, Crash(w) PROVE RestTypeOK' /\ SlotsOK'
  <2>1. \A s \in Slots : slot'[s] = slot[s] \/ slot'[s].pc \notin Executing
    BY <1>3 DEF Crash, Idle, Executing
  <2>2. SlotsOK'
    BY <2>1, EffectsKeepSlot, OutsideSlotOK DEF SlotsOK
  <2>3. WorkerTypeOK'
    BY <1>3 DEF Crash, Idle, WorkerTypeOK, PC
  <2> QED
    BY <1>3, <2>2, <2>3 DEF Crash, storeVars, tables
<1> QED
  BY <1>1, <1>2, <1>3

-----------------------------------------------------------------------------
(***************************************************************************)
(* The theorems.                                                           *)
(***************************************************************************)
LEMMA NextKeepsCoreInv == CoreInv /\ [Next]_vars => CoreInv'
<1> SUFFICES ASSUME CoreInv, [Next]_vars PROVE CoreInv'
  OBVIOUS
<1>1. CASE Next
  <2>1. Effects
    BY <1>1, EveryStepIsAChange
  <2>2. RestTypeOK' /\ SlotsOK'
    <3>1. ASSUME NEW s \in Slots, Advance(s), UNCHANGED schedulerVars
          PROVE  RestTypeOK' /\ SlotsOK'
      BY <2>1, <3>1, ClaimKeepsRest, ReadersKeepRest, ClosersKeepRest,
         LeaversKeepRest DEF Advance
    <3>2. CASE Worker /\ UNCHANGED schedulerVars
      BY <2>1, <3>1, <3>2, ConsumeKeepsRest, ReadersKeepRest DEF Worker
    <3>3. CASE Tick /\ UNCHANGED workerVars
      BY <2>1, <3>3, TickKeepsRest DEF Tick
    <3> QED
      BY <1>1, <2>1, <3>2, <3>3, ApiKeepsRest, TickKeepsRest, LeaversKeepRest
         DEF Next, Calm, Disturbance
  <2>3. /\ jobs' \in [Jobs -> JobRow]
        /\ dispatch_outbox' \in [Jobs -> OutboxStatus]
        /\ notification_outbox' \in [Jobs -> SUBSET TERMINAL_STATUSES]
        /\ RowsOK'
    BY <2>1, EffectsKeepTables DEF CoreInv
  <2>4. TypeOK'
    BY <2>2, <2>3 DEF TypeOK, StoreTypeOK, RestTypeOK
  <2> QED
    BY <2>2, <2>3, <2>4 DEF CoreInv
<1>2. CASE UNCHANGED vars
  BY <1>2
     DEF CoreInv, TypeOK, StoreTypeOK, WorkerTypeOK, SchedulerTypeOK, RowsOK,
         SlotsOK, SlotOK, vars, storeVars, tables, workerVars, schedulerVars
<1> QED
  BY <1>1, <1>2

\* The inductive invariant holds throughout, for any jobs, workers, number of
\* loops per worker, batch size and failures.
THEOREM CoreInvariant == Spec => []CoreInv
BY InitCoreInv, NextKeepsCoreInv, PTL DEF Spec

\* Every table, list and program counter keeps its type.
THEOREM TypeCorrect == Spec => []TypeOK
BY CoreInvariant, PTL DEF CoreInv

\* Every job that has ended has the notification of its outcome and no other
\* job has one, however its attempts, the reaper, the expiry scan and a
\* cancellation race.
THEOREM NotificationCorrect == Spec => []NotificationMatchesOutcome
<1>1. CoreInv => NotificationMatchesOutcome
  BY DEF CoreInv, RowsOK, RowOK, NotificationOK, NotificationMatchesOutcome
<1> QED
  BY <1>1, CoreInvariant, PTL

\* The lease columns are set exactly while a job is being executed.
THEOREM LeaseCorrect == Spec => []LeaseDiscipline
<1>1. CoreInv => LeaseDiscipline
  BY DEF CoreInv, RowsOK, RowOK, LeaseOK, LeaseDiscipline
<1> QED
  BY <1>1, CoreInvariant, PTL

\* No job waits where no scan looks for it.
THEOREM NothingIsStranded == Spec => []NothingStranded
<1>1. CoreInv => NothingStranded
  BY DEF CoreInv, RowsOK, RowOK, ReachableOK, NothingStranded
<1> QED
  BY <1>1, CoreInvariant, PTL

\* A job whose cancellation was accepted never runs again.
THEOREM CancellationCorrect == Spec => []CancellationIsFinal
<1>1. CoreInv => CancellationIsFinal
  BY DEF CoreInv, RowsOK, RowOK, CancellationOK, CancellationIsFinal
<1> QED
  BY <1>1, CoreInvariant, PTL

\* The row of a job that has ended never changes again.
THEOREM TerminalCorrect == Spec => TerminalIsFinal
<1>1. CoreInv /\ [Next]_vars
        => [\A j \in Jobs : is_terminal(jobs[j].status) => jobs'[j] = jobs[j]]_vars
  <2> SUFFICES ASSUME CoreInv, Next
               PROVE  \A j \in Jobs : is_terminal(jobs[j].status) => jobs'[j] = jobs[j]
    OBVIOUS
  <2>1. Effects
    BY EveryStepIsAChange
  <2>2. \A j \in Jobs : jobs[j] \in JobRow
    BY DEF CoreInv, TypeOK, StoreTypeOK
  <2> QED
    BY <2>1, <2>2, ChangeSparesTheEnded DEF Effects, Effect
<1> QED
  BY <1>1, CoreInvariant, PTL DEF Spec, TerminalIsFinal

-----------------------------------------------------------------------------
(***************************************************************************)
(* The orchestrator implements JobLifecycle.  A step of the system is a    *)
(* Change of every job; here every Change of a job whose invariant holds   *)
(* is shown to be a step of the job's life, or invisible.                  *)
(***************************************************************************)

\* What the user sees of a job with this row and these notifications.
Seen(row, n) ==
  [status |-> row.status, attempts |-> row.attempts, result |-> row.result,
   notified |-> n]

LifeStep(v, u) ==
  \/ u = v
  \/ Lifecycle!Submitted(v, u)
  \/ Lifecycle!Starts(v, u)
  \/ Lifecycle!Moves(v, u)
  \/ Lifecycle!Ends(v, u)

\* A claim starts an attempt.
LEMMA ClaimStarts ==
  ASSUME NEW row \in JobRow, NEW n, Claimable(row), NEW w \in Workers
  PROVE  Lifecycle!Starts(Seen(row, n), Seen(claim_for_execution(row, w), n))
<1> DEFINE r == claim_for_execution(row, w)
<1>1. r.status = "running" /\ r.attempts = row.attempts + 1 /\ r.result = row.result
  BY DEF JobRow, claim_for_execution
<1>2. row.status \in Lifecycle!CLAIMABLE
  BY DEF Claimable, CLAIMABLE, Lifecycle!CLAIMABLE
<1> HIDE DEF r
<1>3. Lifecycle!Starts(Seen(row, n), Seen(r, n))
  BY <1>1, <1>2 DEF Seen, Lifecycle!Starts
<1> QED
  BY <1>3 DEF r

\* A row that only changes its status, along an edge of the table and to a
\* status that is not final, moves.
LEMMA StatusMoves ==
  ASSUME NEW row \in JobRow, NEW n, NEW r \in JobRow,
         <<row.status, r.status>> \in
           {<<"running", "cancelling">>, <<"running", "retrying">>,
            <<"running", "queued">>, <<"retrying", "queued">>, <<"pending", "queued">>},
         r.attempts = row.attempts, r.result = row.result
  PROVE  Lifecycle!Moves(Seen(row, n), Seen(r, n))
<1>1. Lifecycle!can_transition(row.status, r.status)
  BY DEF Lifecycle!can_transition, Lifecycle!VALID_TRANSITIONS
<1>2. r.status \in {"queued", "retrying", "cancelling"}
  OBVIOUS
<1> QED
  BY <1>1, <1>2 DEF Seen, Lifecycle!Moves

\* A change that is no end is a move, a start or invisible.
LEMMA QuietChangeIsALifeStep ==
  ASSUME NEW row \in JobRow, NEW n, NEW r \in JobRow, QuietChange(row, r)
  PROVE  LifeStep(Seen(row, n), Seen(r, n))
<1>1. CASE \E w \in Workers : Claimable(row) /\ r = claim_for_execution(row, w)
  BY <1>1, ClaimStarts DEF LifeStep
<1>2. CASE \/ row.status = "running" /\ r = request_running_cancellation(row)
           \/ row.status = "running" /\ r = schedule_retry(row)
           \/ find_due_retries(row) /\ r = move_retry_to_queued(row)
           \/ find_expired_leases(row) /\ r = requeue_expired_lease(row)
  <2>1. /\ <<row.status, r.status>> \in
             {<<"running", "cancelling">>, <<"running", "retrying">>,
              <<"running", "queued">>, <<"retrying", "queued">>}
        /\ r.attempts = row.attempts /\ r.result = row.result
    BY <1>2 DEF JobRow, request_running_cancellation, schedule_retry, find_due_retries,
         move_retry_to_queued, find_expired_leases, requeue_expired_lease
  <2> QED BY <2>1, StatusMoves DEF LifeStep
<1>3. CASE \/ row.status = "running" /\ r = heartbeat(row)
           \/ row.status \in FINALIZABLE /\ r = update_progress(row)
           \/ find_stuck_queued(row) /\ r = mark_redispatched(row)
           \/ r = [row EXCEPT !.lock_expires_at = "past"]
           \/ r = [row EXCEPT !.next_attempt_at = "past"]
           \/ r = [row EXCEPT !.last_dispatched_at = "past"]
           \/ r = [row EXCEPT !.created_at = "past"]
  <2>1. r.status = row.status /\ r.attempts = row.attempts /\ r.result = row.result
    BY <1>3 DEF JobRow, heartbeat, update_progress, mark_redispatched
  <2> QED BY <2>1 DEF Seen, LifeStep
<1> QED
  BY <1>1, <1>2, <1>3 DEF QuietChange

\* A change that ends a job follows an edge of the table, and the result of a
\* job that succeeded is that of one of its attempts.
LEMMA EndingChangeIsAnEnd ==
  ASSUME NEW row \in JobRow, NEW o, NEW n, NEW r \in JobRow,
         RowOK(row, o, n), EndingChange(row, r)
  PROVE  Lifecycle!Ends(Seen(row, n), Seen(r, n \cup {r.status}))
<1>1. /\ row.result = 0
      /\ n = {}
  BY DEF RowOK, FreshOK, NotificationOK, is_terminal, TERMINAL_STATUSES, EndingChange,
         INACTIVE_CANCELLABLE, FINALIZABLE, find_expired_leases, find_expirable, EXPIRABLE
<1>2. /\ <<row.status, r.status>> \in
           {<<"pending", "cancelled">>, <<"queued", "cancelled">>, <<"retrying", "cancelled">>,
            <<"running", "succeeded">>, <<"cancelling", "succeeded">>,
            <<"running", "failed">>, <<"cancelling", "failed">>,
            <<"cancelling", "cancelled">>, <<"pending", "expired">>, <<"queued", "expired">>}
      /\ r.attempts = row.attempts
      /\ r.result \in (IF r.status = "succeeded" THEN 1 .. row.attempts ELSE {0})
  <2> USE <1>1 DEF JobRow
  <2>1. CASE row.status \in INACTIVE_CANCELLABLE /\ r = cancel_inactive(row)
    BY <2>1 DEF INACTIVE_CANCELLABLE, cancel_inactive
  <2>2. CASE row.status \in FINALIZABLE /\ \E k \in 1 .. row.attempts : r = mark_succeeded(row, k)
    BY <2>2 DEF FINALIZABLE, mark_succeeded
  <2>3. CASE row.status \in FINALIZABLE /\ (r = mark_failed(row, FALSE) \/ r = mark_failed(row, TRUE))
    BY <2>3 DEF FINALIZABLE, mark_failed
  <2>4. CASE row.status = "cancelling" /\ r = finalize_cancelled_by_worker(row)
    BY <2>4 DEF finalize_cancelled_by_worker
  <2>5. CASE find_expired_leases(row) /\ r = fail_expired_lease(row)
    BY <2>5 DEF find_expired_leases, fail_expired_lease
  <2>6. CASE find_expirable(row) /\ r = expire(row)
    BY <2>6 DEF find_expirable, EXPIRABLE, expire
  <2> HIDE DEF JobRow
  <2> QED BY <2>1, <2>2, <2>3, <2>4, <2>5, <2>6 DEF EndingChange
<1>3. Lifecycle!can_transition(row.status, r.status)
  BY <1>2 DEF Lifecycle!can_transition, Lifecycle!VALID_TRANSITIONS
<1>4. Lifecycle!is_terminal(r.status)
  BY <1>2 DEF Lifecycle!is_terminal, Lifecycle!TERMINAL_STATUSES
<1> QED
  BY <1>1, <1>2, <1>3, <1>4 DEF Seen, Lifecycle!Ends

\* Every Change of a job is a step of its life, or invisible.
LEMMA ChangeIsALifeStep ==
  ASSUME NEW row \in JobRow, NEW o, NEW n, NEW r \in JobRow, NEW p, NEW m,
         RowOK(row, o, n), Change(row, o, n, r, p, m)
  PROVE  LifeStep(Seen(row, n), Seen(r, m))
<1>1. CASE r = row /\ m = n
  BY <1>1 DEF LifeStep
<1>2. CASE QuietChange(row, r) /\ m = n
  BY <1>2, QuietChangeIsALifeStep
<1>3. CASE EndingChange(row, r) /\ m = n \cup {r.status}
  BY <1>3, EndingChangeIsAnEnd DEF LifeStep
<1>4. ASSUME row.status = "absent", NEW limit \in AttemptLimits, r = NewRow(limit), m = n
      PROVE  LifeStep(Seen(row, n), Seen(r, m))
  <2>1. row.attempts = 0 /\ row.result = 0 /\ n = {}
    BY <1>4 DEF RowOK, FreshOK, NotificationOK, is_terminal, TERMINAL_STATUSES
  <2>2. r.status = "pending" /\ r.attempts = 0 /\ r.result = 0
    BY <1>4 DEF NewRow, AbsentRow
  <2> QED
    BY <1>4, <2>1, <2>2 DEF Seen, LifeStep, Lifecycle!Submitted, Lifecycle!Unsubmitted
<1>5. CASE r = mark_queued(row) /\ m = n
  <2>1. CASE row.status # "pending"
    BY <1>5, <2>1 DEF mark_queued, LifeStep
  <2>2. CASE row.status = "pending"
    <3>1. r.status = "queued" /\ r.attempts = row.attempts /\ r.result = row.result
      BY <1>5, <2>2 DEF mark_queued, JobRow
    <3> QED BY <1>5, <2>2, <3>1, StatusMoves DEF LifeStep
  <2> QED BY <2>1, <2>2
<1> QED
  BY <1>1, <1>2, <1>3, <1>4, <1>5 DEF Change

\* The detailed specification implements the abstract one: initially no job is
\* submitted, and every step is a step of the life of every job.
THEOREM Refinement == Spec => ImplementsLifecycle
<1>1. Init => Lifecycle!Init
  BY DEF Init, StoreInit, AbsentRow, View, Lifecycle!Init, Lifecycle!Unsubmitted
<1>2. CoreInv /\ [Next]_vars => [Lifecycle!Next]_View
  <2>1. CASE UNCHANGED vars
    BY <2>1 DEF vars, storeVars, tables, View
  <2>2. ASSUME CoreInv, Next PROVE Lifecycle!Next
    <3>1. Effects
      BY <2>2, EveryStepIsAChange
    <3>2. \A j \in Jobs : jobs'[j] \in JobRow
      BY <2>2, <3>1, EffectsKeepTables DEF CoreInv
    <3> SUFFICES ASSUME NEW j \in Jobs PROVE LifeStep(View[j], View'[j])
      BY DEF Lifecycle!Next, LifeStep
    <3>3. /\ View[j] = Seen(jobs[j], notification_outbox[j])
          /\ View'[j] = Seen(jobs'[j], notification_outbox'[j])
      BY DEF View, Seen
    <3>4. /\ jobs[j] \in JobRow
          /\ RowOK(jobs[j], dispatch_outbox[j], notification_outbox[j])
      BY <2>2 DEF CoreInv, TypeOK, StoreTypeOK, RowsOK
    <3> QED
      BY <3>1, <3>2, <3>3, <3>4, ChangeIsALifeStep DEF Effects, Effect
  <2> QED BY <2>1, <2>2
<1> QED
  BY <1>1, <1>2, CoreInvariant, PTL DEF Spec, ImplementsLifecycle, Lifecycle!Spec

=============================================================================
