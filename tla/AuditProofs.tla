----------------------------- MODULE AuditProofs -----------------------------
(***************************************************************************)
(* What the system writes down beside the row of a job.  First the table   *)
(* job_attempts as an audit of what was run: one row per started attempt,  *)
(* closed by the loop that opened it, and at most one of them the winner.  *)
(* Then the trail of a job: its dispatch and the copies of its id, its     *)
(* timeline and its dead letter.  Unlike the fencing of FencingProofs,     *)
(* none of this needs the lease to identify the attempt: it holds for any  *)
(* number of loops per worker, also where a superseded attempt wins with   *)
(* its newer sibling's lease.                                              *)
(***************************************************************************)
EXTENDS FencingProofs

AuditInv == CoreInv /\ AttemptsAudited /\ SingleWinner

\* Only the jobs in c may become succeeded by the step.
WonOnlyBy(c) ==
  \A j \in Jobs \ c : jobs'[j].status = "succeeded" => jobs[j].status = "succeeded"

\* The step that opens no attempt and closes none.
AuditStays == job_attempts' = job_attempts /\ WonOnlyBy({})

\* Loop s leaves execute and closes its attempt with outcome o.
Closes(s, o) ==
  /\ slot[s].pc \in Executing
  /\ finish(s, o)
  /\ o \in AttemptStatus \ {"running"}

-----------------------------------------------------------------------------
\* A job that the step does not let win keeps its result, or its lack of one.
LEMMA ResultIsKept ==
  ASSUME NEW row \in JobRow, NEW o, NEW n, NEW r, NEW p, NEW m,
         RowOK(row, o, n), Change(row, o, n, r, p, m),
         r.status = "succeeded" => row.status = "succeeded"
  PROVE  /\ r.result = row.result
         /\ r.status = "succeeded" <=> row.status = "succeeded"
<1>1. CASE row.status = "succeeded"
  BY <1>1, ChangeSparesTheEnded DEF is_terminal, TERMINAL_STATUSES
<1>2. CASE row.status # "succeeded"
  BY <1>2, ChangeKeepsRowOK DEF RowOK, FreshOK
<1> QED
  BY <1>1, <1>2

\* The part of the invariant that is about one job survives the steps that
\* neither claim the job nor let it win.
LEMMA JobIsKept ==
  ASSUME CoreInv, Effects, NEW j \in Jobs,
         jobs'[j].status = "running" => jobs[j].status = "running",
         jobs'[j].status = "succeeded" => jobs[j].status = "succeeded"
  PROVE  /\ jobs'[j].attempts = jobs[j].attempts
         /\ jobs'[j].result = jobs[j].result
         /\ jobs'[j].status = "succeeded" <=> jobs[j].status = "succeeded"
<1>1. jobs[j] \in JobRow /\ RowOK(jobs[j], dispatch_outbox[j], notification_outbox[j])
  BY DEF CoreInv, TypeOK, StoreTypeOK, RowsOK
<1>2. Change(jobs[j], dispatch_outbox[j], notification_outbox[j],
             jobs'[j], dispatch_outbox'[j], notification_outbox'[j])
  BY DEF Effects, Effect
<1>3. jobs'[j].attempts = jobs[j].attempts
  BY <1>1, <1>2, LeaseIsKept
<1>4. /\ jobs'[j].result = jobs[j].result
      /\ jobs'[j].status = "succeeded" <=> jobs[j].status = "succeeded"
  BY <1>1, <1>2, ResultIsKept
<1> QED
  BY <1>3, <1>4

\* A change of one row touches no other.
LEMMA OneRowWins ==
  ASSUME TypeOK, NEW j \in Jobs, NEW r, UpdateJob(j, r), NEW c,
         j \in c \/ r.status # "succeeded" \/ r.status = jobs[j].status
  PROVE  WonOnlyBy(c)
BY DEF TypeOK, StoreTypeOK, UpdateJob, WonOnlyBy

-----------------------------------------------------------------------------
\* The API, the clock and the scheduler open and close no attempt and let no
\* job win.
LEMMA OthersAuditNothing ==
  ASSUME TypeOK,
         \/ Api
         \/ \E j \in Jobs : Elapse(j)
         \/ \E batch \in SUBSET Jobs : Scan(batch)
         \/ \E j \in Jobs : DeadLetter(j) \/ Publish(j)
         \/ TickFails
         \/ RedisRestarts
  PROVE  AuditStays
<1>1. job_attempts' = job_attempts
  BY DEF Api, Submit, Cancel, Elapse, Scan, DispatchPending, PromoteDue, ReapExpired,
         RedeliverStuck, ExpireStale, ScanRaises, DeadLetter, Publish, TickFails,
         RedisRestarts, storeVars, tables
<1>2. ASSUME NEW j \in Jobs, NEW limit, Submit(j, limit) PROVE WonOnlyBy({})
  <2>1. NewRow(limit).status = "pending"
    BY DEF NewRow, AbsentRow
  <2> QED BY <1>2, <2>1, OneRowWins DEF Submit
<1>3. ASSUME NEW j \in Jobs, Cancel(j) PROVE WonOnlyBy({})
  <2>1. jobs[j] \in JobRow
    BY DEF TypeOK, StoreTypeOK
  <2>2. /\ request_running_cancellation(jobs[j]).status = "cancelling"
        /\ cancel_inactive(jobs[j]).status = "cancelled"
    BY <2>1 DEF JobRow, request_running_cancellation, cancel_inactive
  <2> QED BY <1>3, <2>2, OneRowWins DEF Cancel, RequestCancellation, CancelInactive
<1>4. ASSUME NEW j \in Jobs, Elapse(j) PROVE WonOnlyBy({})
  <2>1. jobs[j] \in JobRow
    BY DEF TypeOK, StoreTypeOK
  <2>2. PICK r : UpdateJob(j, r) /\ r.status = jobs[j].status
    BY <1>4, <2>1 DEF Elapse, LeaseLapses, RetryFallsDue, QueuedTooLong, AgesOut, JobRow
  <2> QED BY <2>2, OneRowWins
<1>5. ASSUME NEW batch, Scan(batch) PROVE WonOnlyBy({})
  <2> SUFFICES ASSUME NEW j \in Jobs
               PROVE  \/ jobs'[j].status # "succeeded"
                      \/ jobs'[j].status = jobs[j].status
    BY DEF WonOnlyBy
  <2>1. jobs[j] \in JobRow
    BY DEF TypeOK, StoreTypeOK
  <2> USE <1>5, <2>1 DEF JobRow, UpdateBatch
  <2>2. CASE DispatchPending(batch)
    BY <2>2 DEF DispatchPending, mark_queued
  <2>3. CASE PromoteDue(batch)
    BY <2>3 DEF PromoteDue, move_retry_to_queued
  <2>4. CASE ReapExpired(batch)
    BY <2>4 DEF ReapExpired, ReapRow, fail_expired_lease, requeue_expired_lease
  <2>5. CASE RedeliverStuck(batch)
    BY <2>5 DEF RedeliverStuck, mark_redispatched
  <2>6. CASE ExpireStale(batch)
    BY <2>6 DEF ExpireStale, expire
  <2>7. CASE ScanRaises(batch)
    BY <2>7 DEF ScanRaises, storeVars, tables
  <2> QED BY <2>2, <2>3, <2>4, <2>5, <2>6, <2>7 DEF Scan
<1>6. CASE (\E j \in Jobs : DeadLetter(j) \/ Publish(j)) \/ TickFails \/ RedisRestarts
  BY <1>1, <1>6
     DEF DeadLetter, Publish, TickFails, RedisRestarts, storeVars, tables, WonOnlyBy, AuditStays
<1> QED
  BY <1>1, <1>2, <1>3, <1>4, <1>5, <1>6 DEF Api, AuditStays

\* What a loop does besides claiming and closing its attempt.
LEMMA LoopsAuditNothing ==
  ASSUME TypeOK, NEW s \in Slots,
         \/ \E j \in Jobs : Consume(s, j)
         \/ Heartbeat(s) \/ ReportProgress(s) \/ CheckCancelled(s)
         \/ HandleRetryable(s) \/ PushDeadLetter(s)
         \/ FinalizeRaises(s) \/ ExecuteError(s)
  PROVE  AuditStays
<1>1. CASE \/ \E j \in Jobs : Consume(s, j)
           \/ CheckCancelled(s) \/ HandleRetryable(s) \/ PushDeadLetter(s)
           \/ FinalizeRaises(s) \/ ExecuteError(s)
  BY <1>1 DEF Consume, CheckCancelled, HandleRetryable, PushDeadLetter,
     FinalizeRaises, ExecuteError, storeVars, tables, AuditStays, WonOnlyBy
<1>2. CASE Heartbeat(s) \/ ReportProgress(s)
  <2>1. slot[s].pc # "idle"
    BY <1>2 DEF Heartbeat, ReportProgress, At, Executing
  <2>2. slot[s].job \in Jobs /\ Row(s) \in JobRow /\ Row(s) = jobs[slot[s].job]
    BY <2>1, SlotHasRow
  <2>3. heartbeat(Row(s)).status = Row(s).status /\ update_progress(Row(s)).status = Row(s).status
    BY <2>2 DEF JobRow, heartbeat, update_progress
  <2>4. PICK r : UpdateJob(slot[s].job, r) /\ r.status = Row(s).status
    BY <1>2, <2>3 DEF Heartbeat, ReportProgress
  <2>5. WonOnlyBy({})
    BY <2>2, <2>4, OneRowWins
  <2> QED BY <1>2, <2>5 DEF Heartbeat, ReportProgress, AuditStays
<1> QED
  BY <1>1, <1>2

\* A finalizer or a scheduled retry closes the loop's attempt, as succeeded
\* exactly when it wrote the result of that attempt to the job.
LEMMA LoopsCloseOneAttempt ==
  ASSUME TypeOK, NEW s \in Slots,
         \/ FinalizeSucceeded(s) \/ FinalizeFailed(s) \/ FinalizeCancelled(s)
         \/ FinalizeExhausted(s) \/ ScheduleRetry(s)
  PROVE  /\ slot'[s].pc \notin Executing
         /\ \A t \in Slots \ {s} : slot'[t] = slot[t]
         /\ \/ \E o : Closes(s, o) /\ o # "succeeded" /\ WonOnlyBy({})
            \/ /\ Closes(s, "succeeded")
               /\ WonOnlyBy({slot[s].job})
               /\ jobs[slot[s].job].status \in FINALIZABLE
               /\ jobs'[slot[s].job] = mark_succeeded(jobs[slot[s].job], slot[s].attempt)
<1>1. slot[s].pc \in Executing /\ slot[s].pc # "idle"
  BY DEF FinalizeSucceeded, FinalizeFailed, FinalizeCancelled, FinalizeExhausted,
         ScheduleRetry, At, Executing
<1>2. slot[s].job \in Jobs /\ Row(s) \in JobRow /\ Row(s) = jobs[slot[s].job]
  BY <1>1, SlotHasRow
<1>3. slot'[s].pc \notin Executing /\ \A t \in Slots \ {s} : slot'[t] = slot[t]
  <2>1. slot \in [Slots -> [pc : PC, job : Jobs \cup {NULL}, attempt : Nat]]
    BY DEF TypeOK, WorkerTypeOK
  <2>2. Return(s) \/ Goto(s, "deadlettering")
    BY DEF FinalizeSucceeded, FinalizeFailed, FinalizeCancelled, FinalizeExhausted,
           ScheduleRetry
  <2> QED BY <2>1, <2>2 DEF Return, Goto, Idle, Executing
<1>4. ASSUME mark_superseded(s)
      PROVE  \E o : Closes(s, o) /\ o # "succeeded" /\ WonOnlyBy({})
  <2>1. Closes(s, "superseded") /\ WonOnlyBy({})
    BY <1>1, <1>4 DEF mark_superseded, Closes, AttemptStatus, WonOnlyBy
  <2> QED BY <2>1
<1>5. ASSUME NEW r, Finalize(s, r), r.status \in {"failed", "cancelled"}
      PROVE  \E o : Closes(s, o) /\ o # "succeeded" /\ WonOnlyBy({})
  <2>1. WonOnlyBy({})
    BY <1>2, <1>5, OneRowWins DEF Finalize
  <2>2. Closes(s, r.status)
    BY <1>1, <1>5 DEF Finalize, Closes, AttemptStatus
  <2> QED BY <1>5, <2>1, <2>2
<1>6. CASE FinalizeSucceeded(s) /\ HeldBy(Row(s), worker_id(s))
  <2> DEFINE r == mark_succeeded(Row(s), slot[s].attempt)
  <2>1. r.status = "succeeded"
    BY <1>2 DEF JobRow, mark_succeeded
  <2>2. UpdateJob(slot[s].job, r) /\ finish(s, "succeeded")
    BY <1>6, <2>1 DEF FinalizeSucceeded, Finalize
  <2>3. jobs'[slot[s].job] = r
    BY <1>2, <2>2 DEF UpdateJob, TypeOK, StoreTypeOK
  <2> HIDE DEF r
  <2>4. WonOnlyBy({slot[s].job})
    BY <1>2, <2>2, OneRowWins
  <2>5. Closes(s, "succeeded")
    BY <1>1, <2>2 DEF Closes, AttemptStatus
  <2>6. jobs[slot[s].job].status \in FINALIZABLE
    BY <1>2, <1>6 DEF HeldBy
  <2> QED BY <1>2, <1>3, <2>3, <2>4, <2>5, <2>6 DEF r
<1>7. CASE FinalizeFailed(s) \/ FinalizeCancelled(s) \/ FinalizeExhausted(s)
  <2>1. /\ mark_failed(Row(s), FALSE).status = "failed"
        /\ mark_failed(Row(s), TRUE).status = "failed"
        /\ finalize_cancelled_by_worker(Row(s)).status = "cancelled"
    BY <1>2 DEF JobRow, mark_failed, finalize_cancelled_by_worker
  <2>2. mark_superseded(s) \/ \E r : Finalize(s, r) /\ r.status \in {"failed", "cancelled"}
    BY <1>7, <2>1 DEF FinalizeFailed, FinalizeCancelled, FinalizeExhausted
  <2> QED BY <1>3, <1>4, <1>5, <2>2
<1>8. CASE ScheduleRetry(s) /\ RunningBy(Row(s), worker_id(s))
  <2>1. schedule_retry(Row(s)).status = "retrying"
    BY <1>2 DEF JobRow, schedule_retry
  <2>2. UpdateJob(slot[s].job, schedule_retry(Row(s))) /\ finish(s, "failed")
    BY <1>8 DEF ScheduleRetry
  <2>3. WonOnlyBy({})
    BY <1>2, <2>1, <2>2, OneRowWins
  <2>4. Closes(s, "failed")
    BY <1>1, <2>2 DEF Closes, AttemptStatus
  <2> QED BY <1>3, <2>3, <2>4
<1> QED
  BY <1>3, <1>4, <1>6, <1>7, <1>8 DEF FinalizeSucceeded, ScheduleRetry

-----------------------------------------------------------------------------
\* A step that opens and closes no attempt keeps the audit.
LEMMA StayingKeepsAudit ==
  ASSUME AuditInv, Effects, SlotsStay, StartsOnlyBy({}, {}), AuditStays
  PROVE  AttemptsAudited' /\ SingleWinner'
<1>1. ASSUME NEW j \in Jobs
      PROVE  /\ jobs'[j].attempts = jobs[j].attempts
             /\ jobs'[j].result = jobs[j].result
             /\ jobs'[j].status = "succeeded" <=> jobs[j].status = "succeeded"
  BY JobIsKept DEF AuditInv, StartsOnlyBy, AuditStays, WonOnlyBy
<1>2. ASSUME NEW s \in Slots, slot'[s].pc \in Executing
      PROVE  /\ slot[s].pc \in Executing
             /\ slot'[s].job = slot[s].job
             /\ slot'[s].attempt = slot[s].attempt
             /\ slot[s].job \in Jobs
  <2>1. /\ slot[s].pc \in Executing
        /\ slot'[s].job = slot[s].job
        /\ slot'[s].attempt = slot[s].attempt
    BY <1>2 DEF SlotsStay, SlotStays
  <2>2. slot[s].job \in Jobs
    BY <2>1, SlotHasRow DEF AuditInv, CoreInv, Executing
  <2> QED BY <2>1, <2>2
<1>3. SingleWinner'
  BY <1>1 DEF AuditInv, AuditStays, SingleWinner
<1>4. AttemptsAudited'
  <2>1. \A j \in Jobs : Len(job_attempts'[j]) = jobs'[j].attempts
    BY <1>1 DEF AuditInv, AuditStays, AttemptsAudited
  <2>2. ASSUME NEW s \in Slots, slot'[s].pc \in Executing
        PROVE  /\ slot'[s].attempt \in 1 .. jobs'[slot'[s].job].attempts
               /\ job_attempts'[slot'[s].job][slot'[s].attempt] = "running"
    BY <1>1, <1>2, <2>2 DEF AuditInv, AuditStays, AttemptsAudited
  <2>3. ASSUME NEW s \in Slots, NEW t \in Slots,
               slot'[s].pc \in Executing, slot'[t].pc \in Executing,
               slot'[s].job = slot'[t].job, slot'[s].attempt = slot'[t].attempt
        PROVE  s = t
    BY <1>2, <2>3 DEF AuditInv, AttemptsAudited
  <2> QED BY <2>1, <2>2, <2>3 DEF AttemptsAudited
<1> QED
  BY <1>3, <1>4

\* Closing an attempt rewrites one entry of the table.
LEMMA FinishOne ==
  ASSUME AuditInv, NEW s \in Slots, NEW o, Closes(s, o)
  PROVE  /\ slot[s].job \in Jobs
         /\ slot[s].attempt \in DOMAIN job_attempts[slot[s].job]
         /\ \A j \in Jobs :
              /\ Len(job_attempts'[j]) = Len(job_attempts[j])
              /\ DOMAIN job_attempts'[j] = DOMAIN job_attempts[j]
              /\ \A n \in DOMAIN job_attempts[j] :
                   job_attempts'[j][n] =
                     IF j = slot[s].job /\ n = slot[s].attempt THEN o ELSE job_attempts[j][n]
<1>1. slot[s].pc \in Executing /\ slot[s].pc # "idle"
  BY DEF Closes, Executing
<1>2. slot[s].job \in Jobs
  BY <1>1, SlotHasRow DEF AuditInv, CoreInv
<1>3. job_attempts \in [Jobs -> Seq(AttemptStatus)] /\ o \in AttemptStatus
  BY DEF AuditInv, CoreInv, TypeOK, StoreTypeOK, Closes
<1>4. /\ slot[s].attempt \in 1 .. jobs[slot[s].job].attempts
      /\ Len(job_attempts[slot[s].job]) = jobs[slot[s].job].attempts
  BY <1>1, <1>2 DEF AuditInv, AttemptsAudited
<1>5. job_attempts' = [job_attempts EXCEPT ![slot[s].job][slot[s].attempt] = o]
  BY DEF Closes, finish
<1>6. slot[s].attempt \in DOMAIN job_attempts[slot[s].job]
  BY <1>2, <1>3, <1>4
<1>7. /\ job_attempts'[slot[s].job] = [job_attempts[slot[s].job] EXCEPT ![slot[s].attempt] = o]
      /\ \A j \in Jobs \ {slot[s].job} : job_attempts'[j] = job_attempts[j]
  BY <1>2, <1>3, <1>5
<1> DEFINE q == job_attempts[slot[s].job]
<1>8. q \in Seq(AttemptStatus)
  BY <1>2, <1>3
<1>9. /\ Len([q EXCEPT ![slot[s].attempt] = o]) = Len(q)
      /\ DOMAIN [q EXCEPT ![slot[s].attempt] = o] = DOMAIN q
      /\ \A n \in DOMAIN q :
           [q EXCEPT ![slot[s].attempt] = o][n] = IF n = slot[s].attempt THEN o ELSE q[n]
  <2> HIDE DEF q
  <2>1. slot[s].attempt \in 1 .. Len(q)
    BY <1>4 DEF q
  <2>2. /\ [q EXCEPT ![slot[s].attempt] = o] \in Seq(AttemptStatus)
        /\ Len([q EXCEPT ![slot[s].attempt] = o]) = Len(q)
    BY <1>3, <1>8, <2>1, ExceptSeq
  <2> QED BY <1>3, <1>8, <2>1, <2>2
<1> QED
  BY <1>2, <1>6, <1>7, <1>9

\* Closing an attempt keeps the audit.
LEMMA ClosingKeepsAudit ==
  ASSUME AuditInv, Effects, NEW s \in Slots,
         \/ FinalizeSucceeded(s) \/ FinalizeFailed(s) \/ FinalizeCancelled(s)
         \/ FinalizeExhausted(s) \/ ScheduleRetry(s)
  PROVE  AttemptsAudited' /\ SingleWinner'
<1> DEFINE i == slot[s].job
           k == slot[s].attempt
<1>1. /\ slot'[s].pc \notin Executing
      /\ \A t \in Slots \ {s} : slot'[t] = slot[t]
      /\ \/ \E o : Closes(s, o) /\ o # "succeeded" /\ WonOnlyBy({})
         \/ /\ Closes(s, "succeeded")
            /\ WonOnlyBy({i})
            /\ jobs[i].status \in FINALIZABLE
            /\ jobs'[i] = mark_succeeded(jobs[i], k)
  BY LoopsCloseOneAttempt DEF AuditInv, CoreInv
<1>2. PICK o : Closes(s, o) /\ (o # "succeeded" => WonOnlyBy({})) /\ WonOnlyBy({i})
               /\ (o = "succeeded" => /\ jobs[i].status \in FINALIZABLE
                                     /\ jobs'[i] = mark_succeeded(jobs[i], k))
  BY <1>1 DEF WonOnlyBy
<1>3. /\ i \in Jobs
      /\ k \in DOMAIN job_attempts[i]
      /\ \A j \in Jobs :
           /\ Len(job_attempts'[j]) = Len(job_attempts[j])
           /\ DOMAIN job_attempts'[j] = DOMAIN job_attempts[j]
           /\ \A n \in DOMAIN job_attempts[j] :
                job_attempts'[j][n] = IF j = i /\ n = k THEN o ELSE job_attempts[j][n]
  BY <1>2, FinishOne
<1>4. slot[s].pc \in Executing /\ job_attempts[i][k] = "running" /\ k \in Nat \ {0}
  BY <1>2, <1>3 DEF Closes, AuditInv, AttemptsAudited, CoreInv, TypeOK, StoreTypeOK
<1>5. \A j \in Jobs : jobs'[j].status = "running" => jobs[j].status = "running"
  <2>1. CASE ScheduleRetry(s)
    <3>1. slot[s].pc # "idle"
      BY <1>4 DEF Executing
    <3>2. Row(s) \in JobRow /\ Row(s) = jobs[i] /\ i \in Jobs
      BY <3>1, SlotHasRow DEF AuditInv, CoreInv
    <3>3. schedule_retry(Row(s)).status = "retrying"
      BY <3>2 DEF JobRow, schedule_retry
    <3> QED BY <2>1, <3>2, <3>3
          DEF ScheduleRetry, UpdateJob, mark_superseded, AuditInv, CoreInv, TypeOK, StoreTypeOK
  <2> QED BY <2>1, LoopsStartNothing DEF StartsOnlyBy, AuditInv, CoreInv
<1>6. \A j \in Jobs : j # i \/ o # "succeeded" =>
        /\ jobs'[j].attempts = jobs[j].attempts
        /\ jobs'[j].result = jobs[j].result
        /\ jobs'[j].status = "succeeded" <=> jobs[j].status = "succeeded"
  BY <1>2, <1>5, JobIsKept DEF AuditInv, WonOnlyBy
<1>7. o = "succeeded" =>
        /\ jobs'[i].attempts = jobs[i].attempts
        /\ jobs'[i].result = k
        /\ jobs'[i].status = "succeeded"
        /\ jobs[i].status # "succeeded"
  <2>1. jobs[i] \in JobRow
    BY <1>3 DEF AuditInv, CoreInv, TypeOK, StoreTypeOK
  <2> QED BY <1>2, <2>1 DEF JobRow, mark_succeeded, FINALIZABLE
<1> HIDE DEF i, k
<1>8. SingleWinner'
  <2> SUFFICES ASSUME NEW j \in Jobs
               PROVE  /\ (jobs'[j].status = "succeeded") <=> (jobs'[j].result # 0)
                      /\ \A n \in DOMAIN job_attempts'[j] :
                           (job_attempts'[j][n] = "succeeded") <=> (jobs'[j].result = n)
    BY DEF SingleWinner
  <2>1. /\ (jobs[j].status = "succeeded") <=> (jobs[j].result # 0)
        /\ \A n \in DOMAIN job_attempts[j] :
             (job_attempts[j][n] = "succeeded") <=> (jobs[j].result = n)
    BY DEF AuditInv, SingleWinner
  <2>2. CASE j = i /\ o = "succeeded"
    <3>1. jobs[i].result = 0 /\ \A n \in DOMAIN job_attempts[i] : n # 0
      BY <1>3, <1>7, <2>1, <2>2 DEF AuditInv, CoreInv, TypeOK, StoreTypeOK
    <3> QED BY <1>3, <1>4, <1>7, <2>1, <2>2, <3>1
  <2>3. CASE ~(j = i /\ o = "succeeded")
    BY <1>3, <1>4, <1>6, <2>1, <2>3
  <2> QED BY <2>2, <2>3
<1>9. AttemptsAudited'
  <2>1. \A j \in Jobs : jobs'[j].attempts = jobs[j].attempts
    BY <1>6, <1>7
  <2>2. \A j \in Jobs : Len(job_attempts'[j]) = jobs'[j].attempts
    BY <1>3, <2>1 DEF AuditInv, AttemptsAudited
  <2>3. ASSUME NEW t \in Slots, slot'[t].pc \in Executing
        PROVE  /\ t # s /\ slot'[t] = slot[t] /\ slot[t].job \in Jobs
               /\ slot[t].attempt \in 1 .. jobs[slot[t].job].attempts
               /\ job_attempts[slot[t].job][slot[t].attempt] = "running"
               /\ ~(slot[t].job = i /\ slot[t].attempt = k)
    <3>1. t # s /\ slot'[t] = slot[t] /\ slot[t].pc # "idle"
      BY <1>1, <2>3 DEF Executing
    <3>2. slot[t].job \in Jobs
      BY <3>1, SlotHasRow DEF AuditInv, CoreInv
    <3> QED BY <1>4, <2>3, <3>1, <3>2 DEF AuditInv, AttemptsAudited, i, k
  <2>4. ASSUME NEW t \in Slots, slot'[t].pc \in Executing
        PROVE  /\ slot'[t].attempt \in 1 .. jobs'[slot'[t].job].attempts
               /\ job_attempts'[slot'[t].job][slot'[t].attempt] = "running"
    <3>1. slot[t].attempt \in DOMAIN job_attempts[slot[t].job]
      <4>1. job_attempts[slot[t].job] \in Seq(AttemptStatus)
        BY <2>3, <2>4 DEF AuditInv, CoreInv, TypeOK, StoreTypeOK
      <4>2. slot[t].attempt \in 1 .. Len(job_attempts[slot[t].job])
        BY <2>3, <2>4 DEF AuditInv, AttemptsAudited
      <4> QED BY <4>1, <4>2
    <3> QED BY <1>3, <2>1, <2>3, <2>4, <3>1
  <2>5. ASSUME NEW t \in Slots, NEW u \in Slots,
               slot'[t].pc \in Executing, slot'[u].pc \in Executing,
               slot'[t].job = slot'[u].job, slot'[t].attempt = slot'[u].attempt
        PROVE  t = u
    BY <2>3, <2>5 DEF AuditInv, AttemptsAudited
  <2> QED BY <2>2, <2>4, <2>5 DEF AttemptsAudited
<1> QED
  BY <1>8, <1>9

\* A claim opens the row of the attempt it starts.
LEMMA ClaimKeepsAudit ==
  ASSUME AuditInv, NEW s \in Slots, Claim(s)
  PROVE  AttemptsAudited' /\ SingleWinner'
<1> DEFINE i == slot[s].job
<1>1. slot[s].pc = "popped" /\ slot[s].pc # "idle"
  BY DEF Claim, At
<1>2. i \in Jobs /\ jobs[i] \in JobRow /\ Row(s) = jobs[i]
  BY <1>1, SlotHasRow DEF AuditInv, CoreInv
<1>t. /\ slot \in [Slots -> [pc : PC, job : Jobs \cup {NULL}, attempt : Nat]]
      /\ jobs \in [Jobs -> JobRow]
      /\ job_attempts \in [Jobs -> Seq(AttemptStatus)]
  BY DEF AuditInv, CoreInv, TypeOK, WorkerTypeOK, StoreTypeOK
<1>3. CASE ~Claimable(Row(s))
  <2>1. UNCHANGED <<jobs, job_attempts>> /\ Return(s)
    BY <1>3 DEF Claim
  <2>2. slot'[s].pc \notin Executing /\ \A t \in Slots \ {s} : slot'[t] = slot[t]
    BY <1>t, <2>1 DEF Return, Idle, Executing
  <2>3. AttemptsAudited'
    BY <2>1, <2>2 DEF AuditInv, AttemptsAudited
  <2> QED BY <2>1, <2>3 DEF AuditInv, SingleWinner
<1>4. CASE Claimable(Row(s))
  <2> DEFINE q == job_attempts[i]
  <2>1. /\ UpdateJob(i, claim_for_execution(jobs[i], worker_id(s)))
        /\ job_attempts' = [job_attempts EXCEPT ![i] = Append(@, "running")]
        /\ slot' = [slot EXCEPT ![s].pc = "handling",
                                ![s].attempt = jobs[i].attempts + 1]
    BY <1>2, <1>4 DEF Claim
  <2>2. /\ jobs'[i] = claim_for_execution(jobs[i], worker_id(s))
        /\ \A j \in Jobs \ {i} : jobs'[j] = jobs[j]
    BY <1>2, <1>t, <2>1 DEF UpdateJob
  <2>3. /\ jobs'[i].status = "running" /\ jobs[i].status # "succeeded"
        /\ jobs'[i].attempts = jobs[i].attempts + 1
        /\ jobs'[i].result = jobs[i].result
        /\ jobs[i].attempts \in Nat
    BY <1>2, <1>4, <2>2 DEF claim_for_execution, JobRow, Claimable, CLAIMABLE
  <2>4. /\ slot'[s].pc = "handling" /\ slot'[s].pc \in Executing
        /\ slot'[s].job = i
        /\ slot'[s].attempt = jobs[i].attempts + 1
        /\ \A t \in Slots \ {s} : slot'[t] = slot[t]
    BY <1>t, <2>1 DEF Executing
  <2>5. /\ job_attempts'[i] = Append(q, "running")
        /\ \A j \in Jobs \ {i} : job_attempts'[j] = job_attempts[j]
    BY <1>2, <1>t, <2>1
  <2>6. q \in Seq(AttemptStatus) /\ Len(q) = jobs[i].attempts
    BY <1>2, <1>t DEF AuditInv, AttemptsAudited
  <2>7. /\ Len(job_attempts'[i]) = jobs[i].attempts + 1
        /\ DOMAIN job_attempts'[i] = 1 .. jobs[i].attempts + 1
        /\ \A n \in 1 .. jobs[i].attempts : job_attempts'[i][n] = job_attempts[i][n]
        /\ job_attempts'[i][jobs[i].attempts + 1] = "running"
        /\ DOMAIN job_attempts[i] = 1 .. jobs[i].attempts
    <3> HIDE DEF q
    <3>1. "running" \in AttemptStatus
      BY DEF AttemptStatus
    <3>2. Append(q, "running") \in Seq(AttemptStatus) /\ Len(Append(q, "running")) = Len(q) + 1
      BY <2>6, <3>1, AppendProperties
    <3> QED BY <2>3, <2>5, <2>6, <3>1, <3>2 DEF q
  <2> HIDE DEF q
  <2>8. SingleWinner'
    <3> SUFFICES ASSUME NEW j \in Jobs
                 PROVE  /\ (jobs'[j].status = "succeeded") <=> (jobs'[j].result # 0)
                        /\ \A n \in DOMAIN job_attempts'[j] :
                             (job_attempts'[j][n] = "succeeded") <=> (jobs'[j].result = n)
      BY DEF SingleWinner
    <3>1. /\ (jobs[j].status = "succeeded") <=> (jobs[j].result # 0)
          /\ \A n \in DOMAIN job_attempts[j] :
               (job_attempts[j][n] = "succeeded") <=> (jobs[j].result = n)
      BY DEF AuditInv, SingleWinner
    <3>2. CASE j # i
      BY <2>2, <2>5, <3>1, <3>2
    <3>3. CASE j = i
      <4>1. jobs'[i].status # "succeeded" /\ jobs'[i].result = 0
        BY <2>3, <3>1, <3>3
      <4>2. ASSUME NEW n \in 1 .. jobs[i].attempts + 1
            PROVE  job_attempts'[i][n] # "succeeded" /\ n # 0
        <5>1. CASE n = jobs[i].attempts + 1
          BY <2>3, <2>7, <5>1
        <5>2. CASE n \in 1 .. jobs[i].attempts
          <6>1. jobs[i].result = 0
            BY <2>3, <3>1, <3>3
          <6>2. (job_attempts[i][n] = "succeeded") <=> (jobs[i].result = n)
            BY <2>7, <3>1, <3>3, <5>2
          <6>3. job_attempts'[i][n] = job_attempts[i][n] /\ n # 0
            BY <2>3, <2>7, <5>2
          <6> QED BY <6>1, <6>2, <6>3
        <5> QED BY <2>3, <5>1, <5>2
      <4> QED BY <2>7, <3>3, <4>1, <4>2
    <3> QED BY <3>2, <3>3
  <2>9. AttemptsAudited'
    <3>1. \A j \in Jobs : Len(job_attempts'[j]) = jobs'[j].attempts
      <4>1. ASSUME NEW j \in Jobs, j # i PROVE Len(job_attempts'[j]) = jobs'[j].attempts
        BY <2>2, <2>5, <4>1 DEF AuditInv, AttemptsAudited
      <4> QED BY <1>2, <2>3, <2>7, <4>1
    <3>2. ASSUME NEW t \in Slots, t # s, slot'[t].pc \in Executing
          PROVE  /\ slot'[t] = slot[t] /\ slot[t].job \in Jobs
                 /\ slot[t].attempt \in 1 .. jobs[slot[t].job].attempts
                 /\ job_attempts[slot[t].job][slot[t].attempt] = "running"
      <4>1. slot'[t] = slot[t] /\ slot[t].pc # "idle"
        BY <2>4, <3>2 DEF Executing
      <4>2. slot[t].job \in Jobs
        BY <4>1, SlotHasRow DEF AuditInv, CoreInv
      <4> QED BY <3>2, <4>1, <4>2 DEF AuditInv, AttemptsAudited
    <3>3. ASSUME NEW t \in Slots, slot'[t].pc \in Executing
          PROVE  /\ slot'[t].attempt \in 1 .. jobs'[slot'[t].job].attempts
                 /\ job_attempts'[slot'[t].job][slot'[t].attempt] = "running"
      <4>1. CASE t = s
        <5>1. slot'[s].attempt \in 1 .. jobs'[i].attempts
          BY <2>3, <2>4
        <5>2. job_attempts'[i][slot'[s].attempt] = "running"
          BY <2>4, <2>7
        <5> QED BY <2>4, <4>1, <5>1, <5>2
      <4>2. CASE t # s /\ slot[t].job = i
        <5>1. slot'[t].job = i /\ slot'[t].attempt \in 1 .. jobs[i].attempts
              /\ job_attempts[i][slot'[t].attempt] = "running"
          BY <3>2, <3>3, <4>2
        <5> QED BY <2>3, <2>7, <5>1
      <4>3. CASE t # s /\ slot[t].job # i
        BY <2>2, <2>5, <3>2, <3>3, <4>3
      <4> QED BY <4>1, <4>2, <4>3
    <3>4. ASSUME NEW t \in Slots, NEW u \in Slots,
                 slot'[t].pc \in Executing, slot'[u].pc \in Executing,
                 slot'[t].job = slot'[u].job, slot'[t].attempt = slot'[u].attempt
          PROVE  t = u
      <4>1. ASSUME NEW v \in Slots, v # s, slot'[v].pc \in Executing, slot'[v].job = i
            PROVE  slot'[v].attempt # slot'[s].attempt
        <5>1. slot'[v].attempt \in 1 .. jobs[i].attempts
          BY <3>2, <4>1
        <5> QED BY <2>3, <2>4, <5>1
      <4>2. CASE t # s /\ u # s
        BY <3>2, <3>4, <4>2 DEF AuditInv, AttemptsAudited
      <4> QED BY <2>4, <3>4, <4>1, <4>2
    <3> QED BY <3>1, <3>3, <3>4 DEF AttemptsAudited
  <2> QED BY <2>8, <2>9
<1> QED
  BY <1>3, <1>4

-----------------------------------------------------------------------------
\* Every step of a loop keeps the audit.
LEMMA LoopsKeepAudit ==
  ASSUME AuditInv, Effects, NEW s \in Slots,
         \/ \E j \in Jobs : Consume(s, j)
         \/ Advance(s) \/ Heartbeat(s) \/ ReportProgress(s) \/ ExecuteError(s)
  PROVE  AttemptsAudited' /\ SingleWinner'
<1>1. CASE Claim(s)
  BY <1>1, ClaimKeepsAudit
<1>2. CASE \/ FinalizeSucceeded(s) \/ FinalizeFailed(s) \/ FinalizeCancelled(s)
           \/ FinalizeExhausted(s) \/ ScheduleRetry(s)
  BY <1>2, ClosingKeepsAudit
<1>3. CASE \/ \E j \in Jobs : Consume(s, j)
           \/ Heartbeat(s) \/ ReportProgress(s) \/ CheckCancelled(s)
           \/ HandleRetryable(s) \/ PushDeadLetter(s)
           \/ FinalizeRaises(s) \/ ExecuteError(s)
  BY <1>3, LoopsAuditNothing, LoopsStartNothing, LoopsKeepTheirAttempt, StayingKeepsAudit
     DEF AuditInv, CoreInv
<1> QED
  BY <1>1, <1>2, <1>3 DEF Advance

\* Every step keeps the invariant.
LEMMA NextKeepsAudit == AuditInv /\ [Next]_vars => AuditInv'
<1> SUFFICES ASSUME AuditInv, [Next]_vars PROVE AuditInv'
  OBVIOUS
<1>1. CoreInv'
  BY NextKeepsCoreInv DEF AuditInv
<1>2. CASE Next
  <2>1. Effects
    BY <1>2, EveryStepIsAChange DEF AuditInv
  <2>2. CASE \E s \in Slots : \/ \E j \in Jobs : Consume(s, j)
                              \/ Advance(s) \/ Heartbeat(s)
                              \/ ReportProgress(s) \/ ExecuteError(s)
    BY <1>1, <2>1, <2>2, LoopsKeepAudit DEF AuditInv
  <2>3. CASE \E w \in Workers : Crash(w)
    <3>1. \A s \in Slots : slot'[s] = slot[s] \/ slot'[s].pc = "idle"
      BY <2>3 DEF Crash, Idle
    <3>2. UNCHANGED <<jobs, job_attempts>>
      BY <2>3 DEF Crash, storeVars, tables
    <3>3. SlotsStay /\ StartsOnlyBy({}, {}) /\ AuditStays
      BY <3>1, <3>2, NothingMoves
         DEF SlotsStay, SlotStays, Executing, AuditStays, WonOnlyBy
    <3> QED BY <1>1, <2>1, <3>3, StayingKeepsAudit DEF AuditInv
  <2>4. CASE /\ UNCHANGED workerVars
             /\ \/ Api
                \/ \E j \in Jobs : Elapse(j)
                \/ \E batch \in SUBSET Jobs : Scan(batch)
                \/ \E j \in Jobs : DeadLetter(j) \/ Publish(j)
                \/ TickFails
                \/ RedisRestarts
    <3>1. SlotsStay /\ StartsOnlyBy({}, {}) /\ AuditStays
      BY <2>4, NothingMoves, OthersStartNothing, OthersAuditNothing DEF AuditInv, CoreInv
    <3> QED BY <1>1, <2>1, <3>1, StayingKeepsAudit DEF AuditInv
  <2> QED
    BY <1>2, <2>2, <2>3, <2>4 DEF Next, Calm, Disturbance, Worker, Tick
<1>3. CASE UNCHANGED vars
  <2>1. UNCHANGED <<jobs, job_attempts, slot>>
    BY <1>3 DEF vars, storeVars, tables, workerVars
  <2> QED BY <1>1, <2>1 DEF AuditInv, AttemptsAudited, SingleWinner
<1> QED
  BY <1>2, <1>3

\* The invariant holds initially.
LEMMA InitAudit == Init => AuditInv
<1> SUFFICES ASSUME Init PROVE AuditInv
  OBVIOUS
<1>1. \A s \in Slots : slot[s].pc \notin Executing
  BY DEF Init, WorkerInit, Idle, Executing
<1>2. \A j \in Jobs : /\ jobs[j].status = "absent" /\ jobs[j].attempts = 0
                      /\ jobs[j].result = 0 /\ job_attempts[j] = <<>>
  BY DEF Init, StoreInit, AbsentRow
<1> QED
  BY <1>1, <1>2, InitCoreInv DEF AuditInv, AttemptsAudited, SingleWinner

\* job_attempts records every started attempt once, a running attempt owns an
\* open row and no other attempt owns the same, also when the loops of a worker
\* share its id and its lease.
THEOREM AttemptsAreAudited == Spec => []AttemptsAudited
<1>1. AuditInv => AttemptsAudited
  BY DEF AuditInv
<1> QED
  BY <1>1, InitAudit, NextKeepsAudit, PTL DEF Spec

\* A job has the result of exactly one attempt, the one job_attempts records as
\* succeeded, whatever is redelivered, reaped or run twice.
THEOREM SingleWinnerAlways == Spec => []SingleWinner
<1>1. AuditInv => SingleWinner
  BY DEF AuditInv
<1> QED
  BY <1>1, InitAudit, NextKeepsAudit, PTL DEF Spec

-----------------------------------------------------------------------------
(***************************************************************************)
(* The trail a job leaves outside its row: its dispatch, the copies of its *)
(* id, its timeline and its dead letter.                                   *)
(***************************************************************************)

\* A job has a dispatch row once it is submitted, and no dispatch time before
\* that row is published.
TrailStart(row, o) ==
  /\ row.status = "absent" <=> o = "absent"
  /\ o # "published" => row.last_dispatched_at = "null"

TrailStarts == \A j \in Jobs : TrailStart(jobs[j], dispatch_outbox[j])

Dispatched(j) == dispatch_outbox[j] = "published" /\ jobs[j].status # "pending"

\* The id of j is in the queue, on its way there or taken from there.
Delivered(j) ==
  \/ queue[j] > 0
  \/ j \in to_publish
  \/ \E s \in Slots : slot[s].pc # "idle" /\ slot[s].job = j

TrailInv ==
  CoreInv /\ TrailStarts /\ DeliveredIsDispatched /\ TimelineFollowsStatus
          /\ DeadLetterAtMostOnce

\* A job that is past its submission and its dispatch has a published dispatch
\* row.
LEMMA PastDispatch ==
  ASSUME NEW row \in JobRow, NEW o \in OutboxStatus, NEW n,
         RowOK(row, o, n), TrailStart(row, o),
         row.status \notin {"absent", "pending", "cancelled", "expired"}
  PROVE  o = "published"
BY DEF RowOK, ReachableOK, TrailStart, OutboxStatus

\* Every guarded UPDATE keeps TrailStart.
LEMMA ChangeKeepsTrailStart ==
  ASSUME NEW row \in JobRow, NEW o \in OutboxStatus, NEW n, NEW r, NEW p, NEW m,
         RowOK(row, o, n), TrailStart(row, o), Change(row, o, n, r, p, m)
  PROVE  TrailStart(r, p)
<1> USE DEF JobRow, TrailStart
<1>1. ASSUME QuietChange(row, r)
      PROVE  /\ row.status # "absent" /\ r.status # "absent"
             /\ \/ r.last_dispatched_at = row.last_dispatched_at
                \/ row.status \in {"queued", "retrying", "running"}
  BY <1>1 DEF QuietChange, request_running_cancellation, claim_for_execution,
     heartbeat, update_progress, schedule_retry, move_retry_to_queued,
     requeue_expired_lease, mark_redispatched, Claimable, CLAIMABLE, FINALIZABLE,
     EXPIRABLE, find_due_retries, find_expired_leases, find_stuck_queued
<1>2. ASSUME EndingChange(row, r)
      PROVE  /\ row.status # "absent" /\ r.status # "absent"
             /\ r.last_dispatched_at = row.last_dispatched_at
  BY <1>2 DEF EndingChange, cancel_inactive, mark_succeeded, mark_failed,
     finalize_cancelled_by_worker, fail_expired_lease, expire, FINALIZABLE,
     INACTIVE_CANCELLABLE, find_expired_leases, find_expirable, EXPIRABLE
<1>3. ASSUME NEW limit \in AttemptLimits
      PROVE  NewRow(limit).status = "pending" /\ NewRow(limit).last_dispatched_at = "null"
  BY DEF NewRow, AbsentRow
<1>4. o = "pending" => mark_queued(row).status # "absent"
  BY DEF mark_queued
<1>5. row.status \in {"queued", "retrying", "running"} => o = "published"
  BY PastDispatch
<1> HIDE DEF JobRow
<1> QED
  BY <1>1, <1>2, <1>3, <1>4, <1>5 DEF Change

\* A dispatched job stays dispatched.
LEMMA DispatchedStays ==
  ASSUME NEW row \in JobRow, NEW n, NEW r, NEW p, NEW m,
         TrailStart(row, "published"), row.status # "pending",
         Change(row, "published", n, r, p, m)
  PROVE  p = "published" /\ r.status # "pending"
<1> USE DEF JobRow
<1>1. ASSUME QuietChange(row, r) PROVE r.status # "pending"
  BY <1>1 DEF QuietChange, request_running_cancellation, claim_for_execution,
     heartbeat, update_progress, schedule_retry, move_retry_to_queued,
     requeue_expired_lease, mark_redispatched
<1>2. ASSUME EndingChange(row, r) PROVE r.status # "pending"
  BY <1>2 DEF EndingChange, cancel_inactive, mark_succeeded, mark_failed,
     finalize_cancelled_by_worker, fail_expired_lease, expire
<1>3. row.status # "absent"
  BY DEF TrailStart
<1> HIDE DEF JobRow
<1> QED
  BY <1>1, <1>2, <1>3 DEF Change

\* How a loop moves: it ends up idle, goes on with the job it has, or takes an
\* id from the queue; and it owes a dead letter only after it has failed a job
\* it held.
LEMMA LoopsMove ==
  ASSUME TypeOK, Next, NEW t \in Slots
  PROVE  \/ slot'[t].pc = "idle"
         \/ /\ slot[t].pc # "idle"
            /\ slot'[t].job = slot[t].job
            /\ \/ slot'[t].pc # "deadlettering"
               \/ slot[t].pc = "deadlettering"
               \/ FinalizeExhausted(t) /\ HeldBy(Row(t), worker_id(t))
         \/ /\ slot'[t].pc = "popped"
            /\ slot'[t].job \in Jobs
            /\ queue[slot'[t].job] > 0
<1> DEFINE Goal ==
      \/ slot'[t].pc = "idle"
      \/ /\ slot[t].pc # "idle"
         /\ slot'[t].job = slot[t].job
         /\ \/ slot'[t].pc # "deadlettering"
            \/ slot[t].pc = "deadlettering"
            \/ FinalizeExhausted(t) /\ HeldBy(Row(t), worker_id(t))
      \/ /\ slot'[t].pc = "popped"
         /\ slot'[t].job \in Jobs
         /\ queue[slot'[t].job] > 0
<1> SUFFICES Goal
  OBVIOUS
<1>t. slot \in [Slots -> [pc : PC, job : Jobs \cup {NULL}, attempt : Nat]]
  BY DEF TypeOK, WorkerTypeOK
<1>1. CASE slot' = slot
  BY <1>1
<1>2. ASSUME NEW s \in Slots, Return(s) PROVE Goal
  <2>1. slot'[t] = slot[t] \/ slot'[t].pc = "idle"
    BY <1>t, <1>2 DEF Return, Idle
  <2> QED BY <2>1
<1>3. ASSUME NEW s \in Slots, NEW pc, Goto(s, pc), slot[s].pc # "idle",
             \/ pc # "deadlettering"
             \/ FinalizeExhausted(s) /\ HeldBy(Row(s), worker_id(s))
      PROVE  Goal
  <2>1. CASE t = s
    <3>1. slot'[t].pc = pc /\ slot'[t].job = slot[t].job
      BY <1>t, <1>3, <2>1 DEF Goto
    <3> QED BY <1>3, <2>1, <3>1
  <2>2. CASE t # s
    BY <1>t, <1>3, <2>2 DEF Goto
  <2> QED BY <2>1, <2>2
<1>4. ASSUME NEW s \in Slots, NEW j \in Jobs, Consume(s, j) PROVE Goal
  <2>1. \/ slot'[t] = slot[t]
        \/ slot'[t].pc = "popped" /\ slot'[t].job = j
    BY <1>t, <1>4 DEF Consume
  <2> QED BY <1>4, <2>1 DEF Consume, consume
<1>5. ASSUME NEW s \in Slots, Claim(s) PROVE Goal
  <2>1. CASE Claimable(Row(s))
    <3>1. \/ slot'[t] = slot[t]
          \/ /\ t = s /\ slot'[t].pc = "handling" /\ slot'[t].job = slot[t].job
             /\ slot[t].pc = "popped"
      BY <1>t, <1>5, <2>1 DEF Claim, At
    <3> QED BY <3>1
  <2> QED BY <1>2, <1>5, <2>1 DEF Claim
<1>6. ASSUME NEW s \in Slots, Advance(s) PROVE Goal
  <2>1. CASE CheckCancelled(s) \/ HandleRetryable(s)
    <3>1. slot[s].pc # "idle"
      BY <2>1 DEF CheckCancelled, HandleRetryable, At
    <3>2. \E pc \in {"stopping", "exhausted", "backoff"} : Goto(s, pc)
      BY <2>1 DEF CheckCancelled, HandleRetryable
    <3> QED BY <1>3, <3>1, <3>2
  <2>2. CASE FinalizeExhausted(s)
    <3>1. slot[s].pc # "idle"
      BY <2>2 DEF FinalizeExhausted, At
    <3>2. Return(s) \/ (Goto(s, "deadlettering") /\ HeldBy(Row(s), worker_id(s)))
      BY <2>2 DEF FinalizeExhausted
    <3> QED BY <1>2, <1>3, <2>2, <3>1, <3>2
  <2>3. CASE Claim(s)
    BY <1>5, <2>3
  <2>4. CASE \/ FinalizeSucceeded(s) \/ FinalizeFailed(s) \/ FinalizeCancelled(s)
             \/ FinalizeRaises(s) \/ PushDeadLetter(s) \/ ScheduleRetry(s)
    BY <1>2, <2>4 DEF FinalizeSucceeded, FinalizeFailed, FinalizeCancelled,
       FinalizeRaises, PushDeadLetter, ScheduleRetry
  <2> QED BY <1>6, <2>1, <2>2, <2>3, <2>4 DEF Advance
<1>7. ASSUME NEW s \in Slots, Heartbeat(s) \/ ReportProgress(s) PROVE Goal
  BY <1>1, <1>7 DEF Heartbeat, ReportProgress, workerVars
<1>8. ASSUME NEW s \in Slots, ExecuteError(s) PROVE Goal
  BY <1>2, <1>8 DEF ExecuteError
<1>9. ASSUME NEW w \in Workers, Crash(w) PROVE Goal
  <2>1. slot'[t] = slot[t] \/ slot'[t].pc = "idle"
    BY <1>9 DEF Crash, Idle
  <2> QED BY <2>1
<1>10. CASE UNCHANGED workerVars
  BY <1>1, <1>10 DEF workerVars
<1> HIDE DEF Goal
<1> QED
  BY <1>4, <1>6, <1>7, <1>8, <1>9, <1>10 DEF Next, Calm, Disturbance, Worker

-----------------------------------------------------------------------------
\* A job gets into the queue and to a loop only from where it already was, or by
\* a scan whose transaction left it dispatched.
LEMMA NewDeliveries ==
  ASSUME TrailInv, Next, NEW j \in Jobs, Delivered(j)'
  PROVE  Delivered(j) \/ Dispatched(j)'
<1> USE DEF TrailInv, CoreInv
<1>1. ASSUME NEW t \in Slots, slot'[t].pc # "idle", slot'[t].job = j
      PROVE  Delivered(j)
  BY <1>1, LoopsMove DEF Delivered
<1>2. ASSUME j \in to_publish', j \notin to_publish PROVE Dispatched(j)'
  <2>1. PICK batch \in SUBSET Jobs : Scan(batch) /\ j \in batch
    <3>1. \A batch : Scan(batch) => to_publish' \subseteq batch \cup to_publish
      BY DEF Scan, DispatchPending, PromoteDue, ReapExpired, RedeliverStuck, ExpireStale,
         ScanRaises
    <3>2. \/ \E batch \in SUBSET Jobs : Scan(batch)
          \/ to_publish' \subseteq to_publish
      BY DEF Next, Calm, Disturbance, Tick, DeadLetter, Publish, TickFails, schedulerVars
    <3> QED BY <1>2, <3>1, <3>2
  <2>2. batch \subseteq Due /\ j \in Due
    BY <2>1, BatchIsDue DEF Scan, DispatchPending, PromoteDue, ReapExpired,
       RedeliverStuck, ExpireStale, ScanRaises
  <2>3. jobs[j] \in JobRow /\ jobs \in [Jobs -> JobRow] /\ dispatch_outbox[j] \in OutboxStatus
    BY DEF TypeOK, StoreTypeOK
  <2>4. jobs[j].status \in {"running", "retrying", "queued"} => dispatch_outbox[j] = "published"
    BY <2>3, PastDispatch DEF RowsOK, TrailStarts
  <2>5. CASE DispatchPending(batch)
    <3>1. dispatch_outbox'[j] = "published" /\ jobs'[j] = mark_queued(jobs[j])
      BY <2>1, <2>5 DEF DispatchPending, UpdateBatch
    <3> QED BY <2>3, <3>1 DEF mark_queued, JobRow, Dispatched
  <2>6. CASE PromoteDue(batch)
    <3>1. Due = {i \in Jobs : find_due_retries(jobs[i])}
      BY <2>6 DEF PromoteDue, Step, Due
    <3>2. dispatch_outbox'[j] = dispatch_outbox[j] /\ jobs'[j] = move_retry_to_queued(jobs[j])
      BY <2>1, <2>6 DEF PromoteDue, UpdateBatch
    <3> QED BY <2>2, <2>3, <2>4, <3>1, <3>2
          DEF find_due_retries, move_retry_to_queued, JobRow, Dispatched
  <2>7. CASE ReapExpired(batch)
    <3>1. Due = {i \in Jobs : find_expired_leases(jobs[i])}
      BY <2>7 DEF ReapExpired, Step, Due
    <3>2. dispatch_outbox'[j] = dispatch_outbox[j] /\ jobs'[j] = ReapRow(jobs[j])
      BY <2>1, <2>7 DEF ReapExpired, UpdateBatch
    <3> QED BY <2>2, <2>3, <2>4, <3>1, <3>2
          DEF find_expired_leases, ReapRow, requeue_expired_lease, fail_expired_lease, JobRow,
              Dispatched
  <2>8. CASE RedeliverStuck(batch)
    <3>1. Due = {i \in Jobs : find_stuck_queued(jobs[i])}
      BY <2>8 DEF RedeliverStuck, Step, Due
    <3>2. dispatch_outbox'[j] = dispatch_outbox[j] /\ jobs'[j] = mark_redispatched(jobs[j])
      BY <2>1, <2>8 DEF RedeliverStuck, UpdateBatch
    <3> QED BY <2>2, <2>3, <2>4, <3>1, <3>2
          DEF find_stuck_queued, mark_redispatched, JobRow, Dispatched
  <2>9. ~ExpireStale(batch) /\ ~ScanRaises(batch)
    BY <1>2 DEF ExpireStale, ScanRaises
  <2> QED BY <2>1, <2>5, <2>6, <2>7, <2>8, <2>9 DEF Scan
<1>3. ASSUME queue'[j] > 0 PROVE queue[j] > 0 \/ j \in to_publish
  <2>1. queue \in [Jobs -> Nat]
    BY DEF TypeOK, StoreTypeOK
  <2>2. CASE queue' = queue
    BY <1>3, <2>2
  <2>3. ASSUME NEW i \in Jobs, Publish(i) PROVE queue[j] > 0 \/ j \in to_publish
    BY <1>3, <2>1, <2>3 DEF Publish, publish
  <2>4. ASSUME NEW s \in Slots, NEW i \in Jobs, Consume(s, i) PROVE queue[j] > 0
    BY <1>3, <2>1, <2>4 DEF Consume, consume
  <2>5. ~RedisRestarts
    BY <1>3 DEF RedisRestarts
  <2>6. ASSUME NEW s \in Slots, Advance(s) PROVE queue' = queue
    BY <2>6 DEF Advance, Claim, CheckCancelled, FinalizeSucceeded, FinalizeFailed,
       FinalizeCancelled, FinalizeRaises, HandleRetryable, FinalizeExhausted,
       PushDeadLetter, ScheduleRetry, storeVars
  <2>7. ASSUME NEW batch, Scan(batch) PROVE queue' = queue
    BY <2>7 DEF Scan, DispatchPending, PromoteDue, ReapExpired, RedeliverStuck, ExpireStale,
       ScanRaises, storeVars
  <2>8. ASSUME \/ Api \/ TickFails
               \/ \E i \in Jobs : Elapse(i) \/ DeadLetter(i)
               \/ \E s \in Slots : Heartbeat(s) \/ ReportProgress(s) \/ ExecuteError(s)
               \/ \E w \in Workers : Crash(w)
        PROVE  queue' = queue
    BY <2>8 DEF Api, Submit, Cancel, TickFails, Elapse, DeadLetter, Heartbeat, ReportProgress,
       ExecuteError, Crash, storeVars
  <2> QED BY <2>2, <2>3, <2>4, <2>5, <2>6, <2>7, <2>8
        DEF Next, Calm, Disturbance, Worker, Tick
<1> QED
  BY <1>1, <1>2, <1>3 DEF Delivered

\* Every step keeps what is delivered dispatched.
LEMMA NextKeepsDelivered ==
  ASSUME TrailInv, Next
  PROVE  TrailStarts' /\ DeliveredIsDispatched'
<1> USE DEF TrailInv, CoreInv
<1>1. Effects
  BY EveryStepIsAChange
<1>2. ASSUME NEW j \in Jobs
      PROVE  /\ jobs[j] \in JobRow
             /\ dispatch_outbox[j] \in OutboxStatus
             /\ RowOK(jobs[j], dispatch_outbox[j], notification_outbox[j])
             /\ TrailStart(jobs[j], dispatch_outbox[j])
             /\ Change(jobs[j], dispatch_outbox[j], notification_outbox[j],
                       jobs'[j], dispatch_outbox'[j], notification_outbox'[j])
  BY <1>1 DEF TypeOK, StoreTypeOK, RowsOK, TrailStarts, Effects, Effect
<1>3. TrailStarts'
  BY <1>2, ChangeKeepsTrailStart DEF TrailStarts
<1>4. ASSUME NEW j \in Jobs, Dispatched(j) PROVE Dispatched(j)'
  BY <1>2, <1>4, DispatchedStays DEF Dispatched
<1>5. ASSUME NEW j \in Jobs, Delivered(j)' PROVE Dispatched(j)'
  <2>1. Delivered(j) => Dispatched(j)
    BY DEF DeliveredIsDispatched, Delivered, Dispatched
  <2> QED BY <1>4, <1>5, <2>1, NewDeliveries
<1> QED
  BY <1>3, <1>5 DEF DeliveredIsDispatched, Delivered, Dispatched

-----------------------------------------------------------------------------
\* What a step does to the timeline of j: it records the status it leaves, or
\* has nothing to record, or is the dispatch of a job that is no longer pending.
Recorded(j) == job_events'[j] = jobs'[j].status

Unrecorded(j) ==
  /\ job_events'[j] = job_events[j]
  /\ jobs'[j].status = jobs[j].status
  /\ dispatch_outbox'[j] = dispatch_outbox[j]

LateDispatch(j) ==
  /\ dispatch_outbox[j] = "pending" /\ dispatch_outbox'[j] = "published"
  /\ jobs[j].status # "pending" /\ jobs'[j] = jobs[j]
  /\ job_events'[j] = "queued"

TimelineStep(j) == Recorded(j) \/ Unrecorded(j) \/ LateDispatch(j)

\* A transaction on one row that records the status it leaves, if it is new.
LEMMA OneRowRecords ==
  ASSUME TypeOK, NEW i \in Jobs, NEW r, UpdateJob(i, r),
         \/ record(i, r.status)
         \/ UNCHANGED <<job_events, dispatch_outbox>> /\ r.status = jobs[i].status,
         \A j \in Jobs \ {i} : dispatch_outbox'[j] = dispatch_outbox[j]
  PROVE  \A j \in Jobs : TimelineStep(j)
<1>1. /\ jobs'[i] = r /\ \A j \in Jobs \ {i} : jobs'[j] = jobs[j]
      /\ job_events \in [Jobs -> JobStatus \cup {"absent"}]
  BY DEF TypeOK, StoreTypeOK, UpdateJob
<1>2. CASE record(i, r.status)
  <2>1. job_events'[i] = r.status /\ \A j \in Jobs \ {i} : job_events'[j] = job_events[j]
    BY <1>1, <1>2 DEF record
  <2> QED BY <1>1, <2>1 DEF TimelineStep, Recorded, Unrecorded
<1>3. CASE UNCHANGED <<job_events, dispatch_outbox>> /\ r.status = jobs[i].status
  BY <1>1, <1>3 DEF TimelineStep, Unrecorded
<1> QED
  BY <1>2, <1>3

\* Every step records what it does.
LEMMA EveryStepIsRecorded ==
  ASSUME TypeOK, Next
  PROVE  \A j \in Jobs : TimelineStep(j)
<1> DEFINE Goal == \A j \in Jobs : TimelineStep(j)
<1> SUFFICES Goal
  OBVIOUS
<1>t. \A j \in Jobs : jobs[j] \in JobRow
  BY DEF TypeOK, StoreTypeOK
<1>0. CASE UNCHANGED tables
  BY <1>0 DEF tables, TimelineStep, Unrecorded
<1>1. ASSUME NEW i \in Jobs, NEW limit \in AttemptLimits, Submit(i, limit) PROVE Goal
  <2>1. NewRow(limit).status = "pending"
    BY DEF NewRow, AbsentRow
  <2>2. \A j \in Jobs \ {i} : dispatch_outbox'[j] = dispatch_outbox[j]
    BY <1>1 DEF Submit, TypeOK, StoreTypeOK
  <2> QED BY <1>1, <2>1, <2>2, OneRowRecords DEF Submit
<1>2. ASSUME NEW i \in Jobs, Cancel(i) PROVE Goal
  <2>1. /\ request_running_cancellation(jobs[i]).status = "cancelling"
        /\ cancel_inactive(jobs[i]).status = "cancelled"
    BY <1>t DEF JobRow, request_running_cancellation, cancel_inactive
  <2> QED BY <1>2, <2>1, OneRowRecords DEF Cancel, RequestCancellation, CancelInactive
<1>3. ASSUME NEW i \in Jobs, Elapse(i) PROVE Goal
  <2>1. PICK r : UpdateJob(i, r) /\ r.status = jobs[i].status
    BY <1>3, <1>t DEF Elapse, LeaseLapses, RetryFallsDue, QueuedTooLong, AgesOut, JobRow
  <2> QED BY <1>3, <2>1, OneRowRecords DEF Elapse
<1>4. ASSUME NEW s \in Slots, slot[s].pc # "idle",
             \/ Claim(s) \/ FinalizeSucceeded(s) \/ FinalizeFailed(s) \/ FinalizeCancelled(s)
             \/ FinalizeExhausted(s) \/ ScheduleRetry(s) \/ Heartbeat(s) \/ ReportProgress(s)
      PROVE  Goal
  <2>1. slot[s].job \in Jobs /\ Row(s) \in JobRow /\ Row(s) = jobs[slot[s].job]
    BY <1>4, SlotHasRow
  <2>2. /\ claim_for_execution(Row(s), worker_id(s)).status = "running"
        /\ mark_succeeded(Row(s), slot[s].attempt).status = "succeeded"
        /\ mark_failed(Row(s), TRUE).status = "failed"
        /\ mark_failed(Row(s), FALSE).status = "failed"
        /\ finalize_cancelled_by_worker(Row(s)).status = "cancelled"
        /\ schedule_retry(Row(s)).status = "retrying"
        /\ heartbeat(Row(s)).status = Row(s).status
        /\ update_progress(Row(s)).status = Row(s).status
    BY <2>1 DEF JobRow, claim_for_execution, mark_succeeded, mark_failed,
       finalize_cancelled_by_worker, schedule_retry, heartbeat, update_progress
  <2>3. dispatch_outbox' = dispatch_outbox
    BY <1>4 DEF Claim, FinalizeSucceeded, FinalizeFailed, FinalizeCancelled,
       FinalizeExhausted, ScheduleRetry, Heartbeat, ReportProgress
  <2>4. ASSUME mark_superseded(s) PROVE Goal
    BY <2>3, <2>4 DEF mark_superseded, TimelineStep, Unrecorded
  <2>5. ASSUME NEW r, Finalize(s, r) PROVE Goal
    BY <2>1, <2>3, <2>5, OneRowRecords DEF Finalize
  <2>6. CASE Claim(s)
    <3>1. CASE Claimable(Row(s))
      BY <2>1, <2>2, <2>3, <2>6, <3>1, OneRowRecords DEF Claim
    <3>2. CASE ~Claimable(Row(s))
      BY <2>3, <2>6, <3>2 DEF Claim, TimelineStep, Unrecorded
    <3> QED BY <3>1, <3>2
  <2>7. CASE \/ FinalizeSucceeded(s) \/ FinalizeFailed(s) \/ FinalizeCancelled(s)
             \/ FinalizeExhausted(s)
    BY <2>4, <2>5, <2>7
       DEF FinalizeSucceeded, FinalizeFailed, FinalizeCancelled, FinalizeExhausted
  <2>8. CASE ScheduleRetry(s)
    <3>1. CASE RunningBy(Row(s), worker_id(s))
      BY <2>1, <2>2, <2>3, <2>8, <3>1, OneRowRecords DEF ScheduleRetry
    <3> QED BY <2>4, <2>8, <3>1 DEF ScheduleRetry
  <2>9. CASE Heartbeat(s) \/ ReportProgress(s)
    BY <2>1, <2>2, <2>3, <2>9, OneRowRecords DEF Heartbeat, ReportProgress
  <2> HIDE DEF Goal
  <2> QED BY <1>4, <2>6, <2>7, <2>8, <2>9
<1>5. ASSUME NEW batch, Scan(batch) PROVE Goal
  <2> SUFFICES ASSUME NEW j \in Jobs PROVE TimelineStep(j)
    OBVIOUS
  <2>1. batch \subseteq Due
    BY <1>5, BatchIsDue DEF Scan, DispatchPending, PromoteDue, ReapExpired,
       RedeliverStuck, ExpireStale, ScanRaises
  <2> USE <1>t DEF UpdateBatch, RecordBatch, TimelineStep, Recorded, Unrecorded
  <2>2. CASE DispatchPending(batch)
    <3>1. j \in batch => dispatch_outbox[j] = "pending"
      BY <2>1, <2>2 DEF DispatchPending, Step, Due, claim_pending
    <3>2. CASE j \in batch /\ jobs[j].status = "pending"
      <4>1. mark_queued(jobs[j]).status = "queued"
        BY <3>2 DEF mark_queued, JobRow
      <4> QED BY <2>2, <3>2, <4>1 DEF DispatchPending
    <3>3. CASE j \in batch /\ jobs[j].status # "pending"
      <4>1. mark_queued(jobs[j]) = jobs[j]
        BY <3>3 DEF mark_queued
      <4> QED BY <2>2, <3>1, <3>3, <4>1 DEF DispatchPending, LateDispatch
    <3>4. CASE j \notin batch
      BY <2>2, <3>4 DEF DispatchPending
    <3> QED BY <3>2, <3>3, <3>4
  <2>3. CASE PromoteDue(batch)
    <3>1. move_retry_to_queued(jobs[j]).status = "queued"
      BY DEF move_retry_to_queued, JobRow
    <3> QED BY <2>3, <3>1 DEF PromoteDue
  <2>4. CASE ReapExpired(batch)
    BY <2>4 DEF ReapExpired
  <2>5. CASE RedeliverStuck(batch)
    <3>1. mark_redispatched(jobs[j]).status = jobs[j].status
      BY DEF mark_redispatched, JobRow
    <3> QED BY <2>5, <3>1 DEF RedeliverStuck
  <2>6. CASE ExpireStale(batch)
    <3>1. expire(jobs[j]).status = "expired"
      BY DEF expire, JobRow
    <3> QED BY <2>6, <3>1 DEF ExpireStale
  <2>7. CASE ScanRaises(batch)
    BY <2>7 DEF ScanRaises, storeVars, tables
  <2> QED BY <1>5, <2>2, <2>3, <2>4, <2>5, <2>6, <2>7 DEF Scan
<1>6. ASSUME NEW s \in Slots, Advance(s) PROVE Goal
  <2>1. slot[s].pc # "idle"
    BY <1>6 DEF Advance, Claim, CheckCancelled, FinalizeSucceeded, FinalizeFailed,
       FinalizeCancelled, FinalizeRaises, HandleRetryable, FinalizeExhausted,
       PushDeadLetter, ScheduleRetry, At
  <2>2. CASE CheckCancelled(s) \/ HandleRetryable(s) \/ PushDeadLetter(s) \/ FinalizeRaises(s)
    BY <1>0, <2>2 DEF CheckCancelled, HandleRetryable, PushDeadLetter, FinalizeRaises, storeVars
  <2> QED BY <1>4, <1>6, <2>1, <2>2 DEF Advance
<1>7. ASSUME NEW s \in Slots, Heartbeat(s) \/ ReportProgress(s) PROVE Goal
  <2>1. slot[s].pc # "idle"
    BY <1>7 DEF Heartbeat, ReportProgress, At, Executing
  <2> QED BY <1>4, <1>7, <2>1
<1>8. ASSUME \/ TickFails \/ RedisRestarts
             \/ \E i \in Jobs : DeadLetter(i) \/ Publish(i)
             \/ \E s \in Slots : ExecuteError(s) \/ \E i \in Jobs : Consume(s, i)
             \/ \E w \in Workers : Crash(w)
      PROVE  Goal
  BY <1>0, <1>8 DEF TickFails, RedisRestarts, DeadLetter, Publish, ExecuteError, Consume,
     Crash, storeVars
<1> HIDE DEF Goal
<1> QED
  BY <1>1, <1>2, <1>3, <1>5, <1>6, <1>7, <1>8
     DEF Next, Calm, Disturbance, Api, Worker, Tick

\* So the timeline goes on naming the status.
LEMMA NextKeepsTimeline ==
  ASSUME TrailInv, Next
  PROVE  TimelineFollowsStatus'
<1> USE DEF TrailInv, CoreInv
<1>1. Effects
  BY EveryStepIsAChange
<1>2. SUFFICES ASSUME NEW j \in Jobs
      PROVE  \/ job_events'[j] = jobs'[j].status
             \/ /\ jobs'[j].status \in {"cancelled", "expired"}
                /\ jobs'[j].last_dispatched_at = "null"
                /\ dispatch_outbox'[j] = "published"
                /\ job_events'[j] = "queued"
  BY DEF TimelineFollowsStatus
<1>3. TimelineStep(j)
  BY EveryStepIsRecorded
<1>4. CASE LateDispatch(j)
  <2>1. RowOK(jobs[j], dispatch_outbox[j], notification_outbox[j])
    BY DEF RowsOK
  <2>2. jobs[j].status \in {"cancelled", "expired"}
    BY <1>4, <2>1 DEF LateDispatch, RowOK, ReachableOK
  <2>3. jobs[j].last_dispatched_at = "null"
    BY <1>4 DEF LateDispatch, TrailStarts, TrailStart
  <2> QED BY <1>4, <2>2, <2>3 DEF LateDispatch
<1>5. CASE Unrecorded(j)
  <2>1. CASE job_events[j] = jobs[j].status
    BY <1>5, <2>1 DEF Unrecorded
  <2>2. CASE job_events[j] # jobs[j].status
    <3>1. /\ jobs[j].status \in {"cancelled", "expired"}
          /\ jobs[j].last_dispatched_at = "null"
          /\ dispatch_outbox[j] = "published"
          /\ job_events[j] = "queued"
      BY <2>2 DEF TimelineFollowsStatus
    <3>2. jobs'[j] = jobs[j]
      BY <1>1, <3>1, ChangeSparesTheEnded
         DEF Effects, Effect, TypeOK, StoreTypeOK, is_terminal, TERMINAL_STATUSES
    <3> QED BY <1>5, <3>1, <3>2 DEF Unrecorded
  <2> QED BY <2>1, <2>2
<1> QED
  BY <1>3, <1>4, <1>5 DEF TimelineStep, Recorded

-----------------------------------------------------------------------------
\* Loop s owes the dead letter of j.
Pushing(s, j) == slot[s].pc = "deadlettering" /\ slot[s].job = j

Owed(j) == j \in to_dead_letter \/ \E s \in Slots : Pushing(s, j)

\* DeadLetterAtMostOnce, for one job.
LetterOK(j) ==
  /\ j \in to_dead_letter => dead_letter[j] = 0 /\ \A s \in Slots : ~Pushing(s, j)
  /\ \A s \in Slots : Pushing(s, j) =>
       dead_letter[j] = 0 /\ \A t \in Slots : Pushing(t, j) => t = s
  /\ dead_letter[j] <= 1
  /\ Owed(j) \/ dead_letter[j] = 1 =>
       jobs[j].status = "failed" /\ jobs[j].dead_lettered_at # "null"

LEMMA LetterPerJob == DeadLetterAtMostOnce <=> \A j \in Jobs : LetterOK(j)
<1> SUFFICES ASSUME NEW j \in Jobs
             PROVE  LetterOK(j) <=>
                    LET pushing == {s \in Slots : slot[s].pc = "deadlettering" /\ slot[s].job = j}
                    IN  /\ j \in to_dead_letter => dead_letter[j] = 0 /\ pushing = {}
                        /\ \A s \in pushing : dead_letter[j] = 0 /\ pushing = {s}
                        /\ dead_letter[j] <= 1
                        /\ (j \in to_dead_letter \/ pushing # {} \/ dead_letter[j] = 1)
                             => jobs[j].status = "failed" /\ jobs[j].dead_lettered_at # "null"
  BY DEF DeadLetterAtMostOnce
<1> QED
  BY DEF LetterOK, Owed, Pushing

\* Nothing new is owed and nothing is pushed.
NothingOwed(j) ==
  /\ dead_letter'[j] \in {0, dead_letter[j]}
  /\ j \in to_dead_letter' => j \in to_dead_letter
  /\ \A s \in Slots : Pushing(s, j)' => Pushing(s, j)

\* The letter that is owed is pushed, by the scheduler or by a loop.
Pushed(j) ==
  /\ dead_letter'[j] = dead_letter[j] + 1
  /\ j \in to_dead_letter' => j \in to_dead_letter
  /\ \A s \in Slots : Pushing(s, j)' => Pushing(s, j)
  /\ \/ j \in to_dead_letter /\ j \notin to_dead_letter'
     \/ \E s \in Slots : Pushing(s, j) /\ ~Pushing(s, j)'

\* The job fails, and its letter is owed by the scheduler or by one loop.
Incurred(j) ==
  /\ jobs[j].status \in FINALIZABLE
  /\ jobs'[j].status = "failed" /\ jobs'[j].dead_lettered_at # "null"
  /\ dead_letter'[j] = dead_letter[j]
  /\ \/ \A s \in Slots : Pushing(s, j)' => Pushing(s, j)
     \/ /\ j \in to_dead_letter' => j \in to_dead_letter
        /\ \E s \in Slots : \A t \in Slots : Pushing(t, j)' => t = s \/ Pushing(t, j)

LetterStep(j) == NothingOwed(j) \/ Pushed(j) \/ Incurred(j)

LEMMA LetterStepKeepsLetter ==
  ASSUME CoreInv, Effects, NEW j \in Jobs, LetterOK(j), LetterStep(j)
  PROVE  LetterOK(j)'
<1>1. dead_letter[j] \in Nat /\ jobs[j] \in JobRow
  BY DEF CoreInv, TypeOK, StoreTypeOK
<1>2. jobs[j].status = "failed" => jobs'[j] = jobs[j]
  BY <1>1, ChangeSparesTheEnded DEF Effects, Effect, is_terminal, TERMINAL_STATUSES
<1>3. CASE NothingOwed(j)
  BY <1>1, <1>2, <1>3 DEF NothingOwed, LetterOK, Owed
<1>4. CASE Pushed(j)
  <2>1. dead_letter[j] = 0 /\ dead_letter'[j] = 1
    BY <1>4 DEF Pushed, LetterOK
  <2>2. j \notin to_dead_letter' /\ \A s \in Slots : ~Pushing(s, j)'
    BY <1>4 DEF Pushed, LetterOK
  <2>3. jobs'[j].status = "failed" /\ jobs'[j].dead_lettered_at # "null"
    BY <1>2, <1>4 DEF Pushed, LetterOK, Owed
  <2> QED BY <2>1, <2>2, <2>3 DEF LetterOK, Owed
<1>5. CASE Incurred(j)
  <2>1. dead_letter[j] = 0 /\ dead_letter'[j] = 0 /\ ~Owed(j)
    BY <1>1, <1>5 DEF Incurred, LetterOK, FINALIZABLE
  <2> QED BY <1>5, <2>1 DEF Incurred, LetterOK, Owed
<1> QED
  BY <1>3, <1>4, <1>5 DEF LetterStep

\* Every step is one of the three, for every job.
LEMMA EveryStepIsALetterStep ==
  ASSUME CoreInv, Next, NEW j \in Jobs
  PROVE  LetterStep(j)
<1> USE DEF CoreInv
<1>t. /\ slot \in [Slots -> [pc : PC, job : Jobs \cup {NULL}, attempt : Nat]]
      /\ jobs \in [Jobs -> JobRow]
      /\ dead_letter \in [Jobs -> Nat]
      /\ to_dead_letter \subseteq Jobs
  BY DEF TypeOK, WorkerTypeOK, StoreTypeOK, SchedulerTypeOK
<1>1. ASSUME NEW s \in Slots, ~(FinalizeExhausted(s) /\ HeldBy(Row(s), worker_id(s))),
             Pushing(s, j)'
      PROVE  Pushing(s, j)
  BY <1>1, LoopsMove DEF Pushing
<1>2. ASSUME \A s \in Slots : ~(FinalizeExhausted(s) /\ HeldBy(Row(s), worker_id(s))),
             dead_letter'[j] \in {0, dead_letter[j]}, to_dead_letter' \subseteq to_dead_letter
      PROVE  LetterStep(j)
  BY <1>1, <1>2 DEF LetterStep, NothingOwed
<1>3. ASSUME NEW s \in Slots, FinalizeExhausted(s), HeldBy(Row(s), worker_id(s)),
             UNCHANGED schedulerVars
      PROVE  LetterStep(j)
  <2>1. slot[s].job \in Jobs /\ Row(s) \in JobRow /\ Row(s) = jobs[slot[s].job]
    BY <1>3, SlotHasRow DEF FinalizeExhausted, At
  <2>2. /\ dead_letter' = dead_letter /\ to_dead_letter' = to_dead_letter
        /\ UpdateJob(slot[s].job, mark_failed(Row(s), TRUE)) /\ Goto(s, "deadlettering")
    BY <1>3 DEF FinalizeExhausted, Finalize, schedulerVars
  <2>3. \A t \in Slots \ {s} : slot'[t] = slot[t]
    BY <1>t, <2>2 DEF Goto
  <2>4. slot'[s].job = slot[s].job
    BY <1>t, <2>2 DEF Goto
  <2>5. CASE slot[s].job # j
    BY <2>2, <2>3, <2>4, <2>5 DEF LetterStep, NothingOwed, Pushing
  <2>6. CASE slot[s].job = j
    <3>1. jobs[j].status \in FINALIZABLE /\ jobs'[j] = mark_failed(jobs[j], TRUE)
      BY <1>3, <1>t, <2>1, <2>2, <2>6 DEF HeldBy, UpdateJob
    <3>2. jobs'[j].status = "failed" /\ jobs'[j].dead_lettered_at # "null"
      BY <2>1, <2>6, <3>1 DEF mark_failed, JobRow
    <3>3. \A t \in Slots : Pushing(t, j)' => t = s \/ Pushing(t, j)
      BY <2>3 DEF Pushing
    <3> QED BY <2>2, <3>1, <3>2, <3>3 DEF LetterStep, Incurred
  <2> QED BY <2>5, <2>6
<1>4. ASSUME NEW s \in Slots, PushDeadLetter(s), UNCHANGED schedulerVars PROVE LetterStep(j)
  <2>1. slot[s].job \in Jobs /\ slot[s].pc = "deadlettering"
    BY <1>4, SlotHasRow DEF PushDeadLetter, At
  <2>2. /\ dead_letter' = [dead_letter EXCEPT ![slot[s].job] = @ + 1]
        /\ to_dead_letter' = to_dead_letter /\ Return(s)
    BY <1>4 DEF PushDeadLetter, push_dead_letter, schedulerVars
  <2>3. slot'[s].pc = "idle" /\ \A t \in Slots \ {s} : slot'[t] = slot[t]
    BY <1>t, <2>2 DEF Return, Idle
  <2>4. \A t \in Slots : Pushing(t, j)' => Pushing(t, j)
    BY <2>3 DEF Pushing
  <2>5. CASE slot[s].job = j
    BY <1>t, <2>1, <2>2, <2>3, <2>4, <2>5 DEF LetterStep, Pushed, Pushing
  <2>6. CASE slot[s].job # j
    BY <1>t, <2>1, <2>2, <2>4, <2>6 DEF LetterStep, NothingOwed
  <2> QED BY <2>5, <2>6
<1>5. ASSUME UNCHANGED workerVars
      PROVE  \A s \in Slots : Pushing(s, j)' => Pushing(s, j)
  BY <1>5 DEF workerVars, Pushing
<1>6. ASSUME NEW i \in Jobs, DeadLetter(i), UNCHANGED workerVars PROVE LetterStep(j)
  BY <1>5, <1>6, <1>t DEF DeadLetter, push_dead_letter, LetterStep, Pushed, NothingOwed
<1>7. ASSUME NEW batch, Scan(batch), UNCHANGED workerVars PROVE LetterStep(j)
  <2>1. CASE ReapExpired(batch)
    <3>1. /\ to_dead_letter' \subseteq {i \in batch : Exhausted(jobs[i])}
          /\ dead_letter' = dead_letter /\ UpdateBatch(batch, ReapRow)
      BY <2>1 DEF ReapExpired
    <3>2. batch \subseteq {i \in Jobs : find_expired_leases(jobs[i])}
      BY <2>1, BatchIsDue DEF ReapExpired, Step, Due
    <3>3. CASE j \in to_dead_letter'
      <4>1. jobs[j] \in JobRow /\ jobs[j].status = "running" /\ jobs'[j] = fail_expired_lease(jobs[j])
        BY <1>t, <3>1, <3>2, <3>3 DEF UpdateBatch, ReapRow, find_expired_leases
      <4>2. jobs'[j].status = "failed" /\ jobs'[j].dead_lettered_at # "null"
        BY <4>1 DEF fail_expired_lease, JobRow
      <4> QED BY <1>5, <1>7, <3>1, <4>1, <4>2 DEF LetterStep, Incurred, FINALIZABLE
    <3>4. CASE j \notin to_dead_letter'
      BY <1>5, <1>7, <3>1, <3>4 DEF LetterStep, NothingOwed
    <3> QED BY <3>3, <3>4
  <2>2. CASE ~ReapExpired(batch)
    <3>1. dead_letter' = dead_letter /\ to_dead_letter' = to_dead_letter
      BY <1>7, <2>2 DEF Scan, DispatchPending, PromoteDue, RedeliverStuck, ExpireStale,
         ScanRaises, storeVars
    <3> QED BY <1>5, <1>7, <3>1 DEF LetterStep, NothingOwed
  <2> QED BY <2>1, <2>2
<1>8. ASSUME NEW s \in Slots, UNCHANGED schedulerVars,
             \/ \E i \in Jobs : Consume(s, i)
             \/ Claim(s) \/ CheckCancelled(s) \/ FinalizeSucceeded(s) \/ FinalizeFailed(s)
             \/ FinalizeCancelled(s) \/ FinalizeRaises(s) \/ HandleRetryable(s)
             \/ ScheduleRetry(s) \/ Heartbeat(s) \/ ReportProgress(s) \/ ExecuteError(s)
             \/ FinalizeExhausted(s) /\ ~HeldBy(Row(s), worker_id(s))
      PROVE  LetterStep(j)
  <2>1. dead_letter' = dead_letter /\ to_dead_letter' = to_dead_letter
    BY <1>8 DEF Consume, Claim, CheckCancelled, FinalizeSucceeded, FinalizeFailed,
       FinalizeCancelled, FinalizeRaises, HandleRetryable, ScheduleRetry, Heartbeat,
       ReportProgress, ExecuteError, FinalizeExhausted, storeVars, schedulerVars
  <2>2. CASE \E t \in Slots : FinalizeExhausted(t) /\ HeldBy(Row(t), worker_id(t))
    BY <1>3, <1>8, <2>2
  <2> QED BY <1>2, <2>1, <2>2
<1>9. ASSUME \/ UNCHANGED workerVars /\
                  (\/ Api \/ TickFails \/ RedisRestarts
                   \/ \E i \in Jobs : Elapse(i) \/ Publish(i)),
             UNCHANGED schedulerVars \/ TickFails \/ \E i \in Jobs : Publish(i)
      PROVE  LetterStep(j)
  <2>1. dead_letter'[j] \in {0, dead_letter[j]} /\ to_dead_letter' \subseteq to_dead_letter
    BY <1>9 DEF Api, Submit, Cancel, TickFails, RedisRestarts, Elapse, Publish, storeVars,
       schedulerVars
  <2> QED BY <1>5, <1>9, <2>1 DEF LetterStep, NothingOwed
<1>10. ASSUME NEW w \in Workers, Crash(w), UNCHANGED schedulerVars PROVE LetterStep(j)
  <2>1. dead_letter' = dead_letter /\ to_dead_letter' = to_dead_letter
    BY <1>10 DEF Crash, storeVars, schedulerVars
  <2>2. \A s \in Slots : slot'[s] = slot[s] \/ slot'[s].pc = "idle"
    BY <1>10 DEF Crash, Idle
  <2> QED BY <2>1, <2>2 DEF LetterStep, NothingOwed, Pushing
<1>11. ASSUME NEW s \in Slots, Advance(s), UNCHANGED schedulerVars PROVE LetterStep(j)
  BY <1>3, <1>4, <1>8, <1>11 DEF Advance
<1>12. CASE Worker /\ UNCHANGED schedulerVars
  BY <1>8, <1>11, <1>12 DEF Worker
<1>13. CASE Tick /\ UNCHANGED workerVars
  BY <1>6, <1>7, <1>9, <1>13 DEF Tick
<1> QED
  BY <1>7, <1>8, <1>9, <1>10, <1>12, <1>13 DEF Next, Calm, Disturbance

-----------------------------------------------------------------------------
LEMMA InitTrail == Init => TrailInv
<1> SUFFICES ASSUME Init PROVE TrailInv
  OBVIOUS
<1>1. \A s \in Slots : slot[s].pc = "idle"
  BY DEF Init, WorkerInit, Idle
<1>2. \A j \in Jobs : /\ jobs[j].status = "absent" /\ jobs[j].last_dispatched_at = "null"
                      /\ dispatch_outbox[j] = "absent" /\ job_events[j] = "absent"
                      /\ queue[j] = 0 /\ dead_letter[j] = 0
                      /\ j \notin to_publish /\ j \notin to_dead_letter
  BY DEF Init, StoreInit, SchedulerInit, AbsentRow
<1>3. TrailStarts /\ TimelineFollowsStatus
  BY <1>2 DEF TrailStarts, TrailStart, TimelineFollowsStatus
<1>4. DeliveredIsDispatched
  BY <1>1, <1>2 DEF DeliveredIsDispatched
<1>5. \A j \in Jobs : LetterOK(j)
  BY <1>1, <1>2 DEF LetterOK, Owed, Pushing
<1> QED
  BY <1>3, <1>4, <1>5, InitCoreInv, LetterPerJob DEF TrailInv

LEMMA NextKeepsTrail == TrailInv /\ [Next]_vars => TrailInv'
<1> SUFFICES ASSUME TrailInv, [Next]_vars PROVE TrailInv'
  OBVIOUS
<1>1. CoreInv'
  BY NextKeepsCoreInv DEF TrailInv
<1>2. CASE Next
  <2>1. Effects
    BY <1>2, EveryStepIsAChange DEF TrailInv
  <2>2. \A j \in Jobs : LetterOK(j)'
    BY <1>2, <2>1, EveryStepIsALetterStep, LetterStepKeepsLetter, LetterPerJob DEF TrailInv
  <2>3. DeadLetterAtMostOnce'
    <3>1. (DeadLetterAtMostOnce <=> \A j \in Jobs : LetterOK(j))'
      BY LetterPerJob, PTL
    <3> QED BY <2>2, <3>1
  <2> QED BY <1>1, <1>2, <2>3, NextKeepsDelivered, NextKeepsTimeline DEF TrailInv
<1>3. CASE UNCHANGED vars
  BY <1>1, <1>3 DEF TrailInv, TrailStarts, DeliveredIsDispatched, TimelineFollowsStatus,
     DeadLetterAtMostOnce, vars, storeVars, tables, workerVars, schedulerVars
<1> QED
  BY <1>2, <1>3

\* No worker is woken for a job whose dispatch is not committed, whatever the
\* scheduler's crashes, redeliveries and lost lists do to the copies of its id.
THEOREM DeliveredCorrect == Spec => []DeliveredIsDispatched
<1>1. TrailInv => DeliveredIsDispatched
  BY DEF TrailInv
<1> QED
  BY <1>1, InitTrail, NextKeepsTrail, PTL DEF Spec

\* The newest event of a job names its status, apart from the one late
\* "queued" of a job that ended before its dispatch.
THEOREM TimelineCorrect == Spec => []TimelineFollowsStatus
<1>1. TrailInv => TimelineFollowsStatus
  BY DEF TrailInv
<1> QED
  BY <1>1, InitTrail, NextKeepsTrail, PTL DEF Spec

\* Worker and reaper together push the dead letter of a job at most once, also
\* where several loops share one lease.
THEOREM DeadLetterCorrect == Spec => []DeadLetterAtMostOnce
<1>1. TrailInv => DeadLetterAtMostOnce
  BY DEF TrailInv
<1> QED
  BY <1>1, InitTrail, NextKeepsTrail, PTL DEF Spec

=============================================================================
