---------------------------- MODULE Orchestrator ----------------------------
(***************************************************************************)
(* The whole system: API calls, workers and the scheduler interleave on    *)
(* the shared store while the clock runs and processes fail.               *)
(***************************************************************************)
EXTENDS JobApi, JobExecution, Scheduler

CONSTANTS
  Faults,     \* the kinds of failure that happen
  MaxCopies   \* bound: no redelivery of an id queued this many times

ASSUME FaultsAreKnown ==
  Faults \subseteq
    {"worker_crash", "execute_error", "tick_error", "row_locked", "redis_restart"}

vars == <<storeVars, workerVars, schedulerVars>>

TypeOK == StoreTypeOK /\ WorkerTypeOK /\ SchedulerTypeOK

Init == StoreInit /\ WorkerInit /\ SchedulerInit

-----------------------------------------------------------------------------
(***************************************************************************)
(* The clock passes a deadline.  A deadline is let pass only in a status   *)
(* in which some scan compares it with the clock; in any other status the  *)
(* difference would go unnoticed until the job is back in such a status,   *)
(* and the step can be taken then.                                         *)
(***************************************************************************)
LeaseLapses(j) ==
  /\ jobs[j].status = "running"
  /\ jobs[j].lock_expires_at = "future"
  /\ UpdateJob(j, [jobs[j] EXCEPT !.lock_expires_at = "past"])

RetryFallsDue(j) ==
  /\ jobs[j].status = "retrying"
  /\ jobs[j].next_attempt_at = "future"
  /\ UpdateJob(j, [jobs[j] EXCEPT !.next_attempt_at = "past"])

QueuedTooLong(j) ==
  /\ jobs[j].status = "queued"
  /\ jobs[j].last_dispatched_at = "future"
  /\ queue[j] < MaxCopies
  /\ UpdateJob(j, [jobs[j] EXCEPT !.last_dispatched_at = "past"])

AgesOut(j) ==
  /\ jobs[j].status \in EXPIRABLE
  /\ jobs[j].created_at = "future"
  /\ UpdateJob(j, [jobs[j] EXCEPT !.created_at = "past"])

Elapse(j) ==
  /\ LeaseLapses(j) \/ RetryFallsDue(j) \/ QueuedTooLong(j) \/ AgesOut(j)
  /\ UNCHANGED <<job_attempts, job_events, dispatch_outbox,
                 notification_outbox, queue, dead_letter>>

-----------------------------------------------------------------------------
Api == \E j \in Jobs : Cancel(j) \/ \E limit \in AttemptLimits : Submit(j, limit)

\* What a consume loop does by itself, its heartbeat aside.
Advance(s) ==
  \/ Claim(s)
  \/ CheckCancelled(s)
  \/ FinalizeSucceeded(s)
  \/ FinalizeFailed(s)
  \/ FinalizeCancelled(s)
  \/ FinalizeRaises(s)
  \/ HandleRetryable(s)
  \/ FinalizeExhausted(s)
  \/ PushDeadLetter(s)
  \/ ScheduleRetry(s)

Worker ==
  \E s \in Slots :
    \/ \E j \in Jobs : Consume(s, j)
    \/ Advance(s)
    \/ Heartbeat(s)
    \/ ReportProgress(s)

\* The transactions of a tick, in the order of Scheduler.tick.
Scan(batch) ==
  \/ DispatchPending(batch)
  \/ PromoteDue(batch)
  \/ ReapExpired(batch)
  \/ RedeliverStuck(batch)
  \/ ExpireStale(batch)
  \/ ScanRaises(batch)

Tick ==
  \/ \E batch \in SUBSET Jobs : Full(batch) /\ Scan(batch)
  \/ \E j \in Jobs : DeadLetter(j) \/ Publish(j)

\* A step in which nothing goes wrong.
Calm ==
  \/ Api /\ UNCHANGED <<workerVars, schedulerVars>>
  \/ Worker /\ UNCHANGED schedulerVars
  \/ Tick /\ UNCHANGED workerVars
  \/ (\E j \in Jobs : Elapse(j)) /\ UNCHANGED <<workerVars, schedulerVars>>

Disturbance ==
  \/ /\ "execute_error" \in Faults
     /\ \E s \in Slots : ExecuteError(s)
     /\ UNCHANGED schedulerVars
  \/ /\ "worker_crash" \in Faults
     /\ \E w \in Workers : alive # {w} /\ Crash(w)
     /\ UNCHANGED schedulerVars
  \/ /\ "tick_error" \in Faults
     /\ TickFails
     /\ UNCHANGED workerVars
  \/ /\ "row_locked" \in Faults
     /\ \E batch \in SUBSET Jobs : ~Full(batch) /\ Scan(batch)
     /\ UNCHANGED workerVars
  \/ /\ "redis_restart" \in Faults
     /\ RedisRestarts
     /\ UNCHANGED <<workerVars, schedulerVars>>

Next == Calm \/ Disturbance

Spec == Init /\ [][Next]_vars

-----------------------------------------------------------------------------
(***************************************************************************)
(* Fairness.  Nothing is promised of users, of heartbeats or of the age of *)
(* a job.                                                                  *)
(*                                                                         *)
(*  - A live consume loop keeps going: BRPOP returns an id that is there,  *)
(*    a handler ends, a transaction ends.                                  *)
(*  - The scheduler keeps ticking.                                         *)
(*  - Time passes; but a lease is sure to lapse only once nobody is left   *)
(*    to renew it.                                                         *)
(*  - Failures may be as many as they like, but they cease.                *)
(***************************************************************************)
Attended(j) ==
  \E s \in Slots : /\ slot[s].pc \in Executing
                    /\ slot[s].job = j
                    /\ RunningBy(jobs[j], worker_id(s))

WorkerFairness ==
  /\ WF_vars((\E s \in Slots, j \in Jobs : Consume(s, j)) /\ UNCHANGED schedulerVars)
  /\ \A s \in Slots : WF_vars(Advance(s) /\ UNCHANGED schedulerVars)

SchedulerFairness == WF_vars(Tick /\ UNCHANGED workerVars)

ClockFairness ==
  \A j \in Jobs :
    /\ WF_vars(/\ ~Attended(j) /\ LeaseLapses(j) /\ Elapse(j)
               /\ UNCHANGED <<workerVars, schedulerVars>>)
    /\ WF_vars(/\ RetryFallsDue(j) /\ Elapse(j)
               /\ UNCHANGED <<workerVars, schedulerVars>>)
    /\ WF_vars(/\ QueuedTooLong(j) /\ Elapse(j)
               /\ UNCHANGED <<workerVars, schedulerVars>>)

FairSpec ==
  /\ Spec
  /\ WorkerFairness
  /\ SchedulerFairness
  /\ ClockFairness
  /\ <>[][Calm]_vars

=============================================================================
