----------------------------- MODULE JobCatalog -----------------------------
(***************************************************************************)
(* The job types and their handlers, run inside the orchestrator.  The     *)
(* orchestrator lets a handler do anything between two transactions; here  *)
(* a handler does what its type says: checkpoints, steps that report       *)
(* progress, and the error it raises.  A report handler's pages and an     *)
(* llm_summary's fixed number of steps are steps like those of sleep.      *)
(***************************************************************************)
EXTENDS Orchestrator

CONSTANTS
  Works,          \* the normalized payloads that are submitted
  HandlerFaults   \* the kinds of failure inside a handler that happen

JobType == {"sleep", "report", "flaky", "always_fail", "llm_summary"}

\* The types whose handlers call _run_steps.
Stepped == {"sleep", "report", "llm_summary"}

\* What normalize_payload lets through of type and payload.  steps is at least
\* 1 where there are steps; up to 49 of them (i / steps) * 100 in floating point
\* has the integer part of the exact quotient.
Work ==
  [type : Stepped, steps : 1 .. 49, fail_times : {0}, simulate_rate_limit : {FALSE}]
    \cup [type : {"llm_summary"}, steps : 1 .. 49, fail_times : {0},
          simulate_rate_limit : {TRUE}]
    \cup [type : {"flaky"}, steps : {0}, fail_times : Nat,
          simulate_rate_limit : {FALSE}]
    \cup [type : {"always_fail"}, steps : {0}, fail_times : {0},
          simulate_rate_limit : {FALSE}]

ASSUME WorksAreNormalized == Works \subseteq Work /\ Works # {}
ASSUME HandlerFaultsAreKnown == HandlerFaults \subseteq {"handler_error"}

VARIABLES
  work,      \* per job, its type and payload
  progress,  \* per job, the column jobs.progress
  step,      \* per slot, how far its handler is
  troubled   \* jobs of which an attempt met an unexpected error

catalogVars == <<work, progress, step, troubled>>

\* A handler is at a checkpoint, in the work of a step, or at its end; index
\* steps are behind it, `late` of them finished after the user had asked to
\* cancel the job.
Step0 == [at |-> "check", index |-> 0, late |-> 0]

CatalogTypeOK ==
  /\ work \in [Jobs -> Works]
  /\ progress \in [Jobs -> 0 .. 100]
  /\ step \in [Slots -> [at : {"check", "work", "end"}, index : Nat, late : Nat]]
  /\ troubled \in SUBSET Jobs

CatalogInit ==
  /\ Init
  /\ \E p \in Works : work = [j \in Jobs |-> p]
  /\ progress = [j \in Jobs |-> 0]
  /\ step = [s \in Slots |-> Step0]
  /\ troubled = {}

-----------------------------------------------------------------------------
WorkOf(s) == work[slot[s].job]

\* The handler of s is running.
In(s, at) == At(s, "handling") /\ step[s].at = at

\* Only a slot that is handling a job has a place in a handler.
Place(s, r) ==
  step' = [t \in Slots |-> IF slot'[t].pc # "handling" THEN Step0
                           ELSE IF t = s THEN r ELSE step[t]]

Elsewhere ==
  step' = [t \in Slots |-> IF slot'[t].pc # "handling" THEN Step0 ELSE step[t]]

\* raise NonRetryableError, before anything else.
RaisesNonRetryable(s) == WorkOf(s).type = "always_fail"

\* raise RetryableError before the first step.
RateLimited(s) ==
  /\ WorkOf(s).type = "llm_summary"
  /\ WorkOf(s).simulate_rate_limit
  /\ slot[s].attempt = 1

\* Mutation: one failure too few.
FailsTransiently_mutant(s) ==
  WorkOf(s).type = "flaky" /\ slot[s].attempt < WorkOf(s).fail_times

\* raise RetryableError after the checkpoint.
FailsTransiently(s) ==
  WorkOf(s).type = "flaky" /\ slot[s].attempt <= WorkOf(s).fail_times

-----------------------------------------------------------------------------
\* check_cancelled, at the head of every step and in _handle_flaky.
Checkpoint(s) ==
  /\ In(s, "check")
  /\ ~RaisesNonRetryable(s)
  /\ ~RateLimited(s)
  /\ \/ CheckCancelled(s) /\ Elsewhere
     \/ /\ Row(s).cancellation_requested_at = "null"
        /\ UNCHANGED <<storeVars, workerVars>>
        /\ Place(s, [step[s] EXCEPT !.at = IF WorkOf(s).type \in Stepped THEN "work"
                                           ELSE "end"])
  /\ UNCHANGED <<progress, troubled>>

\* Mutation: steps are counted from one.
Percent_mutant(s) == (100 * (step[s].index + 2)) \div WorkOf(s).steps

\* int((index + 1) / steps * 100)
Percent(s) == (100 * (step[s].index + 1)) \div WorkOf(s).steps

\* Mutation: the guard of update_progress forgets the worker.
Reported_mutant(s) ==
  IF Row(s).status \in FINALIZABLE
  THEN [progress EXCEPT ![slot[s].job] = Percent(s)]
  ELSE progress

\* update_progress sets the progress of the row it matches.
Reported(s) ==
  IF HeldBy(Row(s), worker_id(s))
  THEN [progress EXCEPT ![slot[s].job] = Percent(s)]
  ELSE progress

\* Mutation: only the first step looks for a cancellation.
AfterStep_mutant(s) == IF step[s].index + 1 = WorkOf(s).steps THEN "end" ELSE "work"

AfterStep(s) == IF step[s].index + 1 = WorkOf(s).steps THEN "end" ELSE "check"

\* The rest of a turn of _run_steps: the sleep, and report_progress, whose
\* UPDATE may match no row.
RunStep(s) ==
  /\ In(s, "work")
  /\ \/ ReportProgress(s)
     \/ ~HeldBy(Row(s), worker_id(s)) /\ UNCHANGED <<storeVars, workerVars>>
  /\ progress' = Reported(s)
  /\ UNCHANGED troubled
  /\ Place(s, [at |-> AfterStep(s),
               index |-> step[s].index + 1,
               late |-> step[s].late
                          + IF Row(s).cancellation_requested_at = "null" THEN 0 ELSE 1])

\* Mutation: a result is stored and the progress left as reported.
Completed_mutant(s) == progress

\* mark_succeeded sets the progress of the row it matches.
Completed(s) ==
  [progress EXCEPT ![slot[s].job] = IF HeldBy(Row(s), worker_id(s)) THEN 100 ELSE @]

\* The handler returns its result, which its finalizer stores or raises over.
ReturnResult(s) ==
  /\ In(s, "end")
  /\ ~FailsTransiently(s)
  /\ \/ FinalizeSucceeded(s) /\ progress' = Completed(s)
     \/ FinalizeRaises(s) /\ UNCHANGED progress
  /\ Elsewhere
  /\ UNCHANGED troubled

\* Mutation: the error is taken for the last of a job's attempts.
RaiseNonRetryable_mutant(s) ==
  /\ In(s, "check")
  /\ RaisesNonRetryable(s)
  /\ Goto(s, "exhausted")
  /\ Elsewhere
  /\ UNCHANGED <<storeVars, alive, progress, troubled>>

RaiseNonRetryable(s) ==
  /\ In(s, "check")
  /\ RaisesNonRetryable(s)
  /\ FinalizeFailed(s) \/ FinalizeRaises(s)
  /\ Elsewhere
  /\ UNCHANGED <<progress, troubled>>

RaiseRetryable(s) ==
  /\ \/ In(s, "check") /\ RateLimited(s)
     \/ In(s, "end") /\ FailsTransiently(s)
  /\ HandleRetryable(s)
  /\ Elsewhere
  /\ UNCHANGED <<progress, troubled>>

\* except Exception: a transaction of a checkpoint or of a report fails.
RaiseUnexpected(s) ==
  /\ \/ In(s, "check") /\ ~RaisesNonRetryable(s) /\ ~RateLimited(s)
     \/ In(s, "work")
  /\ HandleRetryable(s)
  /\ Elsewhere
  /\ troubled' = troubled \cup {slot[s].job}
  /\ UNCHANGED progress

Handle(s) ==
  \/ Checkpoint(s)
  \/ RunStep(s)
  \/ ReturnResult(s)
  \/ RaiseNonRetryable(s)
  \/ RaiseRetryable(s)

-----------------------------------------------------------------------------
\* submit: the payload is normalized and stored with the job.
SubmitWork(j, limit, p) ==
  /\ Submit(j, limit)
  /\ work' = [work EXCEPT ![j] = p]
  /\ UNCHANGED <<workerVars, schedulerVars, progress, step, troubled>>

\* What a loop does when it is in no handler, and the heartbeat beside it.
Around(s) ==
  \/ \E j \in Jobs : Consume(s, j)
  \/ ~At(s, "handling") /\ Advance(s)
  \/ Heartbeat(s)

\* Everybody else.
Others ==
  \/ (\E j \in Jobs : Cancel(j) \/ Elapse(j)) /\ UNCHANGED <<workerVars, schedulerVars>>
  \/ (\E s \in Slots : Around(s)) /\ UNCHANGED schedulerVars
  \/ Tick /\ UNCHANGED workerVars
  \/ Disturbance

CatalogNext ==
  \/ \E j \in Jobs, limit \in AttemptLimits, p \in Works : SubmitWork(j, limit, p)
  \/ (\E s \in Slots : Handle(s)) /\ UNCHANGED <<schedulerVars, work>>
  \/ /\ "handler_error" \in HandlerFaults
     /\ \E s \in Slots : RaiseUnexpected(s)
     /\ UNCHANGED <<schedulerVars, work>>
  \/ Others /\ Elsewhere /\ UNCHANGED <<work, progress, troubled>>

CatalogSpec == CatalogInit /\ [][CatalogNext]_<<vars, catalogVars>>

\* The fairness of the orchestrator, where a handler's turn is its next step.
CatalogFairness ==
  /\ WF_<<vars, catalogVars>>(/\ \E s \in Slots, j \in Jobs : Consume(s, j)
                              /\ Elsewhere
                              /\ UNCHANGED <<schedulerVars, work, progress, troubled>>)
  /\ \A s \in Slots :
       /\ WF_<<vars, catalogVars>>(Handle(s) /\ UNCHANGED <<schedulerVars, work>>)
       /\ WF_<<vars, catalogVars>>(
            /\ ~At(s, "handling") /\ Advance(s)
            /\ Elsewhere
            /\ UNCHANGED <<schedulerVars, work, progress, troubled>>)

CatalogFairSpec == CatalogSpec /\ CatalogFairness

-----------------------------------------------------------------------------
(***************************************************************************)
(* What the handlers promise.                                              *)
(***************************************************************************)

\* Handlers with their checkpoints, steps and errors do nothing the
\* orchestrator does not allow for: what holds of it holds with them.
ImplementsOrchestrator == Spec

\* A job that succeeded shows 100 percent, whatever attempts that lost the job
\* still report (mark_succeeded, the guard of update_progress).
SucceededShows100 ==
  \A j \in Jobs : jobs[j].status = "succeeded" => progress[j] = 100

\* The progress a user sees falls back only when a new attempt starts over: at
\* its first report, never by a report of an older attempt or a later step.
ProgressFallsOnlyOnRestart ==
  [][\A j \in Jobs :
       progress'[j] < progress[j] =>
         \E s \in Slots :
           /\ slot[s].job = j
           /\ slot[s].attempt = jobs[j].attempts
           /\ step[s].index = 0]_<<vars, catalogVars>>

\* "The worker observes the request at its next checkpoint": once a cancellation
\* is committed, an attempt completes no step but the one it is in, and that
\* holds of a superseded attempt too.
CancelStopsWork == \A s \in Slots : step[s].late <= 1

\* The outcome fits the type.  Only an attempt the type lets succeed leaves a
\* result, over retries, reaped leases and late finalizers; and only the error
\* that is not to be retried fails a job without dead-lettering it.
OutcomeFitsType ==
  \A j \in Jobs :
    /\ jobs[j].status = "succeeded" =>
         /\ work[j].type # "always_fail"
         /\ jobs[j].result > work[j].fail_times
         /\ work[j].simulate_rate_limit => jobs[j].result > 1
    /\ jobs[j].status = "failed" /\ jobs[j].dead_lettered_at = "null" =>
         work[j].type = "always_fail"

\* Under CatalogFairSpec: a cancelled job whose handler has no error to raise
\* ends, because every handler comes to a checkpoint or to its end; except for
\* a job whose end cannot be stored.
CooperativeCancel ==
  \A j \in Jobs \ Unnotifiable :
    /\ jobs[j].status = "cancelling"
    /\ work[j].type \in Stepped
    /\ ~work[j].simulate_rate_limit
    ~> is_terminal(jobs[j].status) \/ j \in troubled

=============================================================================
