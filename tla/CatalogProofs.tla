---------------------------- MODULE CatalogProofs ----------------------------
(***************************************************************************)
(* The orchestrator with the handlers of the job types: it implements the  *)
(* orchestrator that lets a handler do anything, and the outcome, the      *)
(* progress and the cancellation of a job are what its type says, for any  *)
(* payloads, jobs, workers and failures.                                   *)
(***************************************************************************)
EXTENDS JobCatalog, AuditProofs

-----------------------------------------------------------------------------
(***************************************************************************)
(* The refinement.                                                         *)
(***************************************************************************)

\* A step of a handler is a step the orchestrator lets it take, or one that
\* only the handler notices.
LEMMA HandlersImplement ==
  ASSUME NEW s \in Slots, Handle(s) \/ RaiseUnexpected(s), UNCHANGED schedulerVars
  PROVE  [Next]_vars
<1>1. ASSUME Advance(s) \/ ReportProgress(s) PROVE Next
  BY <1>1 DEF Next, Calm, Worker
<1>2. CASE Checkpoint(s)
  BY <1>1, <1>2 DEF Checkpoint, Advance, vars
<1>3. CASE RunStep(s)
  BY <1>1, <1>3 DEF RunStep, vars
<1>4. CASE ReturnResult(s) \/ RaiseNonRetryable(s) \/ RaiseRetryable(s) \/ RaiseUnexpected(s)
  BY <1>1, <1>4 DEF ReturnResult, RaiseNonRetryable, RaiseRetryable, RaiseUnexpected, Advance
<1> QED
  BY <1>2, <1>3, <1>4 DEF Handle

LEMMA CatalogStepImplements ==
  [CatalogNext]_<<vars, catalogVars>> => [Next]_vars
<1>1. ASSUME NEW j \in Jobs, NEW limit \in AttemptLimits, NEW p \in Works, SubmitWork(j, limit, p)
      PROVE  Next
  BY <1>1 DEF SubmitWork, Next, Calm, Api
<1>2. ASSUME Others PROVE Next
  <2>1. CASE (\E j \in Jobs : Cancel(j) \/ Elapse(j)) /\ UNCHANGED <<workerVars, schedulerVars>>
    BY <2>1 DEF Next, Calm, Api
  <2>2. CASE (\E s \in Slots : Around(s)) /\ UNCHANGED schedulerVars
    BY <2>2 DEF Around, Next, Calm, Worker
  <2>3. CASE (Tick /\ UNCHANGED workerVars) \/ Disturbance
    BY <2>3 DEF Next, Calm
  <2> QED BY <1>2, <2>1, <2>2, <2>3 DEF Others
<1> QED
  BY <1>1, <1>2, HandlersImplement DEF CatalogNext

\* Handlers with their checkpoints, steps and errors do nothing the
\* orchestrator does not allow for, so every theorem about Spec holds with them.
THEOREM CatalogRefines == CatalogSpec => ImplementsOrchestrator
<1>1. CatalogInit => Init
  BY DEF CatalogInit
<1> QED
  BY <1>1, CatalogStepImplements, PTL DEF CatalogSpec, ImplementsOrchestrator, Spec

-----------------------------------------------------------------------------
(***************************************************************************)
(* What normalize_payload guarantees.                                      *)
(***************************************************************************)
LEMMA WorkFacts ==
  ASSUME NEW p \in Works
  PROVE  /\ p.steps \in 0 .. 49
         /\ p.type \in Stepped <=> p.steps # 0
         /\ p.fail_times \in Nat
         /\ p.type # "flaky" => p.fail_times = 0
         /\ p.simulate_rate_limit \in BOOLEAN
         /\ p.simulate_rate_limit => p.type = "llm_summary"
<1>1. p \in Work
  BY WorksAreNormalized
<1>2. \/ p.type \in Stepped /\ p.steps \in 1 .. 49 /\ p.fail_times \in {0}
      \/ p.type \in {"llm_summary"} /\ p.steps \in 1 .. 49 /\ p.fail_times \in {0}
      \/ p.type \in {"flaky"} /\ p.steps \in {0} /\ p.fail_times \in Nat
      \/ p.type \in {"always_fail"} /\ p.steps \in {0} /\ p.fail_times \in {0}
  BY <1>1, Zenon DEF Work
<1>3. \/ p.simulate_rate_limit \in {FALSE}
      \/ p.simulate_rate_limit \in {TRUE} /\ p.type \in {"llm_summary"}
  BY <1>1, Zenon DEF Work
<1>4. p.simulate_rate_limit \in BOOLEAN
  BY <1>3, Zenon
<1>5. p.simulate_rate_limit => p.type = "llm_summary"
  BY <1>3, Zenon
<1>6. /\ p.steps \in 0 .. 49
      /\ p.type \in Stepped <=> p.steps # 0
      /\ p.fail_times \in Nat
      /\ p.type # "flaky" => p.fail_times = 0
  BY <1>2 DEF Stepped
<1> QED
  BY <1>4, <1>5, <1>6, Zenon

\* int((index + 1) / steps * 100) is a percentage, and grows with index.
LEMMA Percentages ==
  ASSUME NEW n \in 1 .. 49, NEW i \in 0 .. n
  PROVE  /\ (100 * i) \div n \in 0 .. 100
         /\ i < n => (100 * i) \div n <= (100 * (i + 1)) \div n
<1>1. \A k \in 1 .. 49 : n = k =>
        /\ (100 * i) \div k \in 0 .. 100
        /\ i < k => (100 * i) \div k <= (100 * (i + 1)) \div k
  OBVIOUS
<1> QED
  BY <1>1

-----------------------------------------------------------------------------
(***************************************************************************)
(* The invariant.                                                          *)
(***************************************************************************)

\* How far the handler of s can be.  It does not get past its first checkpoint
\* with an error to raise before it, and a step that ended after the user had
\* asked to cancel the job was the last one.
PlaceOK(s) ==
  LET p == WorkOf(s)
      k == step[s]
  IN  /\ k.index <= p.steps
      /\ k.at = "check" /\ p.type \in Stepped => k.index < p.steps
      /\ k.at = "work" => k.index < p.steps /\ k.late = 0
      /\ k.at # "check" => ~RaisesNonRetryable(s) /\ ~RateLimited(s)
      /\ k.late \in {0, 1}
      /\ k.late # 0 => Row(s).cancellation_requested_at # "null"

PlacesOK ==
  \A s \in Slots : IF slot[s].pc = "handling" THEN PlaceOK(s) ELSE step[s] = Step0

HandlerInv ==
  AuditInv /\ TrailInv /\ CatalogTypeOK /\ PlacesOK

CatalogInv ==
  HandlerInv /\ SucceededShows100 /\ OutcomeFitsType

\* The step leaves the payload of every job that was submitted before it.
WorkStays ==
  /\ work' \in [Jobs -> Works]
  /\ \A j \in Jobs : jobs[j].status # "absent" => work'[j] = work[j]

\* A loop that has a job has one that was submitted.
LEMMA SlotHasWork ==
  ASSUME HandlerInv, NEW s \in Slots, slot[s].pc # "idle"
  PROVE  /\ slot[s].job \in Jobs
         /\ jobs[slot[s].job].status # "absent"
         /\ WorkOf(s) \in Works
<1>1. slot[s].job \in Jobs
  BY SlotHasRow DEF HandlerInv, TrailInv, CoreInv
<1>2. dispatch_outbox[slot[s].job] = "published"
  BY <1>1 DEF HandlerInv, TrailInv, DeliveredIsDispatched
<1>3. jobs[slot[s].job].status # "absent"
  BY <1>1, <1>2 DEF HandlerInv, TrailInv, TrailStarts, TrailStart
<1> QED
  BY <1>1, <1>3 DEF HandlerInv, CatalogTypeOK, WorkOf

\* A loop comes into a handler only by a claim.
LEMMA HandlersAreClaimed ==
  ASSUME TypeOK, [Next]_vars, NEW t \in Slots, slot'[t].pc = "handling"
  PROVE  \/ slot'[t] = slot[t]
         \/ slot[t].pc = "popped" /\ slot'[t].job = slot[t].job
<1> DEFINE Goal == slot'[t] = slot[t] \/ (slot[t].pc = "popped" /\ slot'[t].job = slot[t].job)
<1> SUFFICES Goal
  OBVIOUS
<1>t. slot \in [Slots -> [pc : PC, job : Jobs \cup {NULL}, attempt : Nat]]
  BY DEF TypeOK, WorkerTypeOK
<1>1. CASE slot' = slot
  BY <1>1
<1>2. ASSUME NEW s \in Slots, Return(s) PROVE Goal
  <2>1. slot'[t] = slot[t] \/ slot'[t].pc = "idle"
    BY <1>t, <1>2 DEF Return, Idle
  <2> QED BY <2>1
<1>3. ASSUME NEW s \in Slots, NEW pc, pc # "handling", Goto(s, pc) PROVE Goal
  <2>1. slot'[t] = slot[t] \/ slot'[t].pc = pc
    BY <1>t, <1>3 DEF Goto
  <2> QED BY <1>3, <2>1
<1>4. ASSUME NEW s \in Slots, NEW j \in Jobs, Consume(s, j) PROVE Goal
  <2>1. slot'[t] = slot[t] \/ slot'[t].pc = "popped"
    BY <1>t, <1>4 DEF Consume
  <2> QED BY <2>1
<1>5. ASSUME NEW s \in Slots, Claim(s) PROVE Goal
  <2>1. CASE Claimable(Row(s))
    BY <1>t, <1>5, <2>1 DEF Claim, At
  <2> QED BY <1>2, <1>5, <2>1 DEF Claim
<1>6. ASSUME NEW s \in Slots, Advance(s) PROVE Goal
  <2>1. CASE CheckCancelled(s) \/ HandleRetryable(s)
    <3>1. \E pc \in {"stopping", "exhausted", "backoff"} : Goto(s, pc)
      BY <2>1 DEF CheckCancelled, HandleRetryable
    <3> QED BY <1>3, <3>1
  <2>2. CASE \/ FinalizeSucceeded(s) \/ FinalizeFailed(s) \/ FinalizeCancelled(s)
             \/ FinalizeRaises(s) \/ PushDeadLetter(s) \/ ScheduleRetry(s)
             \/ FinalizeExhausted(s)
    <3>1. Return(s) \/ Goto(s, "deadlettering")
      BY <2>2 DEF FinalizeSucceeded, FinalizeFailed, FinalizeCancelled,
         FinalizeRaises, PushDeadLetter, ScheduleRetry, FinalizeExhausted
    <3> QED BY <1>2, <1>3, <3>1
  <2> QED BY <1>5, <1>6, <2>1, <2>2 DEF Advance
<1>7. ASSUME NEW s \in Slots, Heartbeat(s) \/ ReportProgress(s) PROVE Goal
  BY <1>1, <1>7 DEF Heartbeat, ReportProgress, workerVars
<1>8. ASSUME NEW s \in Slots, ExecuteError(s) PROVE Goal
  BY <1>2, <1>8 DEF ExecuteError
<1>9. ASSUME NEW w \in Workers, Crash(w) PROVE Goal
  <2>1. slot'[t] = slot[t] \/ slot'[t].pc = "idle"
    BY <1>9 DEF Crash, Idle
  <2> QED BY <2>1
<1>10. CASE UNCHANGED workerVars
  BY <1>1, <1>10 DEF workerVars
<1>11. CASE UNCHANGED vars
  BY <1>1, <1>11 DEF vars, workerVars
<1> HIDE DEF Goal
<1> QED
  BY <1>4, <1>6, <1>7, <1>8, <1>9, <1>10, <1>11 DEF Next, Calm, Disturbance, Worker

\* Attempts that exist stay, and a request to cancel is not withdrawn.
LEMMA RequestsStay ==
  ASSUME CoreInv, [Next]_vars, NEW j \in Jobs, jobs[j].cancellation_requested_at # "null"
  PROVE  jobs'[j].cancellation_requested_at # "null"
<1>1. CASE Next
  <2>1. Effects
    BY <1>1, EveryStepIsAChange
  <2> QED BY <2>1, ChangeIsMonotone DEF CoreInv, TypeOK, StoreTypeOK, RowsOK, Effects, Effect
<1>2. CASE UNCHANGED vars
  BY <1>2 DEF vars, storeVars, tables
<1> QED
  BY <1>1, <1>2

\* A handler that the step does not move stays where it can be.
LEMMA OtherPlacesStay ==
  ASSUME HandlerInv, [Next]_vars, WorkStays, NEW t \in Slots,
         step'[t] = IF slot'[t].pc # "handling" THEN Step0 ELSE step[t]
  PROVE  IF slot'[t].pc = "handling" THEN PlaceOK(t)' ELSE step'[t] = Step0
<1> SUFFICES ASSUME slot'[t].pc = "handling" PROVE PlaceOK(t)'
  OBVIOUS
<1>1. TypeOK /\ CoreInv /\ step'[t] = step[t]
  BY DEF HandlerInv, TrailInv, CoreInv
<1>2. \/ slot'[t] = slot[t]
      \/ slot[t].pc = "popped" /\ slot'[t].job = slot[t].job
  BY <1>1, HandlersAreClaimed
<1>3. slot[t].pc # "idle" /\ slot'[t].job = slot[t].job
  BY <1>2
<1>4. /\ slot[t].job \in Jobs /\ WorkOf(t) \in Works
      /\ WorkOf(t)' = WorkOf(t)
  BY <1>3, SlotHasWork DEF WorkStays, WorkOf
<1>5. CASE slot'[t] = slot[t]
  <2>1. PlaceOK(t)
    BY <1>5 DEF HandlerInv, PlacesOK
  <2>2. /\ (RaisesNonRetryable(t) <=> RaisesNonRetryable(t)')
        /\ (RateLimited(t) <=> RateLimited(t)')
    BY <1>4, <1>5 DEF RaisesNonRetryable, RateLimited
  <2>3. Row(t).cancellation_requested_at # "null" => Row(t)'.cancellation_requested_at # "null"
    BY <1>1, <1>4, <1>5, RequestsStay DEF Row
  <2> QED BY <1>1, <1>4, <2>1, <2>2, <2>3 DEF PlaceOK
<1>6. CASE slot[t].pc = "popped"
  <2>1. step[t] = Step0
    BY <1>6 DEF HandlerInv, PlacesOK
  <2>2. step'[t].at = "check" /\ step'[t].index = 0 /\ step'[t].late = 0
    BY <1>1, <2>1 DEF Step0
  <2>3. WorkOf(t).steps \in 0 .. 49 /\ (WorkOf(t).type \in Stepped <=> WorkOf(t).steps # 0)
    BY <1>4, WorkFacts
  <2> QED BY <1>4, <2>2, <2>3 DEF PlaceOK
<1> QED
  BY <1>2, <1>5, <1>6

StepTypeOK ==
  step \in [Slots -> [at : {"check", "work", "end"}, index : Nat, late : Nat]]

\* A step in which no handler moves on.
LEMMA ElsewhereKeepsPlaces ==
  ASSUME HandlerInv, [Next]_vars, WorkStays, Elsewhere
  PROVE  PlacesOK' /\ StepTypeOK'
<1>1. Step0 \in [at : {"check", "work", "end"}, index : Nat, late : Nat]
  BY DEF Step0
<1>2. StepTypeOK'
  <2> DEFINE T == [at : {"check", "work", "end"}, index : Nat, late : Nat]
  <2>1. Step0 \in T /\ step \in [Slots -> T]
    BY <1>1 DEF HandlerInv, CatalogTypeOK
  <2> HIDE DEF T
  <2>2. step' \in [Slots -> T]
    BY <2>1 DEF Elsewhere
  <2> QED BY <2>2 DEF StepTypeOK, T
<1>3. ASSUME NEW t \in Slots
      PROVE  IF slot'[t].pc = "handling" THEN PlaceOK(t)' ELSE step'[t] = Step0
  <2>1. step'[t] = IF slot'[t].pc # "handling" THEN Step0 ELSE step[t]
    BY DEF Elsewhere
  <2> QED BY <2>1, OtherPlacesStay
<1> QED
  BY <1>2, <1>3 DEF PlacesOK

\* A step in which the handler of s moves on to r.
LEMMA PlaceKeepsPlaces ==
  ASSUME HandlerInv, [Next]_vars, WorkStays, NEW s \in Slots, NEW r, Place(s, r),
         r \in [at : {"check", "work", "end"}, index : Nat, late : Nat],
         slot' = slot, slot[s].pc = "handling",
         step'[s] = r => PlaceOK(s)'
  PROVE  PlacesOK' /\ StepTypeOK'
<1>1. Step0 \in [at : {"check", "work", "end"}, index : Nat, late : Nat]
  BY DEF Step0
<1>2. StepTypeOK'
  <2> DEFINE T == [at : {"check", "work", "end"}, index : Nat, late : Nat]
  <2>1. Step0 \in T /\ r \in T /\ step \in [Slots -> T]
    BY <1>1 DEF HandlerInv, CatalogTypeOK
  <2> HIDE DEF T
  <2>2. step' \in [Slots -> T]
    BY <2>1 DEF Place
  <2> QED BY <2>2 DEF StepTypeOK, T
<1>3. ASSUME NEW t \in Slots
      PROVE  IF slot'[t].pc = "handling" THEN PlaceOK(t)' ELSE step'[t] = Step0
  <2>1. CASE t = s
    BY <2>1 DEF Place
  <2>2. CASE t # s
    <3>1. step'[t] = IF slot'[t].pc # "handling" THEN Step0 ELSE step[t]
      BY <2>2 DEF Place
    <3> QED BY <3>1, OtherPlacesStay
  <2> QED BY <2>1, <2>2
<1> QED
  BY <1>2, <1>3 DEF PlacesOK

\* The percentage that a handler reports is one.
LEMMA PercentIsTyped ==
  ASSUME HandlerInv, NEW s \in Slots, In(s, "work")
  PROVE  /\ step[s].index \in Nat
         /\ WorkOf(s).steps \in 1 .. 49
         /\ step[s].index + 1 \in 1 .. WorkOf(s).steps
         /\ Percent(s) \in 0 .. 100
<1>1. slot[s].pc = "handling" /\ step[s].at = "work" /\ PlaceOK(s)
  BY DEF In, At, HandlerInv, PlacesOK
<1>2. WorkOf(s) \in Works /\ step[s].index \in Nat
  BY <1>1, SlotHasWork DEF HandlerInv, CatalogTypeOK
<1>3. WorkOf(s).steps \in 0 .. 49 /\ step[s].index < WorkOf(s).steps
  BY <1>1, <1>2, WorkFacts DEF PlaceOK
<1>4. WorkOf(s).steps \in 1 .. 49 /\ step[s].index + 1 \in 0 .. WorkOf(s).steps
  BY <1>2, <1>3
<1>5. (100 * (step[s].index + 1)) \div WorkOf(s).steps \in 0 .. 100
  BY <1>4, Percentages
<1> QED
  BY <1>2, <1>4, <1>5 DEF Percent

\* A step of a handler keeps the places and the types.
LEMMA HandlersKeepPlaces ==
  ASSUME HandlerInv, [Next]_vars, NEW s \in Slots, Handle(s) \/ RaiseUnexpected(s),
         work' = work
  PROVE  CatalogTypeOK' /\ PlacesOK'
<1>1. WorkStays
  BY DEF WorkStays, HandlerInv, CatalogTypeOK
<1>2. slot[s].pc = "handling" /\ PlaceOK(s)
  BY DEF Handle, Checkpoint, RunStep, ReturnResult, RaiseNonRetryable, RaiseRetryable,
         RaiseUnexpected, In, At, HandlerInv, PlacesOK
<1>3. /\ slot[s].job \in Jobs /\ WorkOf(s) \in Works
      /\ step[s] \in [at : {"check", "work", "end"}, index : Nat, late : Nat]
      /\ progress \in [Jobs -> 0 .. 100] /\ work \in [Jobs -> Works]
      /\ troubled \in SUBSET Jobs
  BY <1>2, SlotHasWork DEF HandlerInv, CatalogTypeOK
<1>4. WorkOf(s).steps \in 0 .. 49 /\ (WorkOf(s).type \in Stepped <=> WorkOf(s).steps # 0)
  BY <1>3, WorkFacts
<1>5. PlacesOK' /\ StepTypeOK'
  <2>1. CASE Elsewhere
    BY <1>1, <2>1, ElsewhereKeepsPlaces
  <2>2. CASE Checkpoint(s) /\ ~Elsewhere
    <3> DEFINE r == [step[s] EXCEPT !.at = IF WorkOf(s).type \in Stepped THEN "work" ELSE "end"]
    <3>1. /\ step[s].at = "check" /\ ~RaisesNonRetryable(s) /\ ~RateLimited(s)
          /\ Row(s).cancellation_requested_at = "null"
          /\ UNCHANGED <<storeVars, workerVars>> /\ Place(s, r)
      BY <2>2 DEF Checkpoint, In
    <3>2. /\ r \in [at : {"check", "work", "end"}, index : Nat, late : Nat]
          /\ r.at = IF WorkOf(s).type \in Stepped THEN "work" ELSE "end"
          /\ r.index = step[s].index /\ r.late = step[s].late
      BY <1>3
    <3>3. slot' = slot /\ jobs' = jobs
      BY <3>1 DEF storeVars, tables, workerVars
    <3>4. /\ WorkOf(s)' = WorkOf(s) /\ Row(s)' = Row(s)
          /\ ~RaisesNonRetryable(s)' /\ ~RateLimited(s)'
      BY <3>1, <3>3 DEF WorkOf, Row, RaisesNonRetryable, RateLimited
    <3> HIDE DEF r
    <3>5. step'[s] = r => PlaceOK(s)'
      BY <1>2, <1>3, <1>4, <3>1, <3>2, <3>4 DEF PlaceOK
    <3> QED BY <1>1, <1>2, <3>1, <3>2, <3>3, <3>5, PlaceKeepsPlaces
  <2>3. CASE RunStep(s)
    <3> DEFINE r == [at |-> AfterStep(s), index |-> step[s].index + 1,
                     late |-> step[s].late
                                + IF Row(s).cancellation_requested_at = "null" THEN 0 ELSE 1]
    <3>1. In(s, "work") /\ step[s].at = "work" /\ Place(s, r) /\ slot' = slot
      BY <2>3 DEF RunStep, In, ReportProgress, workerVars
    <3>2. step[s].late = 0 /\ ~RaisesNonRetryable(s) /\ ~RateLimited(s)
      BY <1>2, <3>1 DEF PlaceOK
    <3>3. /\ r \in [at : {"check", "work", "end"}, index : Nat, late : Nat]
          /\ r.at = AfterStep(s) /\ r.index = step[s].index + 1
          /\ r.late = IF Row(s).cancellation_requested_at = "null" THEN 0 ELSE 1
          /\ AfterStep(s) = "check" => step[s].index + 1 # WorkOf(s).steps
          /\ AfterStep(s) \in {"check", "end"}
      BY <1>3, <3>2 DEF AfterStep
    <3>4. /\ WorkOf(s)' = WorkOf(s) /\ ~RaisesNonRetryable(s)' /\ ~RateLimited(s)'
      BY <3>1, <3>2 DEF WorkOf, RaisesNonRetryable, RateLimited
    <3>5. Row(s).cancellation_requested_at # "null" => Row(s)'.cancellation_requested_at # "null"
      BY <1>3, <3>1, RequestsStay DEF Row, HandlerInv, TrailInv
    <3>6. step[s].index + 1 \in 1 .. WorkOf(s).steps
      BY <3>1, PercentIsTyped
    <3> HIDE DEF r
    <3>7. step'[s] = r => PlaceOK(s)'
      BY <1>3, <1>4, <3>3, <3>4, <3>5, <3>6 DEF PlaceOK
    <3> QED BY <1>1, <1>2, <3>1, <3>3, <3>7, PlaceKeepsPlaces
  <2> QED BY <2>1, <2>2, <2>3
        DEF Handle, ReturnResult, RaiseNonRetryable, RaiseRetryable, RaiseUnexpected
<1>6. progress' \in [Jobs -> 0 .. 100]
  <2>1. CASE RunStep(s)
    <3>1. Percent(s) \in 0 .. 100
      BY <2>1, PercentIsTyped DEF RunStep
    <3> QED BY <1>3, <2>1, <3>1 DEF RunStep, Reported
  <2>2. CASE ReturnResult(s)
    BY <1>3, <2>2 DEF ReturnResult, Completed
  <2> QED BY <1>3, <2>1, <2>2
        DEF Handle, Checkpoint, RaiseNonRetryable, RaiseRetryable, RaiseUnexpected
<1>7. troubled' \in SUBSET Jobs
  BY <1>3 DEF Handle, Checkpoint, RunStep, ReturnResult, RaiseNonRetryable, RaiseRetryable,
     RaiseUnexpected
<1> QED
  BY <1>3, <1>5, <1>6, <1>7 DEF CatalogTypeOK, StepTypeOK

\* Every step keeps the places and the types.
LEMMA CatalogKeepsPlaces ==
  ASSUME HandlerInv, CatalogNext
  PROVE  CatalogTypeOK' /\ PlacesOK' /\ WorkStays
<1>1. [Next]_vars
  BY CatalogStepImplements
<1>2. work \in [Jobs -> Works] /\ progress \in [Jobs -> 0 .. 100] /\ troubled \in SUBSET Jobs
  BY DEF HandlerInv, CatalogTypeOK
<1>3. ASSUME NEW j \in Jobs, NEW limit \in AttemptLimits, NEW p \in Works, SubmitWork(j, limit, p)
      PROVE  CatalogTypeOK' /\ PlacesOK' /\ WorkStays
  <2>1. WorkStays
    BY <1>2, <1>3 DEF SubmitWork, Submit, WorkStays
  <2>2. step' = step /\ slot' = slot /\ progress' = progress /\ troubled' = troubled
    BY <1>3 DEF SubmitWork, workerVars
  <2>3. ASSUME NEW t \in Slots
        PROVE  IF slot'[t].pc = "handling" THEN PlaceOK(t)' ELSE step'[t] = Step0
    <3>1. step'[t] = IF slot'[t].pc # "handling" THEN Step0 ELSE step[t]
      BY <2>2 DEF HandlerInv, PlacesOK
    <3> QED BY <1>1, <2>1, <3>1, OtherPlacesStay
  <2>4. PlacesOK'
    BY <2>3 DEF PlacesOK
  <2>5. CatalogTypeOK'
    BY <2>1, <2>2 DEF HandlerInv, CatalogTypeOK, WorkStays
  <2> QED BY <2>1, <2>4, <2>5
<1>4. ASSUME work' = work PROVE WorkStays
  BY <1>2, <1>4 DEF WorkStays
<1>5. ASSUME NEW s \in Slots, Handle(s) \/ RaiseUnexpected(s), work' = work
      PROVE  CatalogTypeOK' /\ PlacesOK' /\ WorkStays
  BY <1>1, <1>4, <1>5, HandlersKeepPlaces
<1>6. CASE Others /\ Elsewhere /\ UNCHANGED <<work, progress, troubled>>
  <2>1. PlacesOK' /\ StepTypeOK'
    BY <1>1, <1>4, <1>6, ElsewhereKeepsPlaces
  <2> QED BY <1>2, <1>4, <1>6, <2>1 DEF CatalogTypeOK, StepTypeOK
<1> QED
  BY <1>3, <1>5, <1>6 DEF CatalogNext

-----------------------------------------------------------------------------
(***************************************************************************)
(* Which steps end a job well, and which fail it for good.                 *)
(***************************************************************************)

\* Only the jobs in c may become failed without a dead letter by the step.
FailsOnlyBy(c) ==
  \A j \in Jobs \ c :
    jobs'[j].status = "failed" /\ jobs'[j].dead_lettered_at = "null" => jobs[j].status = "failed"

Decided(won, failed) == WonOnlyBy(won) /\ FailsOnlyBy(failed)

LEMMA OneRowDecides ==
  ASSUME TypeOK, NEW j \in Jobs, NEW r, UpdateJob(j, r), NEW c, NEW d,
         j \in c \/ r.status # "succeeded" \/ r.status = jobs[j].status,
         j \in d \/ r.status # "failed" \/ r.dead_lettered_at # "null" \/ r.status = jobs[j].status
  PROVE  Decided(c, d)
BY DEF TypeOK, StoreTypeOK, UpdateJob, WonOnlyBy, FailsOnlyBy, Decided

\* The API, the clock and the scheduler: a reaped job is dead-lettered.
LEMMA OthersDecideNothing ==
  ASSUME TypeOK,
         \/ Api
         \/ \E j \in Jobs : Elapse(j)
         \/ \E batch \in SUBSET Jobs : Scan(batch)
         \/ \E j \in Jobs : DeadLetter(j) \/ Publish(j)
         \/ TickFails
         \/ RedisRestarts
  PROVE  Decided({}, {})
<1>t. \A j \in Jobs : jobs[j] \in JobRow
  BY DEF TypeOK, StoreTypeOK
<1>1. WonOnlyBy({})
  BY OthersAuditNothing DEF AuditStays
<1>2. ASSUME NEW j \in Jobs, NEW limit, Submit(j, limit) PROVE FailsOnlyBy({})
  <2>1. NewRow(limit).status = "pending"
    BY DEF NewRow, AbsentRow
  <2> QED BY <1>2, <2>1, OneRowDecides DEF Submit, Decided
<1>3. ASSUME NEW j \in Jobs, Cancel(j) PROVE FailsOnlyBy({})
  <2>1. /\ request_running_cancellation(jobs[j]).status = "cancelling"
        /\ cancel_inactive(jobs[j]).status = "cancelled"
    BY <1>t DEF JobRow, request_running_cancellation, cancel_inactive
  <2> QED BY <1>3, <2>1, OneRowDecides DEF Cancel, RequestCancellation, CancelInactive, Decided
<1>4. ASSUME NEW j \in Jobs, Elapse(j) PROVE FailsOnlyBy({})
  <2>1. PICK r : UpdateJob(j, r) /\ r.status = jobs[j].status
    BY <1>4, <1>t DEF Elapse, LeaseLapses, RetryFallsDue, QueuedTooLong, AgesOut, JobRow
  <2> QED BY <2>1, OneRowDecides DEF Decided
<1>5. ASSUME NEW batch, Scan(batch) PROVE FailsOnlyBy({})
  <2> SUFFICES ASSUME NEW j \in Jobs
               PROVE  \/ jobs'[j].status # "failed" \/ jobs'[j].dead_lettered_at # "null"
                      \/ jobs'[j].status = jobs[j].status
    BY DEF FailsOnlyBy
  <2> USE <1>5, <1>t DEF JobRow, UpdateBatch
  <2>2. CASE DispatchPending(batch)
    BY <2>2 DEF DispatchPending, mark_queued
  <2>3. CASE PromoteDue(batch)
    BY <2>3 DEF PromoteDue, move_retry_to_queued
  <2>4. CASE ReapExpired(batch)
    BY <2>4 DEF ReapExpired, ReapRow, fail_expired_lease, requeue_expired_lease
  <2>5. CASE RedeliverStuck(batch)
    BY <2>5 DEF RedeliverStuck, mark_redispatched
  <2>6. CASE ExpireStale(batch)
    BY <2>6 DEF ExpireStale, expire
  <2>7. CASE ScanRaises(batch)
    BY <2>7 DEF ScanRaises, storeVars, tables
  <2> QED BY <2>2, <2>3, <2>4, <2>5, <2>6, <2>7 DEF Scan
<1>6. CASE (\E j \in Jobs : DeadLetter(j) \/ Publish(j)) \/ TickFails \/ RedisRestarts
  <2>1. jobs' = jobs
    BY <1>6 DEF DeadLetter, Publish, TickFails, RedisRestarts, storeVars, tables
  <2> QED BY <1>1, <2>1 DEF FailsOnlyBy, Decided
<1> QED
  BY <1>1, <1>2, <1>3, <1>4, <1>5, <1>6 DEF Api, Decided

\* A loop decides nothing but by the two finalizers of a handler that ended.
LEMMA LoopsDecideNothing ==
  ASSUME TypeOK,
         \/ \E s \in Slots :
              \/ \E j \in Jobs : Consume(s, j)
              \/ Heartbeat(s) \/ ReportProgress(s) \/ ExecuteError(s)
              \/ Claim(s) \/ CheckCancelled(s) \/ FinalizeCancelled(s) \/ FinalizeRaises(s)
              \/ HandleRetryable(s) \/ FinalizeExhausted(s) \/ PushDeadLetter(s)
              \/ ScheduleRetry(s)
         \/ \E w \in Workers : Crash(w)
  PROVE  Decided({}, {})
<1>0. ASSUME jobs' = jobs PROVE Decided({}, {})
  BY <1>0 DEF Decided, WonOnlyBy, FailsOnlyBy
<1>1. ASSUME NEW s \in Slots, slot[s].pc # "idle",
             \/ Claim(s) \/ FinalizeCancelled(s) \/ FinalizeExhausted(s) \/ ScheduleRetry(s)
             \/ Heartbeat(s) \/ ReportProgress(s)
      PROVE  Decided({}, {})
  <2>1. slot[s].job \in Jobs /\ Row(s) \in JobRow /\ Row(s) = jobs[slot[s].job]
    BY <1>1, SlotHasRow
  <2>2. /\ claim_for_execution(Row(s), worker_id(s)).status = "running"
        /\ mark_failed(Row(s), TRUE).dead_lettered_at = "set"
        /\ mark_failed(Row(s), TRUE).status = "failed"
        /\ finalize_cancelled_by_worker(Row(s)).status = "cancelled"
        /\ schedule_retry(Row(s)).status = "retrying"
        /\ heartbeat(Row(s)).status = Row(s).status
        /\ update_progress(Row(s)).status = Row(s).status
    BY <2>1 DEF JobRow, claim_for_execution, mark_failed,
       finalize_cancelled_by_worker, schedule_retry, heartbeat, update_progress
  <2>3. \/ jobs' = jobs
        \/ \E r : /\ UpdateJob(slot[s].job, r)
                  /\ \/ r.status = Row(s).status
                     \/ r.status \in {"running", "cancelled", "retrying"}
                     \/ r.status = "failed" /\ r.dead_lettered_at = "set"
    BY <1>1, <2>2 DEF Claim, FinalizeCancelled, FinalizeExhausted, ScheduleRetry, Heartbeat,
       ReportProgress, Finalize, mark_superseded
  <2> QED BY <1>0, <2>1, <2>3, OneRowDecides
<1>2. ASSUME NEW s \in Slots,
             \/ Claim(s) \/ FinalizeCancelled(s) \/ FinalizeExhausted(s) \/ ScheduleRetry(s)
             \/ Heartbeat(s) \/ ReportProgress(s)
      PROVE  Decided({}, {})
  <2>1. slot[s].pc # "idle"
    BY <1>2 DEF Claim, FinalizeCancelled, FinalizeExhausted, ScheduleRetry, Heartbeat,
       ReportProgress, At, Executing
  <2> QED BY <1>1, <1>2, <2>1
<1>3. ASSUME NEW s \in Slots,
             \/ \E j \in Jobs : Consume(s, j)
             \/ ExecuteError(s) \/ CheckCancelled(s) \/ FinalizeRaises(s)
             \/ HandleRetryable(s) \/ PushDeadLetter(s)
      PROVE  Decided({}, {})
  BY <1>0, <1>3 DEF Consume, ExecuteError, CheckCancelled, FinalizeRaises, HandleRetryable,
     PushDeadLetter, storeVars, tables
<1>4. ASSUME NEW w \in Workers, Crash(w) PROVE Decided({}, {})
  BY <1>0, <1>4 DEF Crash, storeVars, tables
<1> QED
  BY <1>2, <1>3, <1>4

\* What a step of the system with its handlers decides: nothing, or the job of
\* a handler that returned its result or raised the error that is not retried.
LEMMA HandlersDecide ==
  ASSUME HandlerInv, CatalogNext
  PROVE  \/ Decided({}, {}) /\ \A j \in Jobs : jobs[j].status \in TERMINAL_STATUSES =>
                                             progress'[j] = progress[j]
         \/ \E s \in Slots : /\ ReturnResult(s) /\ HeldBy(Row(s), worker_id(s))
                              /\ FinalizeSucceeded(s) /\ progress' = Completed(s)
                              /\ Decided({slot[s].job}, {}) /\ work' = work
         \/ \E s \in Slots : /\ RaiseNonRetryable(s) /\ progress' = progress
                              /\ Decided({}, {slot[s].job}) /\ work' = work
<1> DEFINE Quiet == Decided({}, {}) /\ \A j \in Jobs : jobs[j].status \in TERMINAL_STATUSES =>
                                             progress'[j] = progress[j]
<1>t. TypeOK /\ progress \in [Jobs -> 0 .. 100]
  BY DEF HandlerInv, TrailInv, CoreInv, CatalogTypeOK
<1>1. ASSUME NEW j \in Jobs, NEW limit \in AttemptLimits, NEW p \in Works, SubmitWork(j, limit, p)
      PROVE  Quiet
  BY <1>1, <1>t, OthersDecideNothing DEF SubmitWork, Api
<1>2. ASSUME Others, progress' = progress PROVE Quiet
  <2>1. ASSUME NEW s \in Slots, Around(s) PROVE Decided({}, {})
    <3>1. ASSUME ~At(s, "handling") PROVE ~FinalizeSucceeded(s) /\ ~FinalizeFailed(s)
      BY <3>1 DEF FinalizeSucceeded, FinalizeFailed
    <3> QED BY <1>t, <2>1, <3>1, LoopsDecideNothing DEF Around, Advance
  <2>2. ASSUME Disturbance \/ Tick PROVE Decided({}, {})
    BY <1>t, <2>2, LoopsDecideNothing, OthersDecideNothing DEF Disturbance, Tick
  <2>3. ASSUME NEW j \in Jobs, Cancel(j) \/ Elapse(j) PROVE Decided({}, {})
    BY <1>t, <2>3, OthersDecideNothing DEF Api
  <2> QED BY <1>2, <2>1, <2>2, <2>3 DEF Others
<1>3. ASSUME NEW s \in Slots, Checkpoint(s) \/ RaiseRetryable(s) \/ RaiseUnexpected(s)
      PROVE  Quiet
  <2>1. CheckCancelled(s) \/ HandleRetryable(s) \/ jobs' = jobs
    BY <1>3 DEF Checkpoint, RaiseRetryable, RaiseUnexpected, storeVars, tables
  <2>2. Decided({}, {})
    BY <1>t, <2>1, LoopsDecideNothing DEF Decided, WonOnlyBy, FailsOnlyBy
  <2> QED BY <1>3, <2>2 DEF Checkpoint, RaiseRetryable, RaiseUnexpected
<1>4. ASSUME NEW s \in Slots, RunStep(s) PROVE Quiet
  <2>1. ReportProgress(s) \/ jobs' = jobs
    BY <1>4 DEF RunStep, storeVars, tables
  <2>2. Decided({}, {})
    BY <1>t, <2>1, LoopsDecideNothing DEF Decided, WonOnlyBy, FailsOnlyBy
  <2>3. HeldBy(Row(s), worker_id(s)) => jobs[slot[s].job].status \notin TERMINAL_STATUSES
    BY DEF HeldBy, Row, FINALIZABLE, TERMINAL_STATUSES
  <2>4. \A j \in Jobs : jobs[j].status \in TERMINAL_STATUSES => progress'[j] = progress[j]
    BY <1>4, <1>t, <2>3 DEF RunStep, Reported
  <2> QED BY <2>2, <2>4
<1>5. ASSUME NEW s \in Slots, ReturnResult(s)
      PROVE  \/ Quiet
             \/ /\ HeldBy(Row(s), worker_id(s)) /\ Decided({slot[s].job}, {})
                /\ FinalizeSucceeded(s) /\ progress' = Completed(s)
  <2>0. ASSUME FinalizeRaises(s), progress' = progress PROVE Quiet
    BY <1>t, <2>0, LoopsDecideNothing
  <2> SUFFICES ASSUME FinalizeSucceeded(s), progress' = Completed(s)
               PROVE  \/ Quiet
                      \/ /\ HeldBy(Row(s), worker_id(s)) /\ Decided({slot[s].job}, {})
                         /\ FinalizeSucceeded(s) /\ progress' = Completed(s)
    BY <1>5, <2>0 DEF ReturnResult
  <2>1. FinalizeSucceeded(s) /\ slot[s].pc # "idle"
    BY <1>5 DEF ReturnResult, In, At
  <2>2. slot[s].job \in Jobs /\ Row(s) \in JobRow /\ Row(s) = jobs[slot[s].job]
    BY <1>t, <2>1, SlotHasRow
  <2>3. CASE HeldBy(Row(s), worker_id(s))
    <3>1. mark_succeeded(Row(s), slot[s].attempt).status = "succeeded"
      BY <2>2 DEF JobRow, mark_succeeded
    <3>2. UpdateJob(slot[s].job, mark_succeeded(Row(s), slot[s].attempt))
      BY <2>1, <2>3 DEF FinalizeSucceeded, Finalize
    <3>3. Decided({slot[s].job}, {})
      BY <1>t, <2>2, <3>1, <3>2, OneRowDecides
    <3> QED BY <2>3, <3>3
  <2>4. CASE ~HeldBy(Row(s), worker_id(s))
    <3>1. jobs' = jobs
      BY <2>1, <2>4 DEF FinalizeSucceeded, mark_superseded
    <3>2. \A j \in Jobs : progress'[j] = progress[j]
      BY <1>t, <2>2, <2>4 DEF Completed
    <3> QED BY <3>1, <3>2 DEF Decided, WonOnlyBy, FailsOnlyBy
  <2> QED BY <2>3, <2>4
<1>6. ASSUME NEW s \in Slots, RaiseNonRetryable(s)
      PROVE  progress' = progress /\ Decided({}, {slot[s].job})
  <2>1. /\ FinalizeFailed(s) \/ FinalizeRaises(s)
        /\ slot[s].pc # "idle" /\ progress' = progress
    BY <1>6 DEF RaiseNonRetryable, In, At
  <2>2. slot[s].job \in Jobs /\ Row(s) \in JobRow
    BY <1>t, <2>1, SlotHasRow
  <2>3. mark_failed(Row(s), FALSE).status = "failed"
    BY <2>2 DEF JobRow, mark_failed
  <2>4. jobs' = jobs \/ UpdateJob(slot[s].job, mark_failed(Row(s), FALSE))
    BY <2>1 DEF FinalizeFailed, Finalize, mark_superseded, FinalizeRaises, storeVars, tables
  <2>5. CASE jobs' = jobs
    BY <2>1, <2>5 DEF Decided, WonOnlyBy, FailsOnlyBy
  <2>6. CASE UpdateJob(slot[s].job, mark_failed(Row(s), FALSE))
    BY <1>t, <2>1, <2>2, <2>3, <2>6, OneRowDecides
  <2> QED BY <2>4, <2>5, <2>6
<1>7. ASSUME NEW s \in Slots, Handle(s), work' = work
      PROVE  \/ Quiet
             \/ /\ ReturnResult(s) /\ HeldBy(Row(s), worker_id(s))
                /\ FinalizeSucceeded(s) /\ progress' = Completed(s)
                /\ Decided({slot[s].job}, {}) /\ work' = work
             \/ /\ RaiseNonRetryable(s) /\ progress' = progress
                /\ Decided({}, {slot[s].job}) /\ work' = work
  BY <1>3, <1>4, <1>5, <1>6, <1>7 DEF Handle
<1> HIDE DEF Quiet
<1>8. \/ Quiet
      \/ \E s \in Slots : Handle(s) /\ work' = work
  BY <1>1, <1>2, <1>3 DEF CatalogNext
<1>9. CASE Quiet
  BY <1>9 DEF Quiet
<1> QED
  BY <1>7, <1>8, <1>9


-----------------------------------------------------------------------------
(***************************************************************************)
(* The outcome of a job.                                                   *)
(***************************************************************************)

\* What the end of one job says about its type and its progress.
OutcomeOK(j) ==
  /\ jobs[j].status = "succeeded" =>
       /\ progress[j] = 100
       /\ work[j].type # "always_fail"
       /\ jobs[j].result > work[j].fail_times
       /\ work[j].simulate_rate_limit => jobs[j].result > 1
  /\ jobs[j].status = "failed" /\ jobs[j].dead_lettered_at = "null" =>
       work[j].type = "always_fail"

LEMMA OutcomePerJob ==
  SucceededShows100 /\ OutcomeFitsType <=> \A j \in Jobs : OutcomeOK(j)
BY Zenon DEF SucceededShows100, OutcomeFitsType, OutcomeOK

\* A job that had ended keeps its outcome: no UPDATE matches its row, and no
\* report its progress.
LEMMA EndedOutcomeStays ==
  ASSUME HandlerInv, [Next]_vars, WorkStays, NEW j \in Jobs, OutcomeOK(j),
         jobs[j].status \in TERMINAL_STATUSES, progress'[j] = progress[j]
  PROVE  OutcomeOK(j)'
<1>1. ASSUME Next PROVE jobs'[j] = jobs[j]
  <2>1. Effects
    BY <1>1, EveryStepIsAChange DEF HandlerInv, TrailInv
  <2> QED BY <2>1, ChangeSparesTheEnded
        DEF HandlerInv, TrailInv, CoreInv, TypeOK, StoreTypeOK, Effects, Effect, is_terminal
<1>2. ASSUME UNCHANGED vars PROVE jobs'[j] = jobs[j]
  BY <1>2 DEF vars, storeVars, tables
<1>3. jobs'[j] = jobs[j]
  BY <1>1, <1>2
<1>4. work'[j] = work[j]
  BY DEF WorkStays, TERMINAL_STATUSES
<1> QED
  BY <1>3, <1>4 DEF OutcomeOK

\* A handler that returns a result was let past every error of its type.
LEMMA ResultFits ==
  ASSUME HandlerInv, NEW s \in Slots, ReturnResult(s)
  PROVE  LET p == WorkOf(s)
         IN  /\ slot[s].job \in Jobs
             /\ p.type # "always_fail"
             /\ slot[s].attempt > p.fail_times
             /\ p.simulate_rate_limit => slot[s].attempt > 1
<1>1. slot[s].pc = "handling" /\ step[s].at = "end" /\ ~FailsTransiently(s)
  BY DEF ReturnResult, In, At
<1>2. WorkOf(s) \in Works /\ slot[s].job \in Jobs
  BY <1>1, SlotHasWork
<1>3. /\ WorkOf(s).fail_times \in Nat
      /\ WorkOf(s).type # "flaky" => WorkOf(s).fail_times = 0
  BY <1>2, WorkFacts
<1>4. WorkOf(s).simulate_rate_limit => WorkOf(s).type = "llm_summary"
  BY <1>2, WorkFacts
<1>5. slot[s].attempt \in Nat /\ slot[s].attempt >= 1
  BY <1>1 DEF HandlerInv, TrailInv, CoreInv, TypeOK, WorkerTypeOK, SlotsOK, SlotOK, Executing
<1>6. ~RaisesNonRetryable(s) /\ ~RateLimited(s)
  BY <1>1 DEF HandlerInv, PlacesOK, PlaceOK
<1>7. slot[s].attempt > WorkOf(s).fail_times
  BY <1>1, <1>3, <1>5 DEF FailsTransiently
<1>8. WorkOf(s).simulate_rate_limit => slot[s].attempt # 1
  BY <1>4, <1>6, Zenon DEF RateLimited
<1>9. slot[s].attempt # 1 => slot[s].attempt > 1
  BY <1>5
<1> QED
  BY <1>2, <1>6, <1>7, <1>8, <1>9, Zenon DEF RaisesNonRetryable

LEMMA StepKeepsOutcomes ==
  ASSUME CatalogInv, CatalogNext, [Next]_vars, WorkStays
  PROVE  \A j \in Jobs : OutcomeOK(j)'
<1> SUFFICES ASSUME NEW j \in Jobs PROVE OutcomeOK(j)'
  OBVIOUS
<1>1. HandlerInv /\ OutcomeOK(j)
  BY OutcomePerJob DEF CatalogInv
<1>2. ASSUME jobs[j].status \in TERMINAL_STATUSES, progress'[j] = progress[j]
      PROVE  OutcomeOK(j)'
  BY <1>1, <1>2, EndedOutcomeStays
<1>3. "succeeded" \in TERMINAL_STATUSES /\ "failed" \in TERMINAL_STATUSES
  BY DEF TERMINAL_STATUSES
<1>4. ASSUME jobs[j].status \notin TERMINAL_STATUSES, NEW won, NEW failed, Decided(won, failed),
             j \notin won, j \notin failed
      PROVE  OutcomeOK(j)'
  <2>1. jobs'[j].status # "succeeded"
    BY <1>3, <1>4 DEF Decided, WonOnlyBy
  <2>2. ~(jobs'[j].status = "failed" /\ jobs'[j].dead_lettered_at = "null")
    BY <1>3, <1>4 DEF Decided, FailsOnlyBy
  <2> QED BY <2>1, <2>2 DEF OutcomeOK
<1>5. CASE /\ Decided({}, {})
           /\ \A i \in Jobs : jobs[i].status \in TERMINAL_STATUSES => progress'[i] = progress[i]
  BY <1>2, <1>4, <1>5
<1>6. ASSUME NEW s \in Slots, ReturnResult(s), HeldBy(Row(s), worker_id(s)),
             FinalizeSucceeded(s), progress' = Completed(s),
             Decided({slot[s].job}, {}), work' = work
      PROVE  OutcomeOK(j)'
  <2>1. progress' = Completed(s) /\ progress \in [Jobs -> 0 .. 100] /\ FinalizeSucceeded(s)
    BY <1>1, <1>6 DEF HandlerInv, CatalogTypeOK
  <2>2. CASE j # slot[s].job
    <3>1. progress'[j] = progress[j]
      BY <2>1, <2>2 DEF Completed
    <3> QED BY <1>2, <1>4, <1>6, <2>2, <3>1
  <2>3. CASE j = slot[s].job
    <3>1. progress'[j] = 100
      BY <1>6, <2>1, <2>3 DEF Completed
    <3>2. jobs[j] \in JobRow /\ jobs \in [Jobs -> JobRow] /\ Row(s) = jobs[j]
      BY <1>1, <2>3 DEF HandlerInv, TrailInv, CoreInv, TypeOK, StoreTypeOK, Row
    <3>3. jobs'[j] = mark_succeeded(Row(s), slot[s].attempt)
      BY <1>6, <2>1, <2>3, <3>2 DEF FinalizeSucceeded, Finalize, UpdateJob
    <3>4. jobs'[j].status = "succeeded" /\ jobs'[j].result = slot[s].attempt
      BY <3>2, <3>3 DEF mark_succeeded, JobRow
    <3>5. /\ work[j].type # "always_fail"
          /\ slot[s].attempt > work[j].fail_times
          /\ work[j].simulate_rate_limit => slot[s].attempt > 1
      BY <1>1, <1>6, <2>3, ResultFits, Zenon DEF WorkOf
    <3> QED BY <1>6, <3>1, <3>4, <3>5, Zenon DEF OutcomeOK
  <2> QED BY <2>2, <2>3
<1>7. ASSUME NEW s \in Slots, RaiseNonRetryable(s), progress' = progress,
             Decided({}, {slot[s].job}), work' = work
      PROVE  OutcomeOK(j)'
  <2>1. CASE jobs[j].status \in TERMINAL_STATUSES \/ j # slot[s].job
    BY <1>2, <1>4, <1>7, <2>1
  <2>2. CASE jobs[j].status \notin TERMINAL_STATUSES /\ j = slot[s].job
    <3>1. work'[j].type = "always_fail"
      BY <1>7, <2>2 DEF RaiseNonRetryable, RaisesNonRetryable, WorkOf
    <3>2. jobs'[j].status # "succeeded"
      BY <1>3, <1>7, <2>2 DEF Decided, WonOnlyBy
    <3> QED BY <3>1, <3>2 DEF OutcomeOK
  <2> QED BY <2>1, <2>2
<1> QED
  BY <1>1, <1>5, <1>6, <1>7, HandlersDecide

-----------------------------------------------------------------------------
(***************************************************************************)
(* The theorems.                                                           *)
(***************************************************************************)
LEMMA InitCatalog == CatalogInit => CatalogInv
<1> SUFFICES ASSUME CatalogInit PROVE CatalogInv
  OBVIOUS
<1>1. AuditInv /\ TrailInv
  BY InitAudit, InitTrail DEF CatalogInit
<1>2. \A s \in Slots : slot[s].pc = "idle"
  BY DEF CatalogInit, Init, WorkerInit, Idle
<1>3. \A j \in Jobs : jobs[j].status = "absent"
  BY DEF CatalogInit, Init, StoreInit, AbsentRow
<1>4. Step0 \in [at : {"check", "work", "end"}, index : Nat, late : Nat]
  BY DEF Step0
<1>5. CatalogTypeOK
  BY <1>4 DEF CatalogInit, CatalogTypeOK
<1>6. PlacesOK
  BY <1>2 DEF CatalogInit, PlacesOK
<1>7. SucceededShows100 /\ OutcomeFitsType
  BY <1>3 DEF SucceededShows100, OutcomeFitsType
<1> QED
  BY <1>1, <1>5, <1>6, <1>7 DEF CatalogInv, HandlerInv

LEMMA StutterKeepsCatalog ==
  ASSUME CatalogInv, UNCHANGED <<vars, catalogVars>>
  PROVE  CatalogTypeOK' /\ PlacesOK' /\ SucceededShows100' /\ OutcomeFitsType'
<1>1. /\ jobs' = jobs /\ slot' = slot
      /\ work' = work /\ progress' = progress /\ step' = step /\ troubled' = troubled
  BY DEF vars, storeVars, tables, workerVars, catalogVars
<1>2. CatalogTypeOK'
  BY <1>1 DEF CatalogInv, HandlerInv, CatalogTypeOK
<1>3. ASSUME NEW s \in Slots PROVE PlaceOK(s)' <=> PlaceOK(s)
  BY <1>1, Zenon DEF PlaceOK, WorkOf, Row, RaisesNonRetryable, RateLimited
<1>4. PlacesOK'
  BY <1>1, <1>3 DEF CatalogInv, HandlerInv, PlacesOK
<1>5. SucceededShows100' /\ OutcomeFitsType'
  BY <1>1, Zenon DEF CatalogInv, SucceededShows100, OutcomeFitsType
<1> QED
  BY <1>2, <1>4, <1>5

LEMMA NextKeepsCatalog ==
  CatalogInv /\ [CatalogNext]_<<vars, catalogVars>> => CatalogInv'
<1> SUFFICES ASSUME CatalogInv, [CatalogNext]_<<vars, catalogVars>> PROVE CatalogInv'
  OBVIOUS
<1>1. [Next]_vars /\ HandlerInv
  BY CatalogStepImplements DEF CatalogInv
<1>2. AuditInv' /\ TrailInv'
  BY <1>1, NextKeepsAudit, NextKeepsTrail DEF HandlerInv
<1>3. CASE CatalogNext
  <2>1. CatalogTypeOK' /\ PlacesOK' /\ WorkStays
    BY <1>1, <1>3, CatalogKeepsPlaces
  <2>2. \A j \in Jobs : OutcomeOK(j)'
    BY <1>1, <1>3, <2>1, StepKeepsOutcomes
  <2>3. (SucceededShows100 /\ OutcomeFitsType <=> \A j \in Jobs : OutcomeOK(j))'
    BY OutcomePerJob, PTL
  <2> QED BY <1>2, <2>1, <2>2, <2>3 DEF CatalogInv, HandlerInv
<1>4. CASE UNCHANGED <<vars, catalogVars>>
  BY <1>2, <1>4, StutterKeepsCatalog DEF CatalogInv, HandlerInv
<1> QED
  BY <1>3, <1>4

LEMMA CatalogInvariant == CatalogSpec => []CatalogInv
BY InitCatalog, NextKeepsCatalog, PTL DEF CatalogSpec

\* Every variable of the handlers keeps its type; a reported percentage is one.
THEOREM CatalogTypeCorrect == CatalogSpec => []CatalogTypeOK
<1>1. CatalogInv => CatalogTypeOK
  BY DEF CatalogInv, HandlerInv
<1> QED BY <1>1, CatalogInvariant, PTL

\* A job that succeeded shows 100 percent, whatever attempts that lost the job
\* still report (mark_succeeded, the guard of update_progress).
THEOREM SucceededShowsAll == CatalogSpec => []SucceededShows100
<1>1. CatalogInv => SucceededShows100
  BY DEF CatalogInv
<1> QED BY <1>1, CatalogInvariant, PTL

\* Once a cancellation is committed, an attempt completes no step of
\* _run_steps but the one it is in.
THEOREM CancelStopsTheHandler == CatalogSpec => []CancelStopsWork
<1>1. CatalogInv => CancelStopsWork
  <2> SUFFICES ASSUME CatalogInv, NEW s \in Slots PROVE step[s].late <= 1
    BY DEF CancelStopsWork
  <2>1. step[s] = Step0 \/ step[s].late \in {0, 1}
    BY DEF CatalogInv, HandlerInv, PlacesOK, PlaceOK
  <2> QED BY <2>1 DEF Step0
<1> QED BY <1>1, CatalogInvariant, PTL

\* Only an attempt that the type lets succeed leaves a result, and only the
\* error that is not retried fails a job without dead-lettering it.
THEOREM OutcomesFit == CatalogSpec => []OutcomeFitsType
<1>1. CatalogInv => OutcomeFitsType
  BY DEF CatalogInv
<1> QED BY <1>1, CatalogInvariant, PTL

-----------------------------------------------------------------------------
(***************************************************************************)
(* The progress a user sees, when a worker runs one loop and the lease     *)
(* identifies the attempt.                                                 *)
(***************************************************************************)

\* A handler that still holds its job has reported the steps behind it.
ProgressIsReported ==
  \A s \in Slots :
    slot[s].pc = "handling" /\ HeldBy(Row(s), worker_id(s)) /\ step[s].index > 0 =>
      progress[slot[s].job] = (100 * step[s].index) \div WorkOf(s).steps

ProgressInv == CatalogInv /\ FencingInv /\ ProgressIsReported

\* With one loop per worker, the worker's id is the loop's.
LEMMA OneLoop ==
  ASSUME Concurrency = 1, NEW s \in Slots, NEW t \in Slots, worker_id(s) = worker_id(t)
  PROVE  s = t
BY DEF Slots, worker_id

\* A loop that is in its handler before and after a step, and holds its job
\* after it, held the job before: a lease comes only with a claim.
LEMMA HeldWasHeld ==
  ASSUME Concurrency = 1, FencingInv, [Next]_vars, NEW t \in Slots, slot[t].pc = "handling",
         HeldBy(jobs'[slot[t].job], worker_id(t))
  PROVE  HeldBy(jobs[slot[t].job], worker_id(t))
<1> DEFINE j == slot[t].job
<1>1. j \in Jobs /\ jobs[j] \in JobRow /\ TypeOK /\ CoreInv /\ jobs \in [Jobs -> JobRow]
  BY SlotHasRow DEF FencingInv, CoreInv, TypeOK, StoreTypeOK
<1>2. CASE UNCHANGED vars
  BY <1>2 DEF vars, storeVars, tables
<1>3. CASE jobs'[j] = jobs[j]
  BY <1>3
<1>4. CASE Next /\ (jobs'[j].status = "running" => jobs[j].status = "running")
  <2>1. Effects
    BY <1>1, <1>4, EveryStepIsAChange
  <2>2. /\ RowOK(jobs[j], dispatch_outbox[j], notification_outbox[j])
        /\ Change(jobs[j], dispatch_outbox[j], notification_outbox[j],
                  jobs'[j], dispatch_outbox'[j], notification_outbox'[j])
    BY <1>1, <2>1 DEF CoreInv, RowsOK, Effects, Effect
  <2>3. /\ jobs'[j].status \in FINALIZABLE =>
             jobs[j].status \in FINALIZABLE /\ jobs'[j].locked_by = jobs[j].locked_by
    BY <1>1, <1>4, <2>2, LeaseIsKept
  <2> QED BY <2>3 DEF HeldBy
<1>5. CASE \E s \in Slots : Claim(s)
  <2>1. PICK s \in Slots : Claim(s)
    BY <1>5
  <2>2. slot[s].pc = "popped" /\ s # t
    BY <2>1 DEF Claim, At
  <2>3. slot[s].job \in Jobs /\ Row(s) \in JobRow
    BY <1>1, <2>2, SlotHasRow
  <2>4. jobs' = jobs \/ UpdateJob(slot[s].job, claim_for_execution(Row(s), worker_id(s)))
    BY <2>1 DEF Claim
  <2>5. CASE jobs' # jobs /\ slot[s].job = j
    <3>1. jobs'[j] = claim_for_execution(Row(s), worker_id(s))
      BY <1>1, <2>4, <2>5 DEF UpdateJob
    <3>2. claim_for_execution(Row(s), worker_id(s)).locked_by = worker_id(s)
      BY <2>3 DEF claim_for_execution, JobRow
    <3> QED BY <2>2, <3>1, <3>2, OneLoop DEF HeldBy
  <2> QED BY <1>1, <1>3, <2>4, <2>5 DEF UpdateJob
<1>6. CASE \E s \in Slots : ScheduleRetry(s)
  <2>1. PICK s \in Slots : ScheduleRetry(s)
    BY <1>6
  <2>2. slot[s].pc # "idle"
    BY <2>1 DEF ScheduleRetry, At
  <2>3. slot[s].job \in Jobs /\ Row(s) \in JobRow
    BY <1>1, <2>2, SlotHasRow
  <2>4. jobs' = jobs \/ UpdateJob(slot[s].job, schedule_retry(Row(s)))
    BY <2>1 DEF ScheduleRetry, mark_superseded
  <2>5. schedule_retry(Row(s)).status = "retrying"
    BY <2>3 DEF schedule_retry, JobRow
  <2> QED BY <1>1, <1>3, <2>3, <2>4, <2>5 DEF UpdateJob, HeldBy, FINALIZABLE
<1> QED
  BY <1>1, <1>2, <1>4, <1>5, <1>6, StepsAreThree DEF StartsOnlyBy

\* What a step does to the progress of a job.
LEMMA ProgressMoves ==
  ASSUME HandlerInv, CatalogNext, NEW j \in Jobs
  PROVE  \/ progress'[j] = progress[j]
         \/ \E s \in Slots : /\ slot[s].pc = "handling" /\ slot[s].job = j
                             /\ HeldBy(Row(s), worker_id(s))
                             /\ \/ RunStep(s) /\ progress'[j] = Percent(s)
                                \/ ReturnResult(s) /\ progress'[j] = 100
<1>1. progress \in [Jobs -> 0 .. 100]
  BY DEF HandlerInv, CatalogTypeOK
<1>2. ASSUME NEW s \in Slots, RunStep(s), progress'[j] # progress[j]
      PROVE  /\ slot[s].pc = "handling" /\ slot[s].job = j
             /\ HeldBy(Row(s), worker_id(s)) /\ progress'[j] = Percent(s)
  BY <1>1, <1>2 DEF RunStep, Reported, In, At
<1>3. ASSUME NEW s \in Slots, ReturnResult(s), progress'[j] # progress[j]
      PROVE  /\ slot[s].pc = "handling" /\ slot[s].job = j
             /\ HeldBy(Row(s), worker_id(s)) /\ progress'[j] = 100
  BY <1>1, <1>3 DEF ReturnResult, Completed, In, At
<1>4. \/ progress' = progress
      \/ \E s \in Slots : RunStep(s) \/ ReturnResult(s)
  BY DEF CatalogNext, SubmitWork, Handle, Checkpoint, RaiseNonRetryable, RaiseRetryable,
         RaiseUnexpected
<1> QED
  BY <1>2, <1>3, <1>4

\* Where a handler is after a step: it took a step of _run_steps, or stays, or
\* it is at its start.
LEMMA IndexMoves ==
  ASSUME HandlerInv, CatalogNext, NEW t \in Slots, slot'[t].pc = "handling",
         step'[t].index > 0
  PROVE  /\ slot[t].pc = "handling" /\ slot'[t] = slot[t]
         /\ WorkOf(t)' = WorkOf(t)
         /\ \/ RunStep(t) /\ step'[t].index = step[t].index + 1
            \/ ~RunStep(t) /\ step'[t].index = step[t].index
<1>1. [Next]_vars /\ TypeOK
  BY CatalogStepImplements DEF HandlerInv, TrailInv, CoreInv
<1>t. step[t].index \in Nat
  BY DEF HandlerInv, CatalogTypeOK
<1>2. \/ slot'[t] = slot[t]
      \/ slot[t].pc = "popped" /\ slot'[t].job = slot[t].job
  BY <1>1, HandlersAreClaimed
<1>3. step'[t].index = step[t].index \/ (RunStep(t) /\ step'[t].index = step[t].index + 1)
  <2>1. CASE Elsewhere \/ step' = step
    BY <2>1 DEF Elsewhere
  <2>2. ASSUME NEW s \in Slots, NEW r, Place(s, r), r.index = step[s].index
        PROVE  step'[t].index = step[t].index
    BY <2>2 DEF Place
  <2>3. ASSUME NEW s \in Slots, Checkpoint(s) PROVE step'[t].index = step[t].index
    <3> DEFINE r == [step[s] EXCEPT !.at = IF WorkOf(s).type \in Stepped THEN "work" ELSE "end"]
    <3>1. r.index = step[s].index
      BY DEF HandlerInv, CatalogTypeOK
    <3>2. Elsewhere \/ Place(s, r)
      BY <2>3 DEF Checkpoint
    <3> HIDE DEF r
    <3> QED BY <2>2, <3>1, <3>2 DEF Elsewhere
  <2>4. ASSUME NEW s \in Slots, RunStep(s)
        PROVE  step'[t].index = IF s = t THEN step[t].index + 1 ELSE step[t].index
    BY <2>4 DEF RunStep, Place
  <2>5. \/ Elsewhere \/ step' = step
        \/ \E s \in Slots : Checkpoint(s) \/ RunStep(s)
    BY DEF CatalogNext, SubmitWork, Handle, ReturnResult, RaiseNonRetryable, RaiseRetryable,
           RaiseUnexpected
  <2> QED BY <2>1, <2>3, <2>4, <2>5
<1>4. slot[t].pc = "handling" /\ slot'[t] = slot[t]
  <2>1. CASE slot[t].pc = "popped"
    <3>1. step[t].index = 0
      BY <2>1 DEF HandlerInv, PlacesOK, Step0
    <3>2. ~RunStep(t)
      BY <2>1 DEF RunStep, In, At
    <3> QED BY <1>3, <3>1, <3>2
  <2> QED BY <1>2, <2>1
<1>5. WorkOf(t)' = WorkOf(t)
  <2>1. WorkStays
    BY CatalogKeepsPlaces
  <2> QED BY <1>4, <2>1, SlotHasWork DEF WorkStays, WorkOf
<1>6. RunStep(t) => step'[t].index = step[t].index + 1
  BY <1>4 DEF RunStep, Place
<1> QED
  BY <1>3, <1>4, <1>5, <1>6

LEMMA NextKeepsReported ==
  ASSUME Concurrency = 1, ProgressInv, CatalogNext
  PROVE  ProgressIsReported'
<1> SUFFICES ASSUME NEW t \in Slots, slot'[t].pc = "handling",
                    HeldBy(jobs'[slot'[t].job], worker_id(t)), step'[t].index > 0
             PROVE  progress'[slot'[t].job] = (100 * step'[t].index) \div WorkOf(t)'.steps
  BY DEF ProgressIsReported, Row, worker_id
<1>1. HandlerInv /\ FencingInv /\ [Next]_vars
  BY CatalogStepImplements DEF ProgressInv, CatalogInv
<1>2. /\ slot[t].pc = "handling" /\ slot'[t] = slot[t]
      /\ WorkOf(t)' = WorkOf(t)
      /\ \/ RunStep(t) /\ step'[t].index = step[t].index + 1
         \/ ~RunStep(t) /\ step'[t].index = step[t].index
  BY <1>1, IndexMoves
<1>3. HeldBy(jobs[slot[t].job], worker_id(t))
  BY <1>1, <1>2, HeldWasHeld
<1>4. slot[t].job \in Jobs /\ progress \in [Jobs -> 0 .. 100]
  BY <1>1, <1>2, SlotHasWork DEF HandlerInv, CatalogTypeOK
<1>5. CASE RunStep(t)
  BY <1>2, <1>3, <1>4, <1>5 DEF RunStep, Reported, Percent, Row
<1>6. CASE ~RunStep(t)
  <2>1. ASSUME NEW s \in Slots, slot[s].job = slot[t].job, HeldBy(Row(s), worker_id(s))
        PROVE  s = t
    BY <1>3, <2>1, OneLoop DEF HeldBy, Row
  <2>2. ~ReturnResult(t)
    <3>1. ReturnResult(t) => slot'[t].pc = "idle"
      BY <1>1 DEF ReturnResult, FinalizeSucceeded, FinalizeRaises, Return, Idle, FencingInv,
         CoreInv, TypeOK, WorkerTypeOK
    <3> QED BY <3>1
  <2>3. progress'[slot[t].job] = progress[slot[t].job]
    BY <1>1, <1>4, <1>6, <2>1, <2>2, ProgressMoves
  <2> QED BY <1>2, <1>3, <1>6, <2>3 DEF ProgressInv, ProgressIsReported, Row
<1> QED
  BY <1>5, <1>6

LEMMA ProgressInvariant ==
  ASSUME Concurrency = 1
  PROVE  CatalogSpec => []ProgressInv
<1>1. CatalogInit => ProgressInv
  <2> SUFFICES ASSUME CatalogInit PROVE ProgressInv
    OBVIOUS
  <2>1. \A s \in Slots : slot[s].pc = "idle"
    BY DEF CatalogInit, Init, WorkerInit, Idle
  <2>2. FencingInv
    BY InitFencing DEF CatalogInit
  <2> QED BY <2>1, <2>2, InitCatalog DEF ProgressInv, ProgressIsReported
<1>2. ProgressInv /\ [CatalogNext]_<<vars, catalogVars>> => ProgressInv'
  <2> SUFFICES ASSUME ProgressInv, [CatalogNext]_<<vars, catalogVars>> PROVE ProgressInv'
    OBVIOUS
  <2>1. CatalogInv' /\ FencingInv'
    BY NextKeepsCatalog, NextKeepsFencing, CatalogStepImplements DEF ProgressInv
  <2>2. CASE CatalogNext
    BY <2>1, <2>2, NextKeepsReported DEF ProgressInv
  <2>3. CASE UNCHANGED <<vars, catalogVars>>
    <3>1. /\ jobs' = jobs /\ slot' = slot /\ work' = work /\ progress' = progress /\ step' = step
      BY <2>3 DEF vars, storeVars, tables, workerVars, catalogVars
    <3> QED BY <2>1, <3>1 DEF ProgressInv, ProgressIsReported, Row, WorkOf
  <2> QED BY <2>2, <2>3
<1> QED
  BY <1>1, <1>2, PTL DEF CatalogSpec

\* When a worker runs one loop, the progress a user sees falls only at the first
\* report of a new attempt: a report of an older attempt matches no row, and the
\* percentages of one attempt grow.
THEOREM ProgressNeverFallsBack ==
  ASSUME Concurrency = 1
  PROVE  CatalogSpec => ProgressFallsOnlyOnRestart
<1> DEFINE A == \A j \in Jobs :
                  progress'[j] < progress[j] =>
                    \E s \in Slots :
                      /\ slot[s].job = j
                      /\ slot[s].attempt = jobs[j].attempts
                      /\ step[s].index = 0
<1>1. ASSUME ProgressInv, CatalogNext PROVE A
  <2> SUFFICES ASSUME NEW j \in Jobs, progress'[j] < progress[j]
               PROVE  \E s \in Slots : /\ slot[s].job = j
                                       /\ slot[s].attempt = jobs[j].attempts
                                       /\ step[s].index = 0
    OBVIOUS
  <2>1. HandlerInv /\ progress[j] \in 0 .. 100
    BY <1>1 DEF ProgressInv, CatalogInv, HandlerInv, CatalogTypeOK
  <2>2. PICK s \in Slots : /\ slot[s].pc = "handling" /\ slot[s].job = j
                           /\ HeldBy(Row(s), worker_id(s))
                           /\ RunStep(s) /\ progress'[j] = Percent(s)
    BY <1>1, <2>1, ProgressMoves
  <2>3. slot[s].attempt = jobs[j].attempts
    BY <1>1, <2>2 DEF ProgressInv, FencingInv, Fencing, Executing, Row
  <2>4. /\ step[s].index \in Nat /\ WorkOf(s).steps \in 1 .. 49
        /\ step[s].index + 1 \in 1 .. WorkOf(s).steps
    BY <2>1, <2>2, PercentIsTyped DEF RunStep
  <2>5. CASE step[s].index > 0
    <3>1. progress[j] = (100 * step[s].index) \div WorkOf(s).steps
      BY <1>1, <2>2, <2>5 DEF ProgressInv, ProgressIsReported
    <3>2. (100 * step[s].index) \div WorkOf(s).steps
            <= (100 * (step[s].index + 1)) \div WorkOf(s).steps
      <4>1. step[s].index \in 0 .. WorkOf(s).steps /\ step[s].index < WorkOf(s).steps
        BY <2>4
      <4> QED BY <2>4, <4>1, Percentages
    <3>3. (100 * (step[s].index + 1)) \div WorkOf(s).steps \in 0 .. 100
      <4>1. step[s].index + 1 \in 0 .. WorkOf(s).steps
        BY <2>4
      <4> QED BY <2>4, <4>1, Percentages
    <3> QED BY <2>1, <2>2, <3>1, <3>2, <3>3 DEF Percent
  <2> QED BY <2>2, <2>3, <2>4, <2>5
<1>2. ASSUME ProgressInv, [CatalogNext]_<<vars, catalogVars>>
      PROVE  [A]_<<vars, catalogVars>>
  BY <1>1, <1>2
<1> HIDE DEF A
<1>3. CatalogSpec => [][A]_<<vars, catalogVars>>
  BY <1>2, ProgressInvariant, PTL DEF CatalogSpec
<1> QED
  BY <1>3 DEF A, ProgressFallsOnlyOnRestart

=============================================================================
