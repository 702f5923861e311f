\* One job, two workers of one loop each, every failure.
SPECIFICATION Spec
CONSTANTS
  Workers = {w1, w2}
  Jobs = {j1}
  Unnotifiable = {}
  NULL = NULL
  Concurrency = 1
  BatchSize = 1
  AttemptLimits = {1, 2, 3}
  Cancellable = {j1}
  Faults = {"worker_crash", "execute_error", "tick_error", "row_locked", "redis_restart"}
  MaxCopies = 2
SYMMETRY WorkerSymmetry
INVARIANTS
  TypeOK
  NotificationMatchesOutcome
  LeaseDiscipline
  NothingStranded
  CancellationIsFinal
  DeliveredIsDispatched
  AttemptsAudited
  SingleWinner
  TimelineFollowsStatus
  DeadLetterAtMostOnce
  Fencing
  AttemptsBounded
PROPERTIES
  TerminalIsFinal
  ImplementsLifecycle
