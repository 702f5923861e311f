\* Two jobs share a worker and the scheduler's batches; one cannot be announced.
SPECIFICATION FairSpec
CONSTANTS
  Workers = {w1}
  Jobs = {j1, j2}
  Unnotifiable = {j2}
  NULL = NULL
  Concurrency = 1
  BatchSize = 2
  AttemptLimits = {1}
  Cancellable = {j2}
  Faults = {"row_locked"}
  MaxCopies = 1
INVARIANTS
  NotificationMatchesOutcome
  DeadLetterAtMostOnce
PROPERTIES
  EventuallyTerminal
