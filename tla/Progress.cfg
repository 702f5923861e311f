\* Every failure, and still the job ends.
SPECIFICATION FairSpec
CONSTANTS
  Workers = {w1, w2}
  Jobs = {j1}
  Unnotifiable = {}
  NULL = NULL
  Concurrency = 1
  BatchSize = 1
  AttemptLimits = {1, 2}
  Cancellable = {}
  Faults = {"worker_crash", "execute_error", "tick_error", "row_locked", "redis_restart"}
  MaxCopies = 1
PROPERTIES
  EventuallyTerminal
  EventuallyQuiet
