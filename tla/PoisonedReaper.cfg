\* The end of one job cannot be stored; another one shares its batch.
SPECIFICATION FairSpec
CONSTANTS
  Workers = {w1}
  Jobs = {j1, j2}
  Unnotifiable = {j2}
  NULL = NULL
  Concurrency = 1
  BatchSize = 2
  AttemptLimits = {1}
  Cancellable = {}
  Faults = {"execute_error"}
  MaxCopies = 1
PROPERTIES
  EventuallyTerminal
