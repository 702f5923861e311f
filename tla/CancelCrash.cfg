\* A worker dies while it should stop a job.
SPECIFICATION FairSpec
CONSTANTS
  Workers = {w1, w2}
  Jobs = {j1}
  Unnotifiable = {}
  NULL = NULL
  Concurrency = 1
  BatchSize = 1
  AttemptLimits = {1}
  Cancellable = {j1}
  Faults = {"worker_crash"}
  MaxCopies = 1
PROPERTIES
  CancelResolves
