\* Nothing fails, and there is a second attempt.
SPECIFICATION FairSpec
CONSTANTS
  Workers = {w1, w2}
  Jobs = {j1}
  Unnotifiable = {}
  NULL = NULL
  Concurrency = 1
  BatchSize = 1
  AttemptLimits = {2}
  Cancellable = {j1}
  Faults = {}
  MaxCopies = 1
PROPERTIES
  CancelResolves
