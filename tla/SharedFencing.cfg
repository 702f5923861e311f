\* The loops of a worker share its id.
SPECIFICATION Spec
CONSTANTS
  Workers = {w1}
  Jobs = {j1}
  Unnotifiable = {}
  NULL = NULL
  Concurrency = 2
  BatchSize = 1
  AttemptLimits = {2}
  Cancellable = {}
  Faults = {}
  MaxCopies = 1
INVARIANTS
  Fencing
