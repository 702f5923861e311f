\* Two workers, two attempts, and failing transactions in the handlers.
SPECIFICATION CatalogFairSpec
CONSTANTS
  Workers = {w1, w2}
  Jobs = {j1}
  Unnotifiable = {}
  NULL = NULL
  Concurrency = 1
  BatchSize = 1
  AttemptLimits = {2}
  Cancellable = {j1}
  Faults = {}
  MaxCopies = 1
  Works <- SmallWorks
  HandlerFaults = {"handler_error"}
INVARIANTS
  CatalogTypeOK
  SucceededShows100
  CancelStopsWork
  OutcomeFitsType
PROPERTIES
  ProgressFallsOnlyOnRestart
  ImplementsOrchestrator
  CooperativeCancel
