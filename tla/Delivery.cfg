\* Two scheduler processes, and every failure.
SPECIFICATION FairSpec
CONSTANTS
  Notifications = {n1, n2, n3}
  Webhooks = {n2, n3}
  Unparsable = {n3}
  Dispatchers = {d1, d2}
  DeliveryBatch = 2
  MaxDeliveries = 2
  DeliveryFaults = {"answer_lost", "tick_error"}
  MaxReceived = 3
CHECK_DEADLOCK FALSE
INVARIANTS
  TypeOK
  OneDispatcherPerRow
  OutcomeIsEarned
  CallsAreCounted
  NotifiedTwiceOnlyAfterLoss
PROPERTIES
  SettledUnlessPoisoned
