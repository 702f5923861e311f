\* Four requests of two users, with failures.
SPECIFICATION Spec
CONSTANTS
  Requests = {r1, r2, r3, r4}
  Users = {u1, u2}
  Keys = {k1}
  NULL = NULL
  MaxInFlight = 1
  Connections = 2
  ApiFaults = {"request_error"}
SYMMETRY RequestSymmetry
CHECK_DEADLOCK FALSE
INVARIANTS
  TypeOK
  SameKeySameJob
  ConflictIsResolved
  OvershootBounded
