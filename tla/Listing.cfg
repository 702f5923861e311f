\* Three jobs of two users, submitted and moved while one of them is listed.
SPECIFICATION Spec
CONSTANTS
  Ids = {1, 2, 3}
  Users = {u1, u2}
  Types = {sleep, report}
  Statuses = {"pending", "queued", "running"}
  Limits = {1, 2}
  MaxClock = 1
  NULL = NULL
SYMMETRY NameSymmetry
INVARIANTS
  TypeOK
  PagesDescend
  NothingSkipped
