SPECIFICATION Spec
CONSTANTS
  Procs = {p1, p2}
  Creds = {c1}
  Tiers = {t1}
  None = None
  Ops = {"unauth", "reject", "select", "admin", "sync"}
  LogStore = FALSE
  DBFails = TRUE
  SemLimit = 1
  Threshold = 2
  MaxClock = 0
SYMMETRY Symmetry
INVARIANTS
  NoStuckValidation
  JoinersHaveLeader
PROPERTIES
  OneValidation
  ReadmittedOnlyIfMissed
CHECK_DEADLOCK FALSE
