SPECIFICATION Spec
CONSTANTS
  Procs = {p1}
  Creds = {c1}
  Tiers = {t1}
  None = None
  Ops = {"fail", "select"}
  LogStore = TRUE
  DBFails = FALSE
  SemLimit = 1
  Threshold = 2
  MaxClock = 0
INVARIANTS
  FailureOnlyWeighs
CHECK_DEADLOCK FALSE
