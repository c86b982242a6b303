SPECIFICATION Spec
CONSTANTS
  Procs = {p1}
  Creds = {c1}
  Tiers = {t1}
  None = None
  Ops = {"unauth", "select"}
  LogStore = FALSE
  DBFails = FALSE
  SemLimit = 1
  Threshold = 2
  MaxClock = 0
PROPERTIES
  ValidatedReturns
CHECK_DEADLOCK FALSE
