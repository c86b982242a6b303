SPECIFICATION Spec
CONSTANTS
  Procs = {p1, p2}
  Creds = {c1}
  Tiers = {t1, t2}
  None = None
  Ops = {"queue", "update", "select"}
  LogStore = FALSE
  DBFails = FALSE
  SemLimit = 1
  Threshold = 2
  MaxClock = 0
PROPERTIES
  TierIsolation
CHECK_DEADLOCK FALSE
