SPECIFICATION FairSpec
CONSTANTS
  Procs = {p1, p2}
  Creds = {c1}
  Tiers = {t1}
  None = None
  Ops = {"fail", "sync"}
  LogStore = FALSE
  DBFails = FALSE
  SemLimit = 1
  Threshold = 2
  MaxClock = 1
PROPERTIES
  EligibleReturns
CHECK_DEADLOCK FALSE
