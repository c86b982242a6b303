SPECIFICATION FairSpec
CONSTANTS
  Procs = {p1, p2}
  Creds = {c1}
  Tiers = {t1}
  None = None
  Ops = {"fail", "success", "reject", "sync"}
  LogStore = TRUE
  DBFails = FALSE
  SemLimit = 1
  Threshold = 2
  MaxClock = 0
PROPERTIES
  EligibleReturns
  DisabledLeaves
CHECK_DEADLOCK FALSE
