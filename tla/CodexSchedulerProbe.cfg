SPECIFICATION Spec
CONSTANTS
  Procs = {p1, p2}
  Creds = {c1}
  Tiers = {t1, t2}
  None = None
  Ops = {"queue", "update", "select", "success"}
  LogStore = FALSE
  DBFails = FALSE
  SemLimit = 2
  Threshold = 2
  MaxClock = 0
SYMMETRY Symmetry
INVARIANTS
  TypeOK
  ProbesAccounted
PROPERTIES
  LiftedOnlyIfMissed
CHECK_DEADLOCK FALSE
