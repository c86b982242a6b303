CONSTANTS
  Requests = {r1}
  Creds = {c1, c2}
  Keys = {k1}
  None = None
  Modes = {"plain", "fillFirst", "content"}
  MaxRetries = 1
  Procs = {p1, p2}
  PoolCreds = {c1}
  Threshold = 1
  MaxClock = 1
  PoolMixes = {{"fail", "admin"}, {"fail", "queue"}, {"unauth", "admin"}, {"reject", "queue"}, {"import", "unauth"}, {"sync", "success"}, {"select", "unauth"}}
  OpenCodeMixes = {{"fail", "admin", "rescore"}, {"fail", "queue"}, {"reject", "rescore", "admin"}, {"reject", "queue"}, {"fail", "sync", "success"}, {"select", "reject"}}
SPECIFICATION ServingSpec
INVARIANTS
  ServingTypeOK
  OneAnswer
  ReportsMatchAttempts
PROPERTIES
  GraceOnce
  UnbindsItsOwn
  RequestsEnd
  PoolsBackOnlyIfMissed
SYMMETRY Symmetry
CHECK_DEADLOCK FALSE
