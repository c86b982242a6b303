SPECIFICATION Spec
CONSTANTS
  Procs = {t1, t2}
  Entries = {e1, e2}
  NoEntry = NoEntry
  Ops = {"cached", "forced", "admin", "prune"}
  MaxToken = 2
  MaxDue = 0
SYMMETRY Symmetry
INVARIANTS
  TypeOK
  CacheWasPersisted
  OneRefresherPerEntry
  NoOrphanWaiter
  ConcurrentRefreshNeedsDrop
CHECK_DEADLOCK FALSE
