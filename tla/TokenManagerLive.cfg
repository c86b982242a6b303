SPECIFICATION FairSpec
CONSTANTS
  Procs = {t1, t2}
  Entries = {e1, e2}
  NoEntry = NoEntry
  Ops = {"cached", "forced"}
  MaxToken = 1
  MaxDue = 1
PROPERTIES
  EveryCallReturns
CHECK_DEADLOCK FALSE
