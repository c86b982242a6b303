SPECIFICATION Spec
CONSTANTS
  Procs = {t1, t2}
  Entries = {e1, e2}
  NoEntry = NoEntry
  Ops = {"cached", "disable"}
  MaxToken = 2
  MaxDue = 0
PROPERTIES
  DisabledStaysDisabled
CHECK_DEADLOCK FALSE
