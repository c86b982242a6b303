CONSTANTS
  Readers = {r1}
  Buckets = {p1}
  Elements = {e1, e2}
  MaxLen = 2
  Creds = {c1, c2}
  None = None
  HeapThreshold = 1
  MaxBind = 3
  MaxItems = 3
  MaxParts = 2
  Rows = {q1}
  Intervals = {1, 2}
  MaxReloads = 1
  MaxClock = 2
  Admins = {e1, e2}
  Ids = {i1}
  Providers = {"codex", "gemini", "antigravity", "opencode"}
  MaxWrites = 3
  MaxTicks = 4
  Servers = {c1, c2}
  Slots = {1, 2}
  Keys = {e1, e2}
  MaxRequests = 2
  Limits = {1, 3}
  Retention = 1
  CompactAt = 2
  MaxLogClock = 2
  MaxTokens = 3
  MaxWorkers = 2
  NoEntry = NoEntry
  Scores = {0, 1, 2, 3}
  MaxRows = 3
  Threshold = 3
  MaxFailures = 6
  Backoffs = {2, 6, 8}
  RetryAfters = {0, 1}
SPECIFICATION TablesSpec
INVARIANTS
  TablesTypeOK
  LookupFindsNearest
  TrieInOrder
  StreamTellsAll
  AsleepOnCurrentInterval
  StoresAgree
  DeadlineCoversThrottles
  CacheIsCurrent
  CompletedIsWhole
  ResolutionCurrent
  SchedulingAsDefined
PROPERTIES
  LastAdminKept
  SetupOnlyFirst
  ImplementsFlat
  ImplementsPlainLog
  NoBusyPass
  
SYMMETRY Symmetry
CHECK_DEADLOCK FALSE
