SPECIFICATION AllSpec
\* Clients may stop calling and items run out.
CHECK_DEADLOCK FALSE
SYMMETRY Symmetry
CONSTANTS
  Threads = {c1, c2}
  Writers = {c1, c2}
  Slots = {1, 2}
  U64Max = 3
  Ranges <- Ranges_
  Waits = {"kForever", "deadline", "no_wait"}
  Null = Null
  Clients = {c1, c2}
  Tasks = {k1, k2}
  MinThreads = 0
  MaxThreads = 1
  InitialThreads = 0
  MaxQueueSize = 1
  ThreadBound = 3
  IdleTimeout = TRUE
  PoolOps = {"WaitForTasks", "Pause", "Resume", "Shutdown", "ShutdownWait", "ShutdownNow", "Resize"}
  NoTask = NoTask
  i1 = i1
  i2 = i2
  i3 = i3
  Items <- Items_
  Level <- Level_
  Levels = 2
  Quota <- Quota_
  Producers = {c1, c2}
  Consumers = {k1, k2}
  Admins = {a1}
  MaxDepth = 1
  MaxTotal = 2
  OverflowPolicies = {"kDrop", "kDropOldest"}
  SizeMax = 7
  RateLimited = TRUE
  Expiry = TRUE
  QosOps = {"Start"}
  None = None
INVARIANTS
  EntriesMatchGuards
  NoConflictingHolders
  TasksConserved
  LimitsHold
  DepthExact
  OvershootBounded
PROPERTIES
  WaitLeavesOnlyUnstarted
