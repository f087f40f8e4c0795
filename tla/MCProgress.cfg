SPECIFICATION AllSpec
\* Callers may stop calling at any time.
CHECK_DEADLOCK FALSE
CONSTANTS
  Threads = {t1, t2, t3}
  Writers = {t1}
  Slots = {1}
  U64Max = 3
  Ranges <- Ranges_
  Waits = {"kForever"}
  Null = Null
  IdGuards = {c1, c2, c3}
  Ids = {i1, i2}
  Addrs = {a1, a2}
  NoEntry = NoEntry
  Spinners = {t1, t2, t3, t4}
  Rate = 2
  Cap = 5
  Amounts = {1, 4}
  MaxTime = 5
  MaxCredit = 6
  Clients = {c1, c2}
  Tasks = {k1}
  MinThreads = 2
  MaxThreads = 2
  InitialThreads = 2
  MaxQueueSize = 0
  ThreadBound = 2
  IdleTimeout = FALSE
  PoolOps = {"Pause", "Resume", "Shutdown", "ShutdownNow"}
  NoTask = NoTask
INVARIANTS
  GrantableIsAwake
  PointersAlive
  RefCountsExact
  MutualExclusion
  RateConforms
PROPERTIES
  WriterNotStarved
  ImplementsRWLocks
  ImplementsRateBucket
  QueuedTasksRun
  ShutdownReturns
