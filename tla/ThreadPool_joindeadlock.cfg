SPECIFICATION PoolFairSpec
\* Clients may stop calling at any time.
CHECK_DEADLOCK FALSE
CONSTANTS
  Clients = {c1}
  Tasks = {k1}
  MinThreads = 1
  MaxThreads = 1
  InitialThreads = 1
  MaxQueueSize = 0
  ThreadBound = 1
  IdleTimeout = TRUE
  PoolOps = {"Shutdown", "ShutdownNow"}
  NoTask = NoTask
PROPERTY
  ShutdownReturns
