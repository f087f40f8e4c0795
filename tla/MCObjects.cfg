SPECIFICATION Spec
\* Callers may stop at any time, and the budget of calls runs out.
CHECK_DEADLOCK FALSE
SYMMETRY Symmetry
CONSTANTS
  Arenas = {a1, a2}
  MarkSlots = {k1, k2}
  InitialSize = 4
  Factors = {0}
  Header = 2
  MallocAlign = 4
  Requests <- Requests_
  MaxBlocks = 3
  MaxLive = 3
  Buffers = {b1, b2, b3}
  Inputs <- Inputs_
  Amounts = {1}
  Slack = 1
  MaxBytes = 2
  ByteCalls = 6
  RingCalls = 7
  AllCalls = 6
  Threads = {t1, t2}
  Guards = {g1, g2}
  Functors = {f1, f2, f3}
  NoFn = NoFn
  MaxNesting = 2
  MaxTime = 2
  MaxId = 3
  Delays = {1, 2}
  Recurring = TRUE
  Period = 1
  Interval = 1
  Callers = {c1, c2}
  Monitors = {m1, m2}
  Pids = {1, 2}
  Configs <- Configs_
  BackoffInitial = 3
  BackoffMax = 4
  MultiplierNum = 3
  MultiplierDen = 2
  SleepSlice = 2
  MaxCount = 2
  ShutdownOps = {"Shutdown", "ShutdownNow"}
INVARIANTS
  RunsDoNotOverlap
  ArenaIntact
  BufferIntact
  ReadsItsText
  AtMostOnce
  MonitorIntact
PROPERTIES
  RewindRestores
  CancelTakesEffect
