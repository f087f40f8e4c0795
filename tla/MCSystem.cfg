SPECIFICATION Spec
\* Callers may stop calling at any time.
CHECK_DEADLOCK FALSE
CONSTANTS
  Callers = {c1}
  Monitors = {m1, m2}
  Pids = {1, 2}
  Configs <- Configs_
  BackoffInitial = 3
  BackoffMax = 4
  MultiplierNum = 3
  MultiplierDen = 2
  SleepSlice = 2
  MaxCount = 3
  PopenOptions <- PopenOptions_
  PipeSize = 2
  ReadBuffer = 1
  MaxWritten = 2
  Users = {u1, u2}
  Owners = {u1}
  Samplers = {u2}
  Domains = {"cpu", "load"}
  TTL = 1
  MaxTime = 1
  MaxInvalidations = 1
  IgnoredFs = {"tmpfs"}
  TopLimit = 1
INVARIANTS
  PopenIntact
  InvalidateForcesRefetch
  TablesExact
PROPERTIES
  WaitsEnd
  ReadingsMoveForward
