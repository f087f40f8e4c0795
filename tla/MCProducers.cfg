SPECIFICATION Spec
\* The numbers of calls are bounded.
CHECK_DEADLOCK FALSE
CONSTANTS
  e1 = e1
  e2 = e2
  e3 = e3
  d1 = d1
  d2 = d2
  Enqueuers = {e1, e2, e3}
  TokenUsers = {e1, e2}
  HashIds <- HashIds_
  HashSize = 2
  Readers = {d1, d2}
  TokenReaders = {d1}
  InitialOffsets <- InitialOffsets_
  RotationQuota = 2
  Bulk = 2
  Bounds <- Bounds_
  NoThread = NoThread
  Items = {i1, i2}
  Level <- Level_
  Levels = 2
  Quota <- Quota_
  Producers = {p1, p2}
  Consumers = {c1}
  Admins = {a1}
  MaxDepth = 1
  MaxTotal = 0
  OverflowPolicies = {"kBlock"}
  SizeMax = 7
  RateLimited = FALSE
  Expiry = TRUE
  QosOps = {"Start", "Stop", "Pause", "Resume"}
  None = None
INVARIANTS
  ProducersIntact
  HashIntact
  EmptyMeansAllTried
PROPERTIES
  WaitsEnd
  DrainedByStop
