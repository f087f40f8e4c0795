SPECIFICATION Spec
CHECK_DEADLOCK FALSE
CONSTANTS
  Consumers = {c1, c2}
  Blocks = {b1, b2, b3}
  BLOCK_SIZE = 2
  IndexWidth = 4
  StartIndices = {0, 14}
  MaxDequeue = 2
  MaxEnqueued = 5
  MaxCalls = 2
  MaxThrows = 1
  NoBlock = NoBlock
  NoElement = NoElement
  EXPLICIT_INITIAL_INDEX_SIZE = 2
  BulkSizes = {3}
  CtorMayThrow = {FALSE}
  IndexMayGrow = {TRUE, FALSE}
  IMPLICIT_INITIAL_INDEX_SIZE = 2
  ImBulkSizes = {3}
  ImCtorMayThrow = {TRUE, FALSE}
  ImIndexMayGrow = {TRUE, FALSE}
  PoolThreads = {c1, c2, p}
  Nodes = {n1, n2}
  NoNode = NoNode
INVARIANT
  FailedBulkIsHarmless
