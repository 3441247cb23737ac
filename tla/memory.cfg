SPECIFICATION MemorySpec
CONSTANTS
  Parts = {"list", "pages", "reclaim", "nodes", "references", "dictionary", "stacks", "array"}
  FirstObject = n1
  Threads = {t1, t2}
  Items = {n1, n2, n3}
  PageThreads = {t1, t2}
  Pages = {n1, n2, n3, n4, n5}
  PageThreshold = 4
  CacheKinds = {"page", "simple"}
  Clients = {t1, t2}
  Objects = {n1, n2}
  MaxClock = 3
  NodeWorkers = {t1, t2}
  VPages = {m1, m2}
  Slots = {m1, m2}
  PoolLimit = 0
  MaxTime = 3
  RefHandles = {t1, t2}
  RefNodes = {m1, m2, n1}
  WithPointer = {m1, m2}
  Null = Null
  MaxRefLog = 4
  Keys = {0, 1, 3, 6}
  Vals = {v0}
  Cells = {m1, m2, n1, n2}
  CellsPerPage = 2
  Capacities <- SomeCapacities
  HashFactor = 2
  StackNames = {m1, m2}
  BlockPages = {n1, n2, n3}
  BlockSize = 2
  StackItems = {"x", "y"}
  MinSize = 1
  MaxDepth = 3
  MaxMarks = 2
CHECK_DEADLOCK FALSE
SYMMETRY Symmetry
INVARIANTS
  CounterExact
  CacheBounded
  HeldIsLive
  RoomIsLast
  PoolDrift
  StaleReadsFailUnlessEarly
  CountsAreExact
  NoDanglingPointer
  DictionaryIsMap
  StacksHold
PROPERTY
  ListImplements
