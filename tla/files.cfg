SPECIFICATION PartSpec
CONSTANTS
  Handles = {h1, h2}
  NoOwner = NoOwner
  Slots = {1, 2}
  Values = {0, 1}
  InitValue = 0
  StartNodes = 1
  NodesPerBatch = 1
  MaxId = 3
  MaxOps = 2
  MaxCommits = 2
  MaxDumps = 1
  MaxNodes = 2
  MaxFiles = 3
  MaxStarts = 3
  ByteBits = 4
  WordBytes = 2
  StString = 5
  Texts <- SomeTexts
  Numbers = {0, 9, 17}
  WriteBuffer = 40
  MaxElements = 2
  MaxTokens = 3
  PowerLoss = TRUE
  MemoryOnly = TRUE
  Parts = {"dump", "files", "format"}
SYMMETRY Symmetry
INVARIANTS
  ChainLoads
  DumpIsState
  RefusedOnlyForEarlyCreation
  FilesHoldAll
  ReadOnlyReasons
  AppendsToLast
  RescuedIsWhole
PROPERTY
  RecoveryIsPrefixUnless
