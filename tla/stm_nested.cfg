SPECIFICATION FairSpec
CONSTANTS
  Handles = {h1, h2}
  Nodes = {x}
  Values = {v0, v1}
  InitValue = v0
  Builds = {FALSE}
  CommitTypes = {"ASYNC", "SYNC"}
  Calls = {"trRead", "tr_node_write"}
  MaxBegins = 2
  MaxLog = 2
  MaxNest = 1
INVARIANTS
  CleanMemory
  UndoRestores
  SavepointIntact
  WishKept
PROPERTIES
  EndingEnds
  ImplementsAtomicStore
