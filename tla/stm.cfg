SPECIFICATION Spec
CONSTANTS
  Handles = {h1, h2}
  Nodes = {x, y}
  Values = {v0, v1}
  InitValue = v0
  Builds = {TRUE, FALSE}
  CommitTypes = {"ASYNC"}
  Calls = {"trRead", "trUncheckedRead", "trWrite", "tr_node_write"}
  MaxBegins = 2
  MaxLog = 1
  MaxNest = 0
SYMMETRY Symmetry
INVARIANTS
  TypeOK
  LockDiscipline
  SnapshotReads
  SerialClock
  SerialQueue
  ReadyIsDecided
PROPERTY
  ImplementsAtomicStore
