SPECIFICATION Spec
CONSTANTS
  Handles = {h1, h2}
  Admins = {a1}
  Builds = {TRUE, FALSE}
  MaxPending = 1
  Requests = {"CREATE_NEW_FILE"}
  MaxCommits = 2
  MaxRequests = 1
  MaxTimer = 1
  Batches = 0
SYMMETRY Symmetry
INVARIANTS
  NoPostToDestroyed
  PendingBound
  StreamComplete
PROPERTY
  SyncReturnDurableUnlessFailed
