SPECIFICATION FairSpec
CONSTANTS
  Handles = {h1}
  Admins = {a1, a2}
  Builds = {TRUE, FALSE}
  MaxPending = 1
  Requests = {"START_DUMP", "CREATE_NEW_FILE", "COLLECT_GARBAGE", "PAUSE", "WAIT_FOR_DUMP"}
  MaxCommits = 1
  MaxRequests = 2
  MaxTimer = 0
  Batches = 1
INVARIANTS
  DumpAwaited
  SignalsMatched
  CloseLosesNothing
PROPERTY
  EveryCallReturns
