SPECIFICATION Spec
CONSTANTS
  Handles = {h1, h2}
  Admins = {}
  Builds = {TRUE}
  MaxPending = 1
  Requests = {}
  MaxCommits = 0
  MaxRequests = 0
  MaxTimer = 0
  Batches = 0

INVARIANT
  CloseDestroysHandles
