SPECIFICATION Spec
CONSTANTS
  Handles = {h1}
  Admins = {}
  Builds = {TRUE}
  MaxPending = 1
  Requests = {}
  MaxCommits = 2
  MaxRequests = 0
  MaxTimer = 0
  Batches = 0

PROPERTY
  SyncReturnDurable
