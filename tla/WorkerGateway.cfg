SPECIFICATION FairSpec
CONSTANTS
  j1 = j1
  j2 = j2
  Nobody = Nobody
  NumWorkers = 1
  Credentials = {TRUE, FALSE}
  Jobs = {j1, j2}
  Unsupported = {}
  Grace = 0
  MaxConnections = 3
  MaxFaults = 1
INVARIANTS
  RegisteredIsReachable
  OffersAreKeptOnce
PROPERTIES
  OffersReachSilentWorkers
CHECK_DEADLOCK FALSE
