CONSTANTS
  j1 = j1
  Ids = {j1}
  Buckets = {b1, b2}
  NoBucket = NoBucket
  NoId = NoId
  Periodic <- OnlyJ1
  Ttl <- AllTtl1
  Retries <- Retry1
  CronNext <- Cron
  MaxTime = 1
  Nodes = {n1}
  Slots = {s1}
  Clients = {c1}
  Ops = {"stop", "recover", "delete"}
  Delays = {0, 1}
  MaxCalls = 3
  MaxReady = 1
  MaxStarts = 0
  MaxCrash = 0
  MaxDown = 0
  Parts = 1
  j2 = j2
SYMMETRY Symmetry
SPECIFICATION Spec
INVARIANTS NoGhostJobs ResultMeansDone ScriptsTotal
CHECK_DEADLOCK FALSE
