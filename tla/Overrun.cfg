CONSTANTS
  j1 = j1
  Ids = {j1}
  Buckets = {b1}
  NoBucket = NoBucket
  NoId = NoId
  Periodic <- OnlyJ1
  Ttl <- AllTtl1
  Retries <- Retry1
  CronNext <- Cron
  MaxTime = 4
  Nodes = {n1}
  Slots = {s1}
  Clients = {c1}
  Ops = {}
  Delays = {0, 1}
  MaxCalls = 0
  MaxReady = 2
  MaxStarts = 0
  MaxCrash = 0
  MaxDown = 0
  Parts = 1
  j2 = j2
SPECIFICATION Spec
INVARIANTS NotConsumedTwice
CHECK_DEADLOCK FALSE
