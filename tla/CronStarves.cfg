CONSTANTS
  j1 = j1
  Ids = {j1, j2}
  Buckets = {b1}
  NoBucket = NoBucket
  NoId = NoId
  Periodic <- AllIds
  Ttl <- AllTtl1
  Retries <- Retry1
  CronNext <- Cron
  MaxTime = 3
  Nodes = {n1}
  Slots = {s1}
  Clients = {c1}
  Ops = {"stop"}
  Delays = {0, 1}
  MaxCalls = 1
  MaxReady = 2
  MaxStarts = 0
  MaxCrash = 0
  MaxDown = 0
  Parts = 1
  j2 = j2
SPECIFICATION FairSpec
PROPERTIES CronRenewed
CHECK_DEADLOCK FALSE
