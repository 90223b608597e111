CONSTANTS
  j1 = j1
  Ids = {j1}
  Buckets = {b1}
  NoBucket = NoBucket
  NoId = NoId
  Periodic <- NoPeriodic
  Ttl <- AllTtl1
  Retries <- Retry2
  CronNext <- Cron
  MaxTime = 5
  Nodes = {n1, n2}
  Slots = {s1}
  Clients = {c1}
  Ops = {"stop"}
  Delays = {0, 1}
  MaxCalls = 1
  MaxReady = 2
  MaxStarts = 0
  MaxCrash = 1
  MaxDown = 1
  Parts = 1
  j2 = j2
SPECIFICATION FairSpec
PROPERTIES OneShotSettles
CHECK_DEADLOCK FALSE
