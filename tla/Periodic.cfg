CONSTANTS
  j1 = j1
  Ids = {j1}
  Buckets = {b1}
  NoBucket = NoBucket
  NoId = NoId
  Periodic <- OnlyJ1
  Ttl <- AllTtl1
  Retries <- Retry1
  CronNext <- EverySecond
  MaxTime = 2
  Nodes = {n1, n2}
  Slots = {s1}
  Clients = {c1}
  Ops = {"stop"}
  Delays = {0}
  MaxCalls = 1
  MaxReady = 1
  MaxStarts = 0
  MaxCrash = 1
  MaxDown = 0
  Parts = 1
  j2 = j2
  cron = j1
SPECIFICATION FairSpec
INVARIANT PeriodicNeverLost
PROPERTIES PeriodAdvances CronRenewed ImplementsTimer
CHECK_DEADLOCK FALSE
