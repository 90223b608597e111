CONSTANTS
  j1 = j1
  Ids = {j1}
  Buckets = {b1}
  NoBucket = NoBucket
  NoId = NoId
  Periodic <- NoPeriodic
  Ttl <- AllTtl2
  Retries <- Retry1
  CronNext <- Cron
  MaxTime = 4
  Nodes = {n1}
  Slots = {s1, s2}
  Clients = {c1}
  Ops = {"stop", "delete"}
  Delays = {0}
  MaxCalls = 1
  MaxReady = 2
  MaxStarts = 3
  MaxCrash = 0
  MaxDown = 0
  Parts = 2
  j2 = j2
  MaxQueries = 1
SYMMETRY Symmetry
SPECIFICATION QuerySpec
INVARIANTS FinalAnswerWhole OverlapOnlyAfterTtl
PROPERTIES ErrorIsARace
CHECK_DEADLOCK FALSE
