CONSTANTS
  j1 = j1
  Ids = {j1, j2}
  Buckets = {b1}
  NoBucket = NoBucket
  NoId = NoId
  Periodic <- NoPeriodic
  Ttl <- AllTtl1
  Retries <- Retry1or0
  CronNext <- Cron
  MaxTime = 3
  Nodes = {n1, n2}
  Slots = {s1}
  Clients = {c1}
  Ops = {"stop", "delete"}
  Delays = {0, 1}
  MaxCalls = 1
  MaxReady = 2
  MaxStarts = 3
  MaxCrash = 1
  MaxDown = 1
  Parts = 1
  j2 = j2
  job = j1
SYMMETRY Symmetry
SPECIFICATION Spec
INVARIANTS TypeOK HomeBucket OnePlace StartsBounded OverlapOnlyAfterTtl PoppedJobHasSlot StatusMatchesPlace
PROPERTIES ImplementsToken RefusedIsOver
CHECK_DEADLOCK FALSE
