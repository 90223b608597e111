CONSTANTS
  j1 = j1
  j2 = j2
  Ids = {j1, j2}
  Buckets <- TwoBuckets
  BucketNum = 2
  NoBucket = NoBucket
  NoId = NoId
  Periodic <- OnlyJ2
  Ttl <- Ttl2
  Retries <- Retry0
  CronNext <- Cron
  MaxTime = 8
  Horizon = 3
  Clients = {c1, c2}
  MaxRetries = 1
  MaxReady = 2
SYMMETRY Symmetry
SPECIFICATION DeliverySpec
INVARIANTS TypeOK NotEarly OneHome AnswerMeansStored Balanced
CHECK_DEADLOCK FALSE
