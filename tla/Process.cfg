CONSTANTS
  MaxStops = 2
  Buckets = {b1, b2}
  Timers = {t1}
  MaxWorker = 2
  MaxJobs = 3
  MaxRequests = 1
  Procs = {p1, p2}
  Step = 2
  Reserve = 1
  MaxBoots = 2
  MaxSeg = 2
  Flush = 5
  Limit = 7
  MaxDue = 10
SPECIFICATION MCSpec
INVARIANTS
  TypeOK
  NoPanic
  ProcTypeOK
  OneLatePop
  UidTypeOK
  BatchesAsOne
  AbortNeedsDuplicate
PROPERTIES
  SlotFreed
  StopReachesHandler
  MonitorEnds
  StopEnds
  QuietAfterStop
  UniqueUnlessRaced
  IdsKeepComing
  ImplementsExecution
CHECK_DEADLOCK FALSE
