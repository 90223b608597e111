CONSTANTS
  Procs = {p1, p2}
  Step = 2
  Reserve = 1
  MaxBoots = 2
  MaxSeg = 2
SPECIFICATION UidSpec
PROPERTY UniqueIds
CHECK_DEADLOCK FALSE
