\* The process may end in a panic, and the calls of GetEvent are bounded.
CHECK_DEADLOCK FALSE
SPECIFICATION TelemetrySpec
CONSTANTS
  Obj = {o1, o2, o3, o4}
  Client = {p1}
  NoObj = NoObj
  QueueSize = 1
  MaxGets = 2
  Buckets = 2
SYMMETRY TelemetrySymmetry
INVARIANTS
  EventHasOneOwner
  NothingLeaks
  PoolInv
  LatencyBalance
  ScrapeIsConsistent
