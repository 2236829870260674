\* The process has ended when the first load failed, and the watcher when it
\* was stopped.
CHECK_DEADLOCK FALSE
SPECIFICATION ObserverFairSpec
CONSTANTS
  Policy = {p1, p2}
  Blank = Blank
  Malformed = Malformed
  Missing = Missing
  MaxTime = 4
INVARIANTS
  FreshWhenSettled
  ObserverInv
PROPERTIES
  PolicyCatchesUp
