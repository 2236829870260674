\* The supply of keys and of events is finite: the system stops when both are
\* used up.
CHECK_DEADLOCK FALSE
SPECIFICATION LedgerSpec
CONSTANTS
  Key = {k1, k2}
  Rekeyer = {r1}
  Command = {}
  Task = {t1}
  MaxEvents = 4
  MaxEventRows = 10
  NoKey = NoKey
  Torn = Torn
  NoTask = NoTask
  NoRow = NoRow
SYMMETRY LedgerSymmetry
INVARIANTS
  StrictSequence
