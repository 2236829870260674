\* The supply of keys and of events is finite: the system stops when both are
\* used up.
CHECK_DEADLOCK FALSE
SPECIFICATION LedgerSpec
CONSTANTS
  Key = {k1, k2}
  Rekeyer = {r1}
  Command = {}
  Task = {t1, t2}
  MaxEvents = 4
  MaxEventRows = 4
  NoKey = NoKey
  Torn = Torn
  NoTask = NoTask
  NoRow = NoRow
SYMMETRY LedgerSymmetry
INVARIANTS
  ChainUnlessTimedOut
  NoFalseAlarm
  RunRecordMatches
  NormalRunVerifies
  ForkIsDetected
  
  CompletionIsJustified
  LedgerInv
PROPERTIES
  ImplementsLog
