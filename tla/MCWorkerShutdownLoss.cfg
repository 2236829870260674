SPECIFICATION Spec
CONSTANTS
  Event = {e1, e2, e3}
  Handler = {h1, h2}
  Anchor = anchor
  Capacity = 2
  MaxDrain = 2
  MaxBlockAttempts = 1
  MaxSignalBatches = 4
  NoEvent = NoEvent
  Outcome = {"ok"}
SYMMETRY EventHandlerSymmetry
INVARIANTS
  NoDataLossOnShutdown
