SPECIFICATION WorkerRingSpec
CONSTANTS
  Event = {e1, e2, e3}
  Handler = {h1, h2}
  Anchor = anchor
  Capacity = 2
  MaxDrain = 2
  MaxBlockAttempts = 1
  MaxSignalBatches = 2
  NoEvent = NoEvent
  Outcome = {"ok", "error", "panic"}
SYMMETRY EventHandlerSymmetry
INVARIANTS
  NoLostWakeup
  HandledInOrder
  EachHandledOnce
  OneConsumer
  OrderlyShutdownDrains
  WorkerInv
  UncountedAreRefused
  HealthyCountIsExact
  RingHoldsBuffer
PROPERTIES
  ImplementsFifo
