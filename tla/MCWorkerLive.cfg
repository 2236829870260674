SPECIFICATION FairSpec
CONSTANTS
  Event = {e1, e2}
  Handler = {h1}
  Anchor = anchor
  Capacity = 1
  MaxDrain = 1
  MaxBlockAttempts = 1
  MaxSignalBatches = 2
  NoEvent = NoEvent
  Outcome = {"ok", "error", "panic"}
PROPERTIES
  AcceptedIsHandled
  ShutdownEnds
