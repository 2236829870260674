\* The requests are finite in number: the model stops when all are answered.
CHECK_DEADLOCK FALSE
SPECIFICATION InterceptorSpec
CONSTANTS
  Request = {r1, r2}
  Buffer = {b1, b2}
  t1 = t1
  Body <- MCBody
  Reply <- MCReply
  Policies <- MCPolicies
  MaxEventRows = 3
  MaxRoots = 2
  MaxChildren = 1
  MaxTraceNodes = 3
  NoTask = NoTask
  NoBuffer = NoBuffer
  NoEvent = NoEvent
  NoParams = NoParams
SYMMETRY RequestBufferSymmetry
INVARIANTS
  BufferExclusive
  RecordsOwnBody
  InterceptorInv
  TagFollowsPolicy
  TraceShowsDescendants
