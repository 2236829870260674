SPECIFICATION EvidenceSpec
CONSTANTS
  Command = {c1, c2}
  Server = Server
  MaxCommits = 3
SYMMETRY EvidenceSymmetry
INVARIANTS
  ReportIsOrdered
  BagIsComplete
  EvidenceInv
