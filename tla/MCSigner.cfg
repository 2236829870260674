\* The supply of keys is finite: a server that is down stays down once it is
\* used up and the key file does not decode.
CHECK_DEADLOCK FALSE
SPECIFICATION SignerSpec
CONSTANTS
  Key = {k1, k2, k3, k4}
  Rekeyer = {r1, r2}
  Command = {"verify", "backup-key", "restore-key"}
  NoKey = NoKey
  Torn = Torn
SYMMETRY KeyRekeyerSymmetry
INVARIANTS
  HalvesAgree
  KeyIsSaved
  SignerInv
