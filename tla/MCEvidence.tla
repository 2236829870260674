----------------------------- MODULE MCEvidence -----------------------------
(* The evidence bag and the statistics for TLC.                            *)
EXTENDS Evidence, TLC

EvidenceSymmetry == Permutations(Command)
=============================================================================
