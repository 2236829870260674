------------------------------ MODULE MCLedger ------------------------------
(* The ledger and its verification for TLC.                                *)
EXTENDS Audit, TLC

LedgerSymmetry == Permutations(Key) \cup Permutations(Task)
=============================================================================
