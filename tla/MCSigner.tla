------------------------------ MODULE MCSigner ------------------------------
(* Signer for TLC.  Keys are interchangeable, and so are the handlers of   *)
(* the admin API.                                                          *)
EXTENDS Signer, TLC

KeyRekeyerSymmetry == Permutations(Key) \cup Permutations(Rekeyer)
=============================================================================
