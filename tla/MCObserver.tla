------------------------------ MODULE MCObserver ------------------------------
(* Observer for TLC: two policies, so that an edit can replace one by the  *)
(* other, and four modification times.                                     *)
EXTENDS Observer
=============================================================================
