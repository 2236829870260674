------------------------------ MODULE MCWorker ------------------------------
(* Worker for TLC.  Events are interchangeable, and so are handlers. *)
EXTENDS Worker, TLC

EventHandlerSymmetry == Permutations(Event) \cup Permutations(Handler)
=============================================================================
