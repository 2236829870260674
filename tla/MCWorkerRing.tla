---------------------------- MODULE MCWorkerRing ----------------------------
(* WorkerRing for TLC.  Events are interchangeable, and so are handlers. *)
EXTENDS WorkerRing, TLC

EventHandlerSymmetry == Permutations(Event) \cup Permutations(Handler)
=============================================================================
