---------------------------- MODULE MCTelemetry ----------------------------
(* The event pool and the metrics for TLC.                                 *)
EXTENDS Telemetry, TLC

TelemetrySymmetry == Permutations(Obj) \cup Permutations(Client)
=============================================================================
