------------------------------ MODULE EventLog ------------------------------
(***************************************************************************)
(* What the ledger promises to those who read it (ARCHITECTURE.md, section *)
(* Storage): one log of events that only grows, one event at a time, in    *)
(* which each event has the index of its place and a hash that extends the *)
(* hash of the event before it.  The promise about places and hashes ends  *)
(* when the log is shared: when a second goroutine may be storing events.  *)
(***************************************************************************)
EXTENDS Naturals, Sequences

CONSTANT Origin  \* the hash that the first event extends

VARIABLES log, shared

LogInit == log = <<>> /\ shared = FALSE

\* The hash that the next event extends.
Tip(rows) == IF rows = <<>> THEN Origin ELSE rows[Len(rows)].hash

\* Row e continues rows.  A hash is the sequence of what it commits to.
Continues(rows, e) ==
  /\ e.seq = Len(rows)
  /\ e.prev = Tip(rows)
  /\ Len(e.hash) = Len(e.prev) + 1 /\ SubSeq(e.hash, 1, Len(e.prev)) = e.prev

Store ==
  /\ Len(log') = Len(log) + 1
  /\ log' = Append(log, log'[Len(log) + 1])
  /\ shared \/ Continues(log, log'[Len(log) + 1])
  /\ UNCHANGED shared

Share == shared' = TRUE /\ UNCHANGED log

LogNext == Store \/ Share

LogSpec == LogInit /\ [][LogNext]_<<log, shared>>
=============================================================================
