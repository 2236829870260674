-------------------------------- MODULE Audit --------------------------------
(***************************************************************************)
(* What `logyctl verify' and `logyctl events' make of the ledger: the      *)
(* chain verification (internal/ledger/audit/verify.go), the list of the   *)
(* recent events, and the queries of both (internal/ledger/store).         *)
(***************************************************************************)
EXTENDS Ledger

CONSTANTS MaxEventRows  \* the row limit of GetAllEvents

ASSUME AuditAssumption == MaxEventRows \in Nat \ {0}

Least(m, n) == IF m < n THEN m ELSE n

Backwards(rows) == [n \in DOMAIN rows |-> rows[Len(rows) + 1 - n]]

\* The rows that ORDER BY seq_index puts before row i: rows with one index
\* stay in the order in which they were inserted.
Before(rows, i) ==
  {j \in DOMAIN rows : \/ rows[j].seq < rows[i].seq
                       \/ rows[j].seq = rows[i].seq /\ j < i}

OrderBySeq(rows) ==
  [n \in DOMAIN rows |->
     rows[CHOOSE i \in DOMAIN rows : Cardinality(Before(rows, i)) = n - 1]]

\* The rows by sequence index, up to the limit.
GetAllEvents(rows) == SubSeq(OrderBySeq(rows), 1, Least(Len(rows), MaxEventRows))

\* The order is lost: the oldest rows are taken.
GetOldestEvents(rows, limit) ==
  Backwards(SubSeq(GetAllEvents(rows), 1, Least(Len(rows), limit)))

\* So many rows with the largest indices, the last one first.
GetRecentEvents(rows, limit) ==
  SubSeq(Backwards(OrderBySeq(rows)), 1, Least(Least(Len(rows), limit), MaxEventRows))

\* What `logyctl events' lists.
EventsCommand(rows, limit) == Backwards(GetRecentEvents(rows, limit))

VerifyEvent(e, key) == CalculateEventHash(e.prev, e) = e.hash /\ e.key = key

VerifyChainUnlinked(rows, key) ==
  LET all == GetAllEvents(rows)
  IN  [valid |-> all # <<>> /\ \A i \in DOMAIN all : VerifyEvent(all[i], key),
       total |-> Len(all)]

VerifyChain(rows, key) ==
  LET all == GetAllEvents(rows)
  IN  [valid |-> /\ all # <<>>
                 /\ \A i \in DOMAIN all :
                      /\ i > 1 => all[i].prev = all[i - 1].hash
                      /\ VerifyEvent(all[i], key),
       total |-> Len(all)]

-----------------------------------------------------------------------------

(* ROADMAP.md:33: "`logyctl verify` passes after a normal run".  Without a *)
(* rotation and without two goroutines in ProcessEvent, the key that the   *)
(* running server loaded verifies all it has in the ledger, also after     *)
(* crashes while the key, the run or an event was being written.  This is  *)
(* about runs in which no command is run that writes the key file          *)
(* (Command = {}): verify and restore-key may replace the key.             *)
NormalRunVerifies ==
  (~rotated /\ ~twoConsumers /\ server = "up") =>
    \A r \in DOMAIN events : events[r] # <<>> => VerifyChain(events[r], keyFile).valid

(* VerifyChain finds a chain that forked: a run with two rows of one       *)
(* sequence index, which GetAllEvents reads to the end, never verifies     *)
(* under any key (verify.go:60-70).                                        *)
ForkIsDetected ==
  \A r \in DOMAIN events : \A k \in Key :
    /\ Len(events[r]) <= MaxEventRows
    /\ \E i, j \in DOMAIN events[r] : i # j /\ events[r][i].seq = events[r][j].seq
    => ~VerifyChain(events[r], k).valid

(* `logyctl events' lists the last so many rows that were written, in the  *)
(* order of the chain: the index by which it picks and sorts them is the   *)
(* order of writing, also across restarts and failed inserts               *)
(* (analytics.go:46-70, store/events.go:179-234, processor.go:92-125).     *)
RecentIsTheTail ==
  ~twoConsumers =>
    \A r \in DOMAIN events : \A limit \in 1..MaxEventRows :
      LET rows == events[r]
      IN  EventsCommand(rows, limit) =
            SubSeq(rows, Len(rows) + 1 - Least(Len(rows), limit), Len(rows))

-----------------------------------------------------------------------------
\* What the documents say of a rotation, for the run that refutes it, and
\* what the code does instead.

(* ROADMAP.md:84: "Rotation does not break chain verification", and        *)
(* KEY_MANAGEMENT.md:100 of `logyctl verify' after one: "Overall: PASS     *)
(* (both keys valid for their respective ranges)".  No rotation is under   *)
(* way, none failed or overlapped, nobody else wrote the key file, and one *)
(* goroutine at a time was in ProcessEvent.                                *)
RotationKeepsVerification ==
  (Quiet /\ ~overlapped /\ ~disturbed /\ ~twoConsumers) =>
    \A r \in DOMAIN events : events[r] # <<>> => VerifyChain(events[r], keyFile).valid

(* A chain that did not fork verifies under a key exactly when that key    *)
(* signed all of its events, or all that the row limit lets VerifyChain    *)
(* see: VerifyChain takes one signer and reads no key from the run record  *)
(* (verify.go:53-85, cmd/logyctl/commands/verify.go:33), so that a chain   *)
(* signed under two keys verifies under neither.                           *)
VerifiesUnderOneKey ==
  ~twoConsumers =>
    \A r \in DOMAIN events : \A k \in Key :
      VerifyChain(events[r], k).valid <=>
        /\ events[r] # <<>>
        /\ \A i \in 1..Least(Len(events[r]), MaxEventRows) : events[r][i].key = k

=============================================================================
