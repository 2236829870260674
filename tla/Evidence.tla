------------------------------ MODULE Evidence ------------------------------
(***************************************************************************)
(* The commands of logyctl that read the ledger in several steps while the *)
(* server may be writing it: `logyctl export' (ExportEvidenceBag), which   *)
(* also copies the database file, and `logyctl stats' (StatsCommand).      *)
(*                                                                         *)
(* The rows only grow (module EventLog, which Ledger implements), so what  *)
(* a query returns is determined by how many inserts were committed when   *)
(* it ran.  The first insert is that of the run record.  The database is   *)
(* in WAL mode (NewDB): a commit is in the log file, and in the database   *)
(* file only after a checkpoint, which the last connection makes when it   *)
(* is closed.                                                              *)
(***************************************************************************)
EXTENDS Naturals, Sequences

CONSTANTS
  Command,    \* processes of logyctl
  Server,     \* the process of the server
  MaxCommits  \* bound: inserts

ASSUME EvidenceAssumption == Server \notin Command /\ MaxCommits \in Nat

VARIABLES
  commits,    \* the number of committed inserts
  saved,      \* how many of them the database file has
  open,       \* the processes with a connection
  orderly,    \* history: the last connection there was has been closed
  prog, pc,   \* each command: which it is, and its next step
  saw,        \* the number of events at the time of each of its queries
  copied, whole,  \* what its copy of the database file has; not written meanwhile
  sealed,     \* the zip writer and the zip file were closed without an error
  alone       \* history: it opened an orderly database, and no server ran since

database     == <<commits, saved, open, orderly>>
commandVars  == <<prog, pc, saw, copied, whole, sealed, alone>>
evidenceVars == <<database, commandVars>>

Process == Command \cup {Server}
Queries == {"count", "risk", "last", "runs", "events", "critical"}

Nothing == [q \in Queries |-> 0]

\* The steps of a command after NewDB, the query of GetRunID first.
StepsGlobalFirst(p) ==
  IF p = "export"
  THEN <<"runID", "last", "count", "risk", "startCopy", "endCopy", "close">>
  ELSE <<"runID", "runs", "events", "critical", "count", "risk", "close">>

Steps(p) ==
  IF p = "export"
  THEN <<"runID", "count", "risk", "last", "startCopy", "endCopy", "close">>
  ELSE <<"runID", "count", "risk", "runs", "events", "critical", "close">>

At(c, step) == pc[c] \in 1..7 /\ Steps(prog[c])[pc[c]] = step

-----------------------------------------------------------------------------
\* Connections, and what SQLite does when one ends.

NewDB(x) == x \notin open /\ open' = open \cup {x}

Close(x) ==
  /\ x \in open /\ open' = open \ {x}
  /\ IF open' = {} THEN saved' = commits /\ orderly' = TRUE
                   ELSE UNCHANGED <<saved, orderly>>

\* The process ends without Close.
Abandon(x) ==
  /\ x \in open /\ open' = open \ {x}
  /\ orderly' = (orderly /\ open' # {})
  /\ UNCHANGED saved

-----------------------------------------------------------------------------

EvidenceInit ==
  /\ commits = 0 /\ saved = 0 /\ open = {} /\ orderly = TRUE
  /\ prog = [c \in Command |-> "export"] /\ pc = [c \in Command |-> 0]
  /\ saw = [c \in Command |-> Nothing]
  /\ copied = [c \in Command |-> 0] /\ whole = [c \in Command |-> FALSE]
  /\ sealed = [c \in Command |-> FALSE]
  /\ alone = [c \in Command |-> FALSE]

ServerStarts ==
  /\ NewDB(Server)
  /\ alone' = [c \in Command |-> FALSE]
  /\ UNCHANGED <<commits, saved, orderly, prog, pc, saw, copied, whole, sealed>>

\* InsertRun, and then InsertEvent.
Insert ==
  /\ Server \in open /\ commits < MaxCommits
  /\ commits' = commits + 1
  /\ UNCHANGED <<saved, open, orderly, commandVars>>

\* SQLite checkpoints a long log file after a commit, as far as it can.
Checkpoint ==
  /\ Server \in open
  /\ \E n \in (saved + 1)..commits : saved' = n
  /\ UNCHANGED <<commits, open, orderly, commandVars>>

ServerStopsUnclosed ==
  /\ Server \in open /\ open' = open \ {Server}
  /\ UNCHANGED <<commits, saved, orderly, commandVars>>

ServerStops == Close(Server) /\ UNCHANGED <<commits, commandVars>>

ServerCrashes == Abandon(Server) /\ UNCHANGED <<commits, commandVars>>

-----------------------------------------------------------------------------
\* A command.  Step 0: not running, step 8: giving up.

Advance(c) == pc' = [pc EXCEPT ![c] = @ + 1]

\* What the process knew is gone.
Forget(c) ==
  /\ pc'     = [pc EXCEPT ![c] = 0]
  /\ prog'   = [prog EXCEPT ![c] = "export"]
  /\ saw'    = [saw EXCEPT ![c] = Nothing]
  /\ copied' = [copied EXCEPT ![c] = 0]
  /\ whole'  = [whole EXCEPT ![c] = FALSE]
  /\ sealed' = [sealed EXCEPT ![c] = FALSE]
  /\ alone'  = [alone EXCEPT ![c] = FALSE]

Begin(c) ==
  /\ pc[c] = 0
  /\ NewDB(c)
  /\ \E p \in {"export", "stats"} : prog' = [prog EXCEPT ![c] = p]
  /\ alone' = [alone EXCEPT ![c] = (open = {} /\ orderly)]
  /\ Advance(c)
  /\ UNCHANGED <<commits, saved, orderly, saw, copied, whole, sealed>>

\* No run: no report.
GetRunID(c) ==
  /\ At(c, "runID")
  /\ pc' = [pc EXCEPT ![c] = IF commits = 0 THEN 8 ELSE 2]
  /\ UNCHANGED <<database, prog, saw, copied, whole, sealed, alone>>

\* One of the two queries of GetRunStats, of GetLastEvent, or of GetGlobalStats.
Ask(c) ==
  /\ \E q \in Queries : At(c, q) /\ saw' = [saw EXCEPT ![c][q] = commits - 1]
  /\ Advance(c)
  /\ UNCHANGED <<database, prog, copied, whole, sealed, alone>>

\* io.Copy of the database file, without a lock.
StartCopy(c) ==
  /\ At(c, "startCopy")
  /\ copied' = [copied EXCEPT ![c] = saved]
  /\ Advance(c)
  /\ UNCHANGED <<database, prog, saw, whole, sealed, alone>>

\* The copy ends, and with it the bag: the deferred Close of the zip writer,
\* which writes the directory of the zip, and that of the zip file may fail,
\* which is logged and not returned.
EndCopy(c) ==
  /\ At(c, "endCopy")
  /\ whole' = [whole EXCEPT ![c] = (copied[c] = saved)]
  /\ \E closed \in BOOLEAN : sealed' = [sealed EXCEPT ![c] = closed]
  /\ Advance(c)
  /\ UNCHANGED <<database, prog, saw, copied, alone>>

\* A query or a file operation fails: the deferred Close is all that is left.
Fail(c) ==
  /\ pc[c] \in 1..6
  /\ pc' = [pc EXCEPT ![c] = 8]
  /\ UNCHANGED <<database, prog, saw, copied, whole, sealed, alone>>

End(c) ==
  /\ pc[c] = 8 \/ At(c, "close")
  /\ Close(c)
  /\ Forget(c)
  /\ UNCHANGED commits

Kill(c) ==
  /\ pc[c] # 0
  /\ Abandon(c)
  /\ Forget(c)
  /\ UNCHANGED commits

CommandStep(c) ==
  \/ Begin(c) \/ GetRunID(c) \/ Ask(c) \/ StartCopy(c) \/ EndCopy(c)
  \/ Fail(c) \/ End(c) \/ Kill(c)

EvidenceNext ==
  \/ ServerStarts \/ Insert \/ Checkpoint \/ ServerStops \/ ServerCrashes
  \/ \E c \in Command : CommandStep(c)

EvidenceSpec == EvidenceInit /\ [][EvidenceNext]_evidenceVars
-----------------------------------------------------------------------------

EvidenceTypeOK ==
  /\ commits \in Nat /\ saved \in 0..commits /\ open \subseteq Process
  /\ orderly \in BOOLEAN
  /\ prog \in [Command -> {"export", "stats"}] /\ pc \in [Command -> 0..8]
  /\ saw \in [Command -> [Queries -> Nat]]
  /\ copied \in [Command -> Nat] /\ whole \in [Command -> BOOLEAN]
  /\ sealed \in [Command -> BOOLEAN] /\ alone \in [Command -> BOOLEAN]

(* The numbers of one report that a reader compares are in order, though   *)
(* they come from different moments.  The last hash in a manifest covers   *)
(* every event that the manifest counts, by total or by risk, and the      *)
(* statistics never show more events, or more critical ones, for the run   *)
(* than in all (export.go:64-73, analytics.go:90-95, stats.go:22-80).      *)
ReportIsOrdered ==
  \A c \in Command : At(c, "close") =>
    IF prog[c] = "export"
    THEN saw[c]["count"] <= saw[c]["last"] /\ saw[c]["risk"] <= saw[c]["last"]
    ELSE saw[c]["count"] <= saw[c]["events"] /\ saw[c]["risk"] <= saw[c]["critical"]

(* A bag that an export reports as made is complete when the server was    *)
(* stopped in order before the export and not started during it, and the   *)
(* zip could be closed: the copied file holds the run and every event the  *)
(* manifest counts, and ends with the manifest's last hash (export.go:46-  *)
(* 138, sqlite.go:34, worker.go:354).  The last condition is there because *)
(* an export whose zip could not be closed (export.go:92-103) reports one. *)
BagIsComplete ==
  \A c \in Command : At(c, "close") /\ prog[c] = "export" /\ alone[c] /\ sealed[c] =>
    /\ whole[c] /\ copied[c] = commits
    /\ saw[c]["count"] = commits - 1 /\ saw[c]["risk"] = commits - 1
    /\ saw[c]["last"] = commits - 1

\* Connections, and what they tell about the two files.
ConnectionInv ==
  /\ \A c \in Command : c \in open <=> pc[c] # 0
  /\ \A c \in Command : pc[c] < 2 => \A q \in Queries : saw[c][q] = 0
  /\ \A c \in Command : pc[c] \in 2..7 =>
       commits > 0 /\ \A q \in Queries : saw[c][q] <= commits - 1
  /\ (open = {} /\ orderly) => saved = commits
  /\ \A c \in Command : alone[c] => saved = commits /\ Server \notin open

\* What the steps that a command has taken tell about its report.
Ordered(c) ==
  /\ prog[c] = "export" /\ pc[c] \in 5..7 =>
       saw[c]["count"] <= saw[c]["last"] /\ saw[c]["risk"] <= saw[c]["last"]
  /\ prog[c] = "stats" /\ pc[c] \in 6..7 => saw[c]["count"] <= saw[c]["events"]
  /\ prog[c] = "stats" /\ pc[c] = 7 => saw[c]["risk"] <= saw[c]["critical"]

Complete(c) ==
  prog[c] = "export" /\ alone[c] =>
    /\ pc[c] \in 3..7 => saw[c]["count"] = commits - 1
    /\ pc[c] \in 4..7 => saw[c]["risk"] = commits - 1
    /\ pc[c] \in 5..7 => saw[c]["last"] = commits - 1
    /\ pc[c] \in 6..7 => copied[c] = saved
    /\ pc[c] = 7 => whole[c]

(* The inductive invariant behind both: between an orderly end and the     *)
(* next start of the server the log file holds nothing that the database   *)
(* file lacks and nothing is written; and each query has seen no more than *)
(* there is now, so no more than the queries to come (sqlite.go:34-57,     *)
(* export.go:46-138).                                                      *)
EvidenceInv ==
  /\ EvidenceTypeOK
  /\ ConnectionInv
  /\ \A c \in Command : Ordered(c) /\ Complete(c)
=============================================================================
