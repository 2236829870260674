-------------------------------- MODULE Ledger --------------------------------
(***************************************************************************)
(* The ledger: worker.Start and CreateGenesisBlock, the EventProcessor     *)
(* (internal/ledger/processor.go) and the tables runs and events           *)
(* (internal/ledger/store), over the server's Signer.                      *)
(*                                                                         *)
(* One event takes the steps GetRunStats, GetLastEvent, SignHash and       *)
(* StoreEvent, between which keys rotate, the process crashes, and, once a *)
(* shutdown gave up waiting for processEvents, the goroutine of            *)
(* drainBuffer takes its own steps.  A hash is the sequence of the         *)
(* payloads it commits to, so equal hashes have equal pasts.               *)
(***************************************************************************)
EXTENDS Signer, Sequences

CONSTANTS
  Task,          \* task ids
  NoTask,        \* the empty task id
  NoRow,         \* no event in hand
  MaxEvents      \* bound: events made, the genesis event included

ASSUME LedgerAssumption ==
  /\ NoTask \notin Task
  /\ MaxEvents \in Nat

Consumer  == {"loop", "drain"}   \* the goroutines that call ProcessEvent
EventType == {"genesis", "tool", "anchor", "task_terminal"}  \* a tool call or response
State     == {"working", "completed"}  \* a non-terminal and a terminal task state
TaskState == State \cup {"none"}

\* A hash is a sequence of payloads, and a row what the table events holds.
Hash == Seq({NoRow} \cup [id : Nat, type : EventType, task : Task \cup {NoTask},
                          state : TaskState, seq : Nat])
Row  == [id : Nat, type : EventType, task : Task \cup {NoTask}, state : TaskState,
         seq : Nat, prev : Hash, hash : Hash, key : Key \cup {NoKey}]

ASSUME NoRowAssumption == NoRow \notin Row

VARIABLES
  runs,          \* table runs: what InsertRun wrote
  events,        \* table events, by run: the rows in the order of insertion
  boot,          \* Start: "off", "insertRun", "storeGenesis" or "on"
  runID,         \* the run of the worker, 0 before Start chose one
  pc, pend,      \* each consumer: the next step of persistEvent, and its event
  taskStates,    \* the tasks with an entry, which is a non-terminal state
  phase,         \* "run", or the hand-over to drainBuffer: "clean", "timedOut"
  made,          \* history: the events made.  A completion event shares the
                 \* number of the event that caused it
  twoConsumers,  \* history: some hand-over timed out
  rotated        \* history: some rotation began

tables     == <<runs, events>>
consumers  == <<pc, pend>>
memory     == <<boot, runID, taskStates, phase>>
ledgerPast == <<made, twoConsumers, rotated>>
ledgerVars == <<tables, consumers, memory, ledgerPast>>

-----------------------------------------------------------------------------
\* Events, hashes, and the queries.

NoHash   == <<>>       \* the empty string
ZeroHash == <<NoRow>>  \* the 64 zeros

\* What the event hash covers.
Payload(e) == [id |-> e.id, type |-> e.type, task |-> e.task, state |-> e.state,
               seq |-> e.seq]

CalculateEventHash(prev, e) == Append(prev, Payload(e))

NewEvent(type, task, state) ==
  [id |-> made + 1, type |-> type, task |-> task, state |-> state,
   seq |-> 0, prev |-> NoHash, hash |-> NoHash, key |-> NoKey]

Rows == events[runID]

\* The rows GetLastEvent may return: any of those with the largest index.
LastEvents(rows) ==
  IF rows = <<>> THEN {[seq |-> 0, hash |-> NoHash]}
  ELSE {[seq |-> rows[i].seq, hash |-> rows[i].hash] :
          i \in {j \in DOMAIN rows : \A k \in DOMAIN rows : rows[k].seq <= rows[j].seq}}

\* The assertions of assignSequenceAndPrevHash.
InSequence(seq, last) ==
  IF seq = 0 THEN last.hash = NoHash
  ELSE last.hash # NoHash /\ seq = last.seq + 1

-----------------------------------------------------------------------------

LedgerInit ==
  /\ SignerInit
  /\ runs = <<>> /\ events = <<>>
  /\ boot = "off" /\ runID = 0
  /\ pc = [c \in Consumer |-> "idle"] /\ pend = [c \in Consumer |-> NoRow]
  /\ taskStates = {} /\ phase = "run"
  /\ made = 0 /\ twoConsumers = FALSE /\ rotated = FALSE

\* Start: reuse the last run, or make and sign a genesis event.  The event is
\* in the hands of "loop", whose goroutine Start has yet to create.
LoadRun ==
  /\ server = "up" /\ boot = "off"
  /\ runs # <<>>
  /\ runID' = Len(runs)
  /\ boot' = "on"
  /\ UNCHANGED <<signerVars, tables, consumers, taskStates, phase, ledgerPast>>

CreateGenesisAgain ==
  /\ server = "up" /\ boot = "off"
  /\ made < MaxEvents
  /\ pend' = [pend EXCEPT !["loop"] =
       LET e == [NewEvent("genesis", NoTask, "none") EXCEPT !.prev = ZeroHash]
       IN  [e EXCEPT !.hash = CalculateEventHash(ZeroHash, e), !.key = privateKey]]
  /\ made' = made + 1
  /\ boot' = "insertRun"
  /\ UNCHANGED <<signerVars, tables, runID, pc, taskStates, phase, twoConsumers, rotated>>

CreateGenesis ==
  /\ server = "up" /\ boot = "off"
  /\ runs = <<>>
  /\ made < MaxEvents
  /\ pend' = [pend EXCEPT !["loop"] =
       LET e == [NewEvent("genesis", NoTask, "none") EXCEPT !.prev = ZeroHash]
       IN  [e EXCEPT !.hash = CalculateEventHash(ZeroHash, e), !.key = privateKey]]
  /\ made' = made + 1
  /\ boot' = "insertRun"
  /\ UNCHANGED <<signerVars, tables, runID, pc, taskStates, phase, twoConsumers, rotated>>

InsertRun ==
  /\ boot = "insertRun"
  /\ runs' = Append(runs, [genesisHash |-> pend["loop"].hash, pubKey |-> publicKey])
  /\ events' = Append(events, <<>>)
  /\ boot' = "storeGenesis"
  /\ UNCHANGED <<signerVars, runID, consumers, taskStates, phase, ledgerPast>>

StoreGenesis ==
  /\ boot = "storeGenesis"
  /\ events' = [events EXCEPT ![Len(runs)] = Append(@, pend["loop"])]
  /\ pend' = [pend EXCEPT !["loop"] = NoRow]
  /\ runID' = Len(runs)
  /\ boot' = "on"
  /\ UNCHANGED <<signerVars, runs, pc, taskStates, phase, ledgerPast>>

-----------------------------------------------------------------------------
\* ProcessEvent: persistEvent, then trackTaskState.

\* A consumer pops an event: a tool call or response with a task, or an event
\* without one, for which an anchor stands.
MayTake(c) == IF c = "loop" THEN phase # "clean" ELSE phase # "run"

TakeEvent(c) ==
  /\ boot = "on" /\ pc[c] = "idle" /\ MayTake(c)
  /\ made < MaxEvents
  /\ \/ \E t \in Task, s \in State :
          pend' = [pend EXCEPT ![c] = NewEvent("tool", t, s)]
     \/ pend' = [pend EXCEPT ![c] = NewEvent("anchor", NoTask, "none")]
  /\ pc' = [pc EXCEPT ![c] = "stats"]
  /\ made' = made + 1
  /\ UNCHANGED <<signerVars, tables, memory, twoConsumers, rotated>>

GetRunStatsOffByOne(c) ==
  /\ pc[c] = "stats"
  /\ pend' = [pend EXCEPT ![c].seq = Len(Rows) + 1]
  /\ pc' = [pc EXCEPT ![c] = "last"]
  /\ UNCHANGED <<signerVars, tables, memory, ledgerPast>>

GetRunStats(c) ==
  /\ pc[c] = "stats"
  /\ pend' = [pend EXCEPT ![c].seq = Len(Rows)]
  /\ pc' = [pc EXCEPT ![c] = "last"]
  /\ UNCHANGED <<signerVars, tables, memory, ledgerPast>>

\* A failed assertion panics: then Crash is the only step left.
GetLastEvent(c) ==
  /\ pc[c] = "last"
  /\ \E last \in LastEvents(Rows) :
       /\ InSequence(pend[c].seq, last)
       /\ pend' = [pend EXCEPT ![c].prev =
                     IF pend[c].seq = 0 THEN ZeroHash ELSE last.hash]
  /\ pc' = [pc EXCEPT ![c] = "sign"]
  /\ UNCHANGED <<signerVars, tables, memory, ledgerPast>>

SignHash(c) ==
  /\ pc[c] = "sign"
  /\ pend' = [pend EXCEPT ![c].hash = CalculateEventHash(pend[c].prev, pend[c]),
                          ![c].key = privateKey]
  /\ pc' = [pc EXCEPT ![c] = "store"]
  /\ UNCHANGED <<signerVars, tables, memory, ledgerPast>>

\* The events that ProcessEvent hands to trackTaskState.
HasTask(e) == e.type = "tool" /\ e.task # NoTask

\* createTaskCompletionEvent: a tracked task reaches a terminal state.
Completes(e) == HasTask(e) /\ e.state = "completed" /\ e.task \in taskStates

StoreEventTwice(c) ==
  /\ pc[c] = "store"
  /\ events' = [events EXCEPT ![runID] = @ \o <<pend[c], pend[c]>>]
  /\ UNCHANGED <<signerVars, runs, boot, runID, phase, twoConsumers, rotated>>

StoreEvent(c) ==
  /\ pc[c] = "store"
  /\ events' = [events EXCEPT ![runID] = Append(@, pend[c])]
  /\ UNCHANGED <<signerVars, runs, boot, runID, phase, twoConsumers, rotated>>

StoreTerminal(c) ==
  /\ StoreEvent(c)
  /\ Completes(pend[c])
  /\ pend' = [pend EXCEPT ![c] =
       [NewEvent("task_terminal", @.task, "completed") EXCEPT !.id = pend[c].id]]
  /\ pc' = [pc EXCEPT ![c] = "stats"]
  /\ UNCHANGED <<taskStates, made>>

\* trackTaskState after any other event, and after the completion event.
TrackedForEver(e) ==
  IF HasTask(e) /\ e.state = "working" THEN taskStates \cup {e.task} ELSE taskStates

Tracked(e) ==
  CASE HasTask(e) /\ e.state = "working" -> taskStates \cup {e.task}
    [] e.type = "task_terminal"          -> taskStates \ {e.task}
    [] OTHER                             -> taskStates

StoreOther(c) ==
  /\ StoreEvent(c)
  /\ ~Completes(pend[c])
  /\ taskStates' = Tracked(pend[c])
  /\ pend' = [pend EXCEPT ![c] = NoRow]
  /\ pc' = [pc EXCEPT ![c] = "idle"]
  /\ UNCHANGED made

\* GetLastEvent or the insert returns an error: the event is given up.  For a
\* completion event that is a panic, so no step but Crash.
Fail(c) ==
  /\ pc[c] \in {"last", "store"}
  /\ pend[c].type # "task_terminal"
  /\ pend' = [pend EXCEPT ![c] = NoRow]
  /\ pc' = [pc EXCEPT ![c] = "idle"]
  /\ UNCHANGED <<signerVars, tables, memory, ledgerPast>>

-----------------------------------------------------------------------------

\* Shutdown hands over to drainBuffer, when processEvents has ended or the
\* wait for it timed out.
HandOverWithoutWaiting ==
  /\ boot = "on" /\ phase = "run"
  /\ phase' = "clean"
  /\ UNCHANGED <<signerVars, tables, consumers, boot, runID, taskStates, ledgerPast>>

HandOver ==
  /\ boot = "on" /\ phase = "run"
  /\ \/ pc["loop"] = "idle" /\ phase' = "clean" /\ UNCHANGED twoConsumers
     \/ phase' = "timedOut" /\ twoConsumers' = TRUE
  /\ UNCHANGED <<signerVars, tables, consumers, boot, runID, taskStates, made, rotated>>

\* The process ends, at any point.
Crash ==
  /\ ServerEnds
  /\ boot' = "off" /\ runID' = 0 /\ taskStates' = {} /\ phase' = "run"
  /\ pc' = [c \in Consumer |-> "idle"] /\ pend' = [c \in Consumer |-> NoRow]
  /\ UNCHANGED <<tables, ledgerPast>>

\* The admin API serves rotations once Start has returned.
Rekey(r) ==
  /\ boot = "on"
  /\ RotateTruncate(r)
  /\ rotated' = TRUE
  /\ UNCHANGED <<tables, consumers, memory, made, twoConsumers>>

SignerStep ==
  /\ \/ LoadKey \/ TruncateKey \/ WriteNewKey
     \/ \E r \in Rekeyer : RotateStep(r)
     \/ CliStep
  /\ UNCHANGED ledgerVars

StartStep == LoadRun \/ CreateGenesis \/ InsertRun \/ StoreGenesis

ConsumerStep(c) ==
  \/ TakeEvent(c) \/ GetRunStats(c) \/ GetLastEvent(c) \/ SignHash(c)
  \/ StoreTerminal(c) \/ StoreOther(c) \/ Fail(c)

LedgerNext ==
  \/ StartStep \/ HandOver \/ Crash \/ SignerStep
  \/ \E c \in Consumer : ConsumerStep(c)
  \/ \E r \in Rekeyer : Rekey(r)

LedgerSpec == LedgerInit /\ [][LedgerNext]_<<signerVars, ledgerVars>>

-----------------------------------------------------------------------------

LedgerTypeOK ==
  /\ SignerTypeOK
  /\ runs \in Seq([genesisHash : Hash, pubKey : Key \cup {NoKey}])
  /\ events \in Seq(Seq(Row)) /\ Len(events) = Len(runs)
  /\ boot \in {"off", "insertRun", "storeGenesis", "on"}
  /\ runID \in 0..Len(runs)
  /\ pc \in [Consumer -> {"idle", "stats", "last", "sign", "store"}]
  /\ pend \in [Consumer -> Row \cup {NoRow}]
  /\ taskStates \subseteq Task
  /\ phase \in {"run", "clean", "timedOut"}
  /\ made \in Nat
  /\ twoConsumers \in BOOLEAN /\ rotated \in BOOLEAN

Hashed(e) == e.hash = CalculateEventHash(e.prev, e)

\* Each row has the index of its place, extends the hash of the row before it
\* and carries the hash of what it says.
Chained(rows) ==
  \A i \in DOMAIN rows :
    /\ rows[i].seq = i - 1
    /\ rows[i].prev = (IF i = 1 THEN ZeroHash ELSE rows[i - 1].hash)
    /\ Hashed(rows[i])

(* One goroutine at a time in ProcessEvent is enough for the events of a   *)
(* run to form a hash chain without gap or repetition, whatever crashes,   *)
(* restarts, failed inserts and rotations happen between reading the row   *)
(* count, reading the last row and inserting (processor.go:72-125).        *)
ChainUnlessTimedOut ==
  ~twoConsumers => \A r \in DOMAIN events : Chained(events[r])

(* The assertions of assignSequenceAndPrevHash, which end the process when *)
(* they fail (processor.go:107-118), hold for a single consumer: the row   *)
(* count and the last row, read by two queries, agree also after restarts. *)
NoFalseAlarm ==
  ~twoConsumers =>
    \A c \in Consumer : pc[c] = "last" =>
      \A last \in LastEvents(Rows) : InSequence(pend[c].seq, last)

(* There is one run for ever.  A genesis event is the first row, is the    *)
(* one whose hash the run record holds, and is signed with the public key  *)
(* of the run record (genesis.go:14-87, worker.go:191-206).                *)
RunRecordMatches ==
  /\ Len(runs) <= 1
  /\ \A r \in DOMAIN events : \A i \in DOMAIN events[r] :
       events[r][i].type = "genesis" =>
         /\ i = 1
         /\ events[r][i].hash = runs[r].genesisHash
         /\ events[r][i].key = runs[r].pubKey

(* A completion event comes right after the terminal event of its task,    *)
(* and once for each time the task was seen active (processor.go:51-65).   *)
CompletionIsJustified ==
  ~twoConsumers =>
    \A r \in DOMAIN events : \A i \in DOMAIN events[r] :
      LET e == events[r][i]
          Of(j, type, state) ==
            events[r][j].type = type /\ events[r][j].state = state
              /\ events[r][j].task = e.task
      IN  e.type = "task_terminal" =>
            /\ i > 1 /\ Of(i - 1, "tool", "completed")
            /\ \E j \in 1..(i - 2) :
                 /\ Of(j, "tool", "working")
                 /\ \A k \in j..(i - 1) : ~Of(k, "task_terminal", "completed")

(* The inductive invariant behind ChainUnlessTimedOut and NoFalseAlarm:    *)
(* the event in a consumer's hands is, by the step it has reached, the one *)
(* that continues the chain (processor.go:72-166, genesis.go:14-87).       *)
LinkTo(rows) == IF rows = <<>> THEN ZeroHash ELSE rows[Len(rows)].hash

BootPhase ==
  /\ boot # "on" => phase = "run" /\ \A c \in Consumer : pc[c] = "idle"
  /\ boot = "on" => runID \in 1..Len(runs)
  /\ boot \in {"insertRun", "storeGenesis"} => pend["loop"] # NoRow
  /\ boot = "storeGenesis" => Len(runs) # 0
  /\ \A c \in Consumer : pc[c] # "idle" => pend[c] # NoRow

OneProcessor ==
  ~twoConsumers =>
    /\ phase # "timedOut"
    /\ phase = "run" => pc["drain"] = "idle"
    /\ phase = "clean" => pc["loop"] = "idle"

NextInChain ==
  ~twoConsumers =>
    /\ \A c \in Consumer :
         /\ pc[c] \in {"last", "sign", "store"} => pend[c].seq = Len(Rows)
         /\ pc[c] \in {"sign", "store"} => pend[c].prev = LinkTo(Rows)
         /\ pc[c] = "store" => Hashed(pend[c])
    /\ boot \in {"insertRun", "storeGenesis"} =>
         pend["loop"].seq = 0 /\ pend["loop"].prev = ZeroHash /\ Hashed(pend["loop"])
    /\ boot = "storeGenesis" => events[Len(runs)] = <<>>

LedgerInv ==
  LedgerTypeOK /\ BootPhase /\ OneProcessor /\ NextInChain /\ ChainUnlessTimedOut

(* To its readers the ledger is the log of module EventLog: one run, whose *)
(* rows are never changed, removed or reordered and are added one by one,  *)
(* each continuing the chain unless a hand-over timed out                  *)
(* (processor.go:72-125, store/events.go:49-80, genesis.go:77-82).         *)
Log == INSTANCE EventLog
         WITH log    <- IF runs = <<>> THEN <<>> ELSE events[1],
              shared <- twoConsumers,
              Origin <- ZeroHash

ImplementsLog == Log!LogSpec

(* ARCHITECTURE.md:53: "SQLite (`events` table) with strict strict         *)
(* sequence indexing".                                                     *)
StrictSequence ==
  \A r \in DOMAIN events : \A i \in DOMAIN events[r] : events[r][i].seq = i - 1

=============================================================================
