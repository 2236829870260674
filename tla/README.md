# Verification of Logryph

Logryph is a reverse proxy that records the JSON-RPC traffic between agents and
tool servers in a signed, hash-chained ledger. This directory holds TLA+ modules
for its stateful parts, TLC configurations that check them on small instances,
and TLAPS proofs of the main invariants for every value of the constants.

## 1. The system and its parts

A request enters `buildProxyHandler` (main.go), which calls `InterceptRequest`
and then the reverse proxy; `InterceptResponse` runs on the way back. Both read
the body into a pooled buffer, parse it, ask the policy of the observer for a tag
and submit an event to the worker. `Submit` pushes the event onto a ring buffer
and signals the processor goroutine, which drains the buffer and takes each event
through `EventProcessor.ProcessEvent`: sequence index, previous hash, hash,
signature, insert into SQLite. `main` shuts down the HTTP servers and then the
worker. `logyctl`, another process, reads the ledger and the key file. Events are
structs of a pool: a handler gets one, the consumer that stored it puts it back.

| Part | Source | Module | State in the program | Kind |
|---|---|---|---|---|
| Ring buffer | internal/ring/buffer.go | `RingBuffer`, abstract `BoundedFifo`, called in `WorkerRing` | array, head, tail, count under a mutex | sequential object |
| Ledger worker, graceful shutdown, anchor loop | internal/ledger/worker.go, main.go | `Worker`, on the ring `WorkerRing` | buffer, signal channel, quit channel, flags, counters | concurrent goroutines |
| Signer, key file, `rekey`, `backup-key`, `restore-key` | internal/crypto/signer.go, api/handlers.go, logyctl system.go | `Signer` | key file, two halves of the key in memory | processes, crash and restart |
| Start, genesis, event processor, store, hashing | internal/ledger/{worker,genesis,processor}.go, store/, crypto/engine.go | `Ledger` (extends `Signer`), abstract `EventLog` | tables runs and events, task states | crash and restart, two consumers |
| Chain verification, `logyctl events` | internal/ledger/audit/verify.go, logyctl analytics.go, store/events.go | `Audit` (extends `Ledger`) | none | pure |
| Evidence export, `logyctl stats`, database connections | logyctl export.go and analytics.go, store/{stats,sqlite,runs}.go | `Evidence` | database file, write-ahead log, connections | processes, crash and restart |
| Observer: file watcher | internal/observer/engine.go | `Observer` | config, last modification time | goroutine against outside edits |
| Observer: patterns, conditions | internal/observer/engine.go, interceptor/server.go | `Policy` | none | pure |
| Interceptor, buffer pool, core engine, proxy handler | internal/interceptor/server.go, pool/pool.go, core/engine.go, main.go | `Interceptor` (extends `Policy`) | buffers, task maps | concurrent handlers |
| `logyctl trace` | cmd/logyctl/commands/trace.go | `Trace` (extends `Interceptor`) | none | pure |
| Event pool | internal/pool/pool.go and the makers of events | `EventPool` | free structs, what each holds, hit and miss counters | concurrent goroutines |
| Latency histogram, metrics scrape | worker.go, internal/api/handlers.go | `Telemetry` (extends `EventPool`) | buckets, count, what a scrape has read | atomic counters |
| Admin API | internal/api/handlers.go | `HandleRekey` in `Signer` | none of its own | request handlers |
| `replay`, `risk`, logging, mock agents | cmd/, internal/logging | not modelled | none of their own | output only |

PROJECT.json lists the same parts with their sources, every definition with the
lines it models, and the hazards of the code with the properties that cover them.

## 2. How the modules correspond to the code

The unit of a step is what other goroutines or processes can see as one: an
operation under a mutex, on a channel or on an atomic, one SQL statement, one
system call on a file. A failed assertion panics in the default build; it is a
step of the model where the condition can fail.

**RingBuffer.** One action per method. `ret` is what the call returns; `Pop`
leaves the popped slot in the array, as the code does. `BoundedFifo` is the
promise to callers, and the refinement maps the `count` slots from `head` on to
its queue.

**Worker.** `Submit` is split at each shared access: the closing check
(`SubmitCall`), one attempt and one sleep of block mode (`BlockAttempt`,
`BlockWait`), the check for room (`CheckRoom`), the push (`PushEvent`) and the
send on the channel (`SignalWorker`), which panics on a closed channel. A panic in
a handler is recovered by net/http; in the anchor goroutine it ends the process.
The two copies of the drain loop (`processEvents`, `drainBuffer`) are one set of
actions with the consumer as parameter. `StopHTTP`, `SetClosing`, `CloseQuit`,
`CloseSignal`, `WaitForStop` and `CloseDB` follow `gracefulShutdown` and
`Shutdown`; both waits may time out. The buffer is a queue. Storing an event is one
step with an outcome; `Ledger` opens it up.

**WorkerRing.** `Worker` and the ring in one: where `Worker` appends to its queue or
takes from it, `Push` or `Pop` of `RingBuffer` is part of the step. It is proved to
take steps of `Worker` only (`RingWorkerIsWorker`), and of `RingBuffer`
(`WorkerUsesRing`).

**Signer.** A key is a key pair. `os.WriteFile` is two steps, truncation and
write, because it is not atomic for a reader or for a crash. Rotations run in
several handlers without a lock. `verify` loads the key with the same
`NewSigner`, which generates a key when the file does not decode.

**Ledger.** Processing one event is the steps `GetRunStats`, `GetLastEvent`,
`SignHash` and an insert, with the completion event of a task after a terminal
state. `Start` is `LoadRun`, `CreateGenesis`, `InsertRun`, `StoreGenesis`. A crash
may come between any two. A hash is the sequence of payloads it commits to, so it
is injective, which is what SHA-256 over canonical JSON is taken to be; a signature
is the key it was made with. `HandOver` is the shutdown, in time (`clean`) or not
(`timedOut`); then both consumers may be inside `ProcessEvent`.

`EventLog` is what its readers rely on: one log that only grows, one event at a
time, each continuing the chain. `Ledger` maps its rows to it; `shared` is the
history `twoConsumers`, since the promise about the chain ends when a hand-over
timed out, while the one about growing does not.

**Audit.** `VerifyChain` over `GetAllEvents`, and the list of `logyctl events` over
`GetRecentEvents`, with their orders and row limits.

**Evidence.** `ExportEvidenceBag` and `StatsCommand` as the queries they make, in
their order (`Steps`), against a server that inserts at any time. As the rows only
grow (`EventLog`), a query is known by the number of inserts committed before it.
The database is in WAL mode: `commits` counts what is in the log file, `saved` what
is in the database file, which the export copies. A checkpoint happens at any time
while the server runs, and when the last connection is closed. Crashes and killed
commands leave the log as it is. `copied` is what the file had when the copy began,
`whole` that the file was not written until it ended, and `sealed` that the deferred
closes of the zip, whose failure is only printed, succeeded.

**EventPool.** The structs are `Obj`. Of each struct the model keeps which fields
hold a value of the present use (`own`), which still hold one of an earlier use
(`old`), and whether its maps are beyond `maxEventFields` (`big`). `ToolCall`,
`ToolResponse`, `Anchor` and `TaskTerminal` are the four makers of events and say
which fields each sets, sets to zero or leaves; `Reset` is what `PutEvent` clears.
A dropped event and a struct the garbage collector took are new again. `GetEvent`
is the get and, a step later, the count. A panic stops everything (`up`).

**Telemetry.** `recordLatency` with each atomic addition a step, in the two orders
the code has; `collectMetrics` with the loads whose relation matters. Of the loaded
buckets the sum is kept.

**Observer.** A reload is a stat, a read and an assignment. Outside, the file is
edited at any time (`Edit`), with a later modification time, or replaced by one
that has no later time (`Backdate`). A read may fail although the file is a good one
(`ReadFails`), at the start too. `unseen` is a history variable: the last edit
left no later time to be noticed by.

**Policy.** `MatchPattern`, `CheckConditions` and a turn of the loop of
`evaluatePolicy` (`Verdict`: pass, select or panic) as operators over methods
(sequences of name parts) and typed parameters. A string that spells a number is the
number and the notation; `Sprint` models `%v`, which prints a float64 of 10^6 or more
in exponent notation, and `eq` compares notation and number. The assertions on the
sizes of rules and parameters, and on the ID and the risk level of the rule that was
returned, are the panics. `Covers`, `Means`, `Applies` and `FirstApplying` are the
reference.

**Interceptor.** One goroutine per request. The buffer a body is a slice of
(`buf`) and the message whose bytes are in a buffer (`array`) are separate, so
that a slice whose buffer was put back can be seen to change. The rules are loaded
once (`InspectRequest`), and each turn of the loop over them is a step
(`EvaluateRule`), between which the policy may be reloaded. Loading and storing
the last event of a task are two steps. `Submit` appends the event or loses it,
which is what `Worker` and `Ledger` may do with it.

**Trace.** `GetEventsByTaskID`, `buildTree` and the walk of `printTraceTree`, one turn
of its loop at a time (`Visit`), with the limits on rows, roots, children and nodes.
A limit on rows or nodes ends a loop in silence, one on roots or children is an
assertion. In which order siblings are shown is left open.

Composition: `Ledger` extends `Signer` and is shown to implement it
(`LedgerUsesSigner`), and implements `EventLog`, on which `Evidence` rests; `Audit`
extends `Ledger`; `Telemetry` extends `EventPool`; `Trace` extends `Interceptor`,
which extends `Policy`; `WorkerRing` extends `Worker`, instantiates `RingBuffer` and
is shown to implement `Worker`.

## 3. Runs

| Run | Instance | Properties | What it shows |
|---|---|---|---|
| `worker` | `WorkerRing`: 3 events, 2 handlers and the anchor, 2 slots | `NoLostWakeup`, `HandledInOrder`, `EachHandledOnce`, `OneConsumer`, `OrderlyShutdownDrains`, `WorkerInv`, `UncountedAreRefused`, `HealthyCountIsExact`, `RingHoldsBuffer`, `ImplementsFifo` | No event sleeps in the buffer, order is kept across the hand-over to the drain, no event is handled twice even when the wait for the processor timed out, what no counter has was refused by `Push`, and the ring is a FIFO queue across every wrap-around |
| `worker_live` | 2 events, 1 handler and the anchor, 1 slot | `AcceptedIsHandled`, `ShutdownEnds` | Accepted events are processed, a shutdown ends |
| `signer` | 4 keys, 2 rotations, 3 commands | `HalvesAgree`, `KeyIsSaved`, `SignerInv` | The key in force is consistent and on disk, through crashes |
| `ledger` | 2 keys, 1 rotation, 2 tasks, 4 events and the completion events they cause | `ChainUnlessTimedOut`, `NoFalseAlarm`, `RunRecordMatches`, `NormalRunVerifies`, `ForkIsDetected`, `RecentIsTheTail`, `CompletionIsJustified`, `LedgerInv`, `ImplementsLog` | The rows form a chain, which verifies as long as no key was rotated, a fork is detected, completion events are justified, `events` shows the last rows, and the ledger is the log of `EventLog` |
| `telemetry` | 4 structs, 1 submitter, 2 consumers, 1 slot, 2 buckets | `EventHasOneOwner`, `NothingLeaks`, `PoolInv`, `LatencyBalance`, `ScrapeIsConsistent` | No struct has two owners, nothing of an earlier event is recorded in a later one, counters and scrapes drift by no more than the steps under way |
| `evidence` | 2 commands, the server, 3 inserts | `ReportIsOrdered`, `BagIsComplete`, `EvidenceInv` | Reports never go back in time, a bag made in order is complete |
| `observer` | 2 policies, blank, malformed and missing file, 4 times | `FreshWhenSettled`, `ObserverInv`, `PolicyCatchesUp` | No stale policy is taken for the current one, and a policy that stays is loaded, also when reads fail for a while |
| `interceptor` | 2 requests, 2 buffers, 7 bodies, 3 policies, limits of the trace from 1 to 3 | `BufferExclusive`, `RecordsOwnBody`, `InterceptorInv`, `TagFollowsPolicy`, `TraceShowsDescendants` | Records are about their own message, tags follow one policy however it is reloaded meanwhile, a trace shows what was read and is not below a missing event |
| `worker_shutdown_loss` | as `worker` | `NoDataLossOnShutdown`, violated | The anchor's send on the closed channel ends the process before the drain (ROADMAP.md:45) |
| `ledger_sequence` | as `ledger` | `StrictSequence`, violated | Two consumers give one index to two events (ARCHITECTURE.md:53) |
| `ledger_rotation` | as `ledger` | `RotationKeepsVerification`, violated | After one orderly rotation the chain does not verify under the key file (ROADMAP.md:84, KEY_MANAGEMENT.md:100-103) |
| `interceptor_body` | as `interceptor` | `ForwardsOwnBody`, violated | A body is forwarded from a buffer that is already back in the pool (server.go:331) |

The properties named `...Inv` are the inductive invariants of section 4; each has the
type invariant of its module as a conjunct. That of the ring is proved only.

### Bounds

* Worker: three submitters on two slots fill the buffer, race for the last slot
  and leave one event for the drain. Three events make both indices of the ring wrap
  around; the proofs are for any capacity. `MaxDrain` equals the capacity, the boundary
  of the code's assertion; `MaxSignalBatches` = 2 makes the end of the signal loop
  reachable, and `MaxBlockAttempts` = 1 the end of block mode. The liveness run has
  one slot and every outcome of storing an event.
* Signer: four keys allow a start, two overlapping rotations and one more key by
  a command or a restart.
* Ledger: four events allow a genesis, two consumers that fork and a successor,
  or a task that is active, ends, and ends again; completion events come on top of
  them. A completion event has the number of the event that caused it.
  `MaxEventRows` = 4 is below the number of rows that they reach together, so that
  the limit of the queries acts.
* Telemetry: one submitter, as the proof covers any number; it gets two events, so
  that a struct is used again after a put, by a maker of another kind. Four structs
  are as many as can be in use at once: two events, each with its completion event
  in the hands of a consumer. Two buckets tell the first, which also takes
  latencies of zero, from the others.
* Evidence: three inserts are the run record and two events; with two commands
  each may be the last connection that closes. The proof covers any number.
* Observer: `MaxTime` = 4 allows edits before, within and after a reload.
* Interceptor: a hazard of buffers or parents needs two requests; a buffer never
  used stands for a new one. The bodies take each path of the policy code: first
  rule, second rule with redaction, no rule, no parameters, not JSON, rejected; one
  policy has a rule on which an assertion fails, and one a number that is not spelled
  plainly. The limits on rules, patterns, conditions and parameters (64 to 256) are
  in the model and in the proofs but are not reached in the run. Those of the trace
  are constants: two requests and their responses are up to four rows and four roots,
  of which three and two are allowed. Two requests have no two children of one event,
  so the limit on children, as that on nodes, acts in the proof only.

Symmetry is used for interchangeable model values and not in the runs with
fairness; `ImplementsLog`, in a run with symmetry, is a property of single steps
and treats keys and tasks alike. Deadlock is not checked where the supply of keys, events or
requests is finite and the model then stops, where the watcher may have ended, and
where the process may have panicked.

### Fairness

* `Worker`: weak fairness of each goroutine's steps. The Go scheduler runs every
  runnable goroutine, sleeps and timeouts end. Nothing obliges anybody to submit
  or to start a shutdown.
* `Observer`: weak fairness of the watcher's steps: the ticker ticks and the
  goroutine runs. Strong fairness of `ReadPolicy`: reads of a good file do not fail
  for ever, while any number of them may. The watcher tries again at every tick, as
  it remembers the time only of what it loaded; that is what the property tests.
  Nothing obliges anybody to edit the file or to stop the engine.

## 4. Proofs

| Module | Theorem | Assumptions |
|---|---|---|
| `ComponentProofs` (ring buffer, observer, evidence) | `RingInvariant`, `RingImplementsFifo`, `ObserverInvariant`, `SettledMeansFresh`, `EvidenceInvariant`, `ReportsAreOrdered`, `BagsAreComplete` | `RingAssumption` as a hypothesis of each theorem on the ring, `ObserverAssumption`, `EvidenceAssumption` |
| `InterceptorProofs` (interceptor, policy) | `InterceptorInvariant`, `BuffersAreExclusive`, `RecordsAreOwn`, `PolicyIsKept`, `TagsFollowPolicy` | `InterceptorAssumption`, `PolicyAssumption` |
| `TraceProofs` (extends `InterceptorProofs`) | `ParentsAreRanked`, `TracesShowDescendants` | the same, `TraceAssumption` |
| `WorkerProofs` | `WorkerInvariant`, `WakeupsAreNotLost`, `EventsAreHandledInOrder`, `ProcessorHasOneUser`, `OrderlyShutdownLosesNothing`, `UncountedWereRefused`, `HealthyMeansWritten`, `RingWorkerIsWorker`, `WorkerUsesRing` | `WorkerAssumption` |
| `LedgerProofs` (signer, ledger) | `SignerInvariant`, `HalvesOfTheKeyAgree`, `SigningKeyIsSaved`, `LedgerUsesSigner`, `LedgerInvariant`, `LedgerIsAChain`, `AssertionsHold`, `LedgerImplementsLog` | `SignerAssumption`, `LedgerAssumption`, `NoRowAssumption` |
| `RunProofs` (extends `LedgerProofs`) | `RunRecordIsTrue`, `CompletionsAreJustified` | the same |
| `AuditProofs` (extends `RunProofs`) | `OneKeyVerifies`, `ForksAreDetected`, `EventsListsTheTail`, `NormalRunsVerify` | the same, `AuditAssumption`; for `NormalRunsVerify` that no command writes the key file |
| `TelemetryProofs` | `PoolInvariant`, `OneOwner`, `NoLeaks`, `CounterInvariant`, `HistogramAddsUp`, `ScrapesAreConsistent` | `PoolAssumption`, `ClientAssumption`, `BucketAssumption` |

The assumptions say that markers for "none" are no real values, that goroutines and
processes with different code are different ones, and that sizes and limits are
numbers, positive where the code needs it. Two say more: `PolicyAssumption` gives
policies and bodies their types, with a method in every call, as `extractTaskMetadata`
asserts, and `TraceAssumption` is that there are finitely many requests and that the
trace shows as many nodes as there are rows read (100000 both).

Each proof is: the initial states satisfy the inductive invariant, every action
keeps it, it implies the property. The strengthenings are these.

* **Ring.** `tail = (head + count) % Capacity` and the queued slots hold pushed
  items. Lemmas about `%` on the slots carry the refinement: a push appends to,
  and a pop takes the head of, the sequence read off the array.
* **Worker** (`WorkerInv`). `NoLostWakeup` is not inductive, since a processor may
  go to rest at the end of its bounded loop. What is needed is that the loop
  always has enough iterations left for what is buffered, unless a token or a
  submitter about to send one covers the rest (`WakeupCovered`); similarly for
  the drain at shutdown (`DrainCovered`). The phase of the shutdown fixes which
  channels are closed and who may still run (`PhaseInv`). The drain loop asserts
  `Capacity <= maxDrainEvents` before it runs; the model takes that step too.
  `UncountedWereRefused` adds that an event is counted once (`CountedOnce`): it
  is submitted by one submitter, and a lost one is in nobody's hands. The
  set of submitters may be infinite; those with an event in hand are always finitely
  many. For `HealthyMeansWritten` the counter is the length of the list of handled
  events, and a failure is in that list only once the flag was set.
  `RingWorkerIsWorker` is step by step: an action of `WorkerRing` is one of `Worker`
  joined with one of the ring. `WorkerUsesRing` needs of `WorkerInv` that a submitter
  about to push has an event.
* **Signer** (`SignerInv`). Where a rotation stands says which of the file, the
  private and the public half have its key. The histories `overlapped` and
  `disturbed` name the two cases in which that fails.
* **Ledger** (`LedgerInv`). The event in a consumer's hands has, by the step it
  has reached, the index, the link and the hash that continue the chain. It needs
  that one consumer at a time is active unless a hand-over timed out. The
  refinement of `EventLog` follows, as the only inserts are of such events; it also
  needs that there is one run. `RunRecordIsTrue` needs, beside it, that what a run
  record says is of the genesis event still in the hands of `Start`.
* **Completion events** (`TaskInv` in `RunProofs`). A task is in the task states as
  active only if a row of it was written after its last completion event, and a
  consumer about to write a completion event has just written the terminal row.
* **Verification** (`HashDepth` and `OneKey` in `RunProofs`). With any number of
  goroutines, a hash commits to as many events as the index of its row says, as the
  index and the previous hash of an event come from two reads that agree or are
  rejected by the assertions. So of two rows with one index, one cannot extend the
  row that it is listed after, and the fork is found. Without a rotation, each row,
  and each event that is being signed, has the key of the key file.
  The first part of `AuditProofs` says what the sorted queries return of rows that
  form a chain, by counting the rows that come before each. `NormalRunsVerify` assumes that the only
  command is `backup-key`: `verify` and `restore-key` may replace the key in the
  file under the running server (section 5), and then `verify` does not pass.
* **Observer** (`ObserverInv`). No remembered time is later than the last edit;
  between the stat and the read the file is still newer than `lastMod`; between
  the read and the assignment, contents no newer than the stat are the ones read.
* **Interceptor** (`InterceptorInv`). The bytes in a buffer in use, and what was
  parsed from them, belong to its request or its response.
* **Policy** (`PolicyKept`). From the load of the rules to the submit, a call keeps
  the policy it is evaluated against, which was in force meanwhile; at each turn of
  the loop the rules before the present one were passed (`InLoop`), and after it the
  rule, if any, was selected (`AfterLoop`). Lemmas do the rest: a rule is passed or
  selected as it applies or not (`SelectsWhatApplies`), a pattern matches exactly the
  methods it covers, and on numbers spelled plainly `eq` means equality. For a request
  without parameters, the loop comes to no matching rule with conditions: it would
  have panicked there.
* **Trace** (`TraceInv`). There are an assignment of one task to each call and a rank
  for each call, such that the parent of a call has the same task and a lower rank.
  The parent is loaded and the last event stored in two steps, so the order of the
  rows is no such rank, as a child may be recorded before its parent. The witness is
  changed when a parent is loaded: the call, which is nobody's parent yet, gets the
  rank after its parent's.
  As ranks fall from child to parent, a chain of ancestors ends at a root. The walk
  is a loop with the invariant `WalkInv`: what is shown and what is on the stack are
  disjoint sets of the rows that were read, each turn shows one more, and the children
  of what is shown are shown or on the stack. So the stack never outgrows the limit on
  nodes, which is no less than that on rows, and the walk ends with an empty one.
* **Event pool** (`PoolInv`). A goroutine has an event exactly between its get and
  its submit or put, so a put never meets a second owner. Of earlier uses only the
  timestamp survives, anywhere, and every maker sets it, so that nothing is left
  of them when an event is submitted. Five lemmas cover the kinds of step (take,
  take a completion event, go on, give up, put a completion event).
* **Counters** (`CounterInv`). `Balance` counts the goroutines between two additions,
  of which there are finitely many although the set of submitters may be infinite;
  a step moves one goroutine and adds one to a counter, and the two cancel out. For
  the histogram this takes that adding one to a bucket adds one to the sum over all
  buckets. `Loaded` says that a scrape has of the buckets it has passed no more than
  they hold now, and of the processed events no more than there are.
* **Evidence** (`EvidenceInv`). Who has a connection and which step it is at; the
  values a command has read are ordered as its queries are and bounded by what is
  committed; while a command is alone with an orderly database, all that is
  committed is in the file.

What recursive definitions compute is proved by induction over the natural numbers
(`LeastNumber` and `Induction`): a set of numbers with no least element is empty, as
`<` is well founded, and a recursive function is shown first to exist and then to
have the values claimed.

Every invariant and every refinement that a run checks is also proved, but for
`EachHandledOnce` and `RingHoldsBuffer`. Only model-checked are these and the liveness
properties (`AcceptedIsHandled`, `ShutdownEnds`, `PolicyCatchesUp`), as fairness is out
of the prover's reach. `ImplementsFifo` is proved of the ring under any calls
(`RingImplementsFifo`), and the worker makes no others (`WorkerUsesRing`).

## 5. Disagreements between the code and its documents

Four have a run of their own (section 3). Of these, one needs a word here:

* `VerifyChain` checks every event against the one key of the key file
  (verify.go:76, logyctl verify.go:33), so after a rotation the events signed before
  it fail: `RotationKeepsVerification` is violated, and `OneKeyVerifies` proves
  exactly when a chain verifies. ROADMAP.md:84 lists "Rotation does not break chain
  verification", KEY_MANAGEMENT.md:100 shows "Overall: PASS (both keys valid for their
  respective ranges)", and line 103 says "Logryph CLI handles multi-key verification
  automatically by extracting public keys from run metadata".

The others were met while modelling:

* `Submit` checks for room and pushes in two critical sections. When another
  submitter takes the last slot in between, the event is gone and not counted
  (worker.go:269-271), although worker.go:30-31 and ARCHITECTURE.md:62 say that a
  drop at a full buffer increments the metrics. The counters of `Stats` therefore do
  not account for every event. `UncountedAreRefused` says that these events are the
  only ones they miss.
* Block mode drops an event after a bounded wait; README.md:52 says it keeps all
  records.
* `processedEvents` also counts events that could not be stored; handlers.go:239
  exports it as events "successfully written". `HealthyCountIsExact` is what holds.
* After a crash between `InsertRun` and the insert of the genesis event, the run
  never gets one (genesis.go:77); KEY_MANAGEMENT.md:15 has the key embedded there.
* `logyctl verify`, reading the key file while a rotation writes it, takes it for
  missing, generates a key and overwrites the rotated one (signer.go:25).
* `GetAllEvents` stops at a row limit without an error (events.go:123);
  ARCHITECTURE.md:67 says verify validates the entire chain.
* The event keeps the parameters as they were parsed; redaction changes only the
  forwarded body, whose length may then differ from the announced one, in which
  case the transport refuses it.
* A failed assertion in the interceptor aborts the request; ARCHITECTURE.md:48
  speaks of zero-blocking logic.
* An event that was lost hides its descendants in the trace, since they are
  listed under its identifier (ARCHITECTURE.md:68). So does one beyond the row limit
  (events.go:291), at which the query stops without an error. A task with more than
  10000 roots, of which every response is one, or children of one event ends the
  command in a panic (trace.go:87, 187).
* Two rotations that overlap run without a lock (signer.go:81); signer.go:13 says
  "Thread-safe for concurrent signature operations". Afterwards the key file, the
  private and the public half may be of different rotations. `HalvesAgree` and
  `KeyIsSaved` except this case (`overlapped`).
* After one event that could not be stored the health flag stays down for good
  (worker.go:487), and no response is recorded any more (server.go:297).
* A policy edited between the first load and the first stat of the watcher, or
  replaced by a file with an older time, is not loaded until the next edit
  (ARCHITECTURE.md:47).
* `eq` compares printed text (engine.go:239), so a number of 10^6 or more never equals
  its plain notation, and 1000 does not equal "1000.00". `TagFollowsPolicy` is stated
  for numbers that are spelled plainly.
* An evidence bag made while the server runs, or after a crash, may lack events its
  manifest counts: the copy leaves out the write-ahead log, and may mix pages of
  before and after a checkpoint. export.go:117 says "We allow reading the DB even if
  locked by WAL, usually." `BagIsComplete` names the case in which it is complete.
* The closes of the zip writer and of the zip file are deferred and their failure is
  only printed (export.go:92-103), so that `export` may report success for a bag that
  cannot be opened. `BagIsComplete` is about bags that were closed (`sealed`).
* The manifest's statistics and its last hash come from separate queries; the hash
  may cover more events than the statistics count, never fewer (`ReportIsOrdered`).
* `PutEvent` ends the process, by an assertion, when an event that was already
  stored has more than `maxEventFields` parameters (pool.go:84); pool.go:60 says
  that such an event is not returned to the pool.
* `GetEvent` promises "a clean Event with pre-allocated Params map" (pool.go:47). An
  event without parameters leaves its struct with none, and the timestamp is kept.
  `NothingLeaks` shows that no record is affected.
* A miss of the pool is counted as a hit too (pool.go:39, 54), so that hits are gets
  and not reuses, which pool.go:12-14 says they track.
* The exported histogram has the count of each bucket alone, not of it and those
  below, as the format of the export has it (handlers.go:313).
* `replay` posts no parameters: `GetEventByID` does not parse them.
* `ActiveTasks` is never emptied, although it is exported as the number of
  currently active tasks.

## 6. What is not modelled

* SHA-256, Ed25519 and canonical JSON are taken as perfect.
* SQLite statements are atomic, and durable once committed. What it does with its
  log file is modelled as far as `Evidence` needs it.
* The HTTP fetch of the Bitcoin anchor yields an anchor or an error;
  `VerifyAnchors` compares with a remote service.
* Flags, wiring, the dispatch of `logyctl`, logging, HTML and console output change
  no state. The same holds of the probes, the text format of the metrics, and of
  `replay`, `risk` and `status`, each of which reads the ledger once and prints it.
* `internal/assert/assert_release.go` does not compile beside `assert.go`; a failed
  assertion panics in the build there is.
* The mock agents generate traffic for experiments and are no part of the product.
* Event identifiers are taken as unique; an insert that fails is in the models
  whatever its cause. Time is only an order.

## 7. What could follow

A composition of `Worker` and `Ledger`, in which `ProcessEvent` is not one
step, with `Worker`'s step as the abstraction it implements. Today the two are
related by their text only: `Worker` assumes of storing an event that it ends
with success, an error or a panic, and `Ledger` of its callers that there is one
consumer until a hand-over timed out, which `OneConsumer` shows.
