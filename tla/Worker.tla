-------------------------------- MODULE Worker --------------------------------
(***************************************************************************)
(* internal/ledger/worker.go: goroutines submit events to a bounded buffer *)
(* and signal a processor goroutine that drains it; the main goroutine     *)
(* shuts the worker down.  The buffer is the FIFO queue that RingBuffer is *)
(* proved to implement.  One action is one atomic step of one goroutine:   *)
(* an operation on the ring (under its mutex), on a channel or on an       *)
(* atomic.  Storing one event (EventProcessor.ProcessEvent) is one step    *)
(* here; module Ledger opens it up.                                        *)
(***************************************************************************)
EXTENDS Integers, Sequences, FiniteSets

CONSTANTS
  Event,             \* the events that may be submitted, each at most once
  Handler,           \* HTTP handler goroutines that call Submit
  Anchor,            \* the anchorLoop goroutine, which also calls Submit
  Capacity,          \* w.ringBuffer.Cap()
  MaxDrain,          \* maxDrainEvents
  MaxBlockAttempts,  \* maxBlockAttempts of Submit in block mode
  MaxSignalBatches,  \* maxSignalBatches
  NoEvent,           \* nil: a goroutine has no event in its hands
  Outcome            \* how storing an event may end while the database is open

\* main.go:56 and worker.go:54-60 and 242; a goroutine has one identity.
ASSUME WorkerAssumption ==
  /\ Capacity \in Nat \ {0}
  /\ MaxDrain \in Nat
  /\ MaxBlockAttempts \in Nat
  /\ MaxSignalBatches \in Nat
  /\ Anchor \notin Handler
  /\ NoEvent \notin Event
  /\ Outcome \subseteq {"ok", "error", "panic"}

Submitter == Handler \cup {Anchor}

\* The two copies of the drain loop: in processEvents and in drainBuffer.
Consumer == {"loop", "drain"}

VARIABLES
  mode,             \* backpressureMode, set before Start
  buffer,           \* the contents of ringBuffer, oldest first
  signal,           \* number of tokens in signalChan, which has room for one
  closing, quitClosed, signalClosed, dbOpen,
  isUnhealthy, processedEvents, droppedEvents, blockedSubmits,
  spc, arg, attempt,  \* each submitter: where in Submit, its event, loop count
  point, count, held, \* each consumer: where in its loop, j, the popped event
  loopExited, batch,  \* processEvents has returned; its loop count i
  shut,             \* where main is in gracefulShutdown
  http,             \* whether handlers may still be running
  waitTimedOut,     \* waitForStop gave up waiting
  crashed,          \* a goroutine other than a handler panicked
  \* History: what has been submitted, pushed and taken through ProcessEvent,
  \* the events whose Push failed and the ones that could not be stored.
  submitted, accepted, handled, lost, failed

bufferVars  == <<buffer, signal>>
submitVars  == <<spc, arg, attempt>>
loopVars    == <<point, count, held, loopExited, batch>>
channelVars == <<closing, quitClosed, signalClosed, dbOpen>>
stopVars    == <<shut, http, waitTimedOut, crashed>>
metricVars  == <<isUnhealthy, processedEvents, droppedEvents, blockedSubmits>>
historyVars == <<submitted, accepted, handled, lost, failed>>
vars == <<mode, bufferVars, submitVars, loopVars, channelVars, stopVars,
          metricVars, historyVars>>

Running == ~crashed /\ shut # "stopped"

IsFull == Len(buffer) = Capacity

-----------------------------------------------------------------------------
\* Start: both goroutines run and nothing has been submitted.

Init ==
  /\ mode \in {"drop", "block"}
  /\ buffer = <<>> /\ signal = 0
  /\ closing = FALSE /\ quitClosed = FALSE /\ signalClosed = FALSE /\ dbOpen = TRUE
  /\ isUnhealthy = FALSE
  /\ processedEvents = 0 /\ droppedEvents = 0 /\ blockedSubmits = 0
  /\ spc = [s \in Submitter |-> "idle"]
  /\ arg = [s \in Submitter |-> NoEvent]
  /\ attempt = [s \in Submitter |-> 0]
  /\ point = [c \in Consumer |-> "rest"]
  /\ count = [c \in Consumer |-> 0]
  /\ held = [c \in Consumer |-> NoEvent]
  /\ loopExited = FALSE /\ batch = 0
  /\ shut = "run" /\ http = "serving" /\ waitTimedOut = FALSE /\ crashed = FALSE
  /\ submitted = {} /\ accepted = <<>> /\ handled = <<>>
  /\ lost = {} /\ failed = {}

-----------------------------------------------------------------------------
\* Submit, one action per atomic step.

\* Submit returns to its caller; the event of s is no longer in its hands.
Return(s) ==
  /\ spc' = [spc EXCEPT ![s] = "idle"]
  /\ arg' = [arg EXCEPT ![s] = NoEvent]
  /\ attempt' = [attempt EXCEPT ![s] = 0]

GoTo(s, label) ==
  /\ spc' = [spc EXCEPT ![s] = label]
  /\ UNCHANGED <<arg, attempt>>

DropEvent(s) ==
  /\ Return(s)
  /\ droppedEvents' = droppedEvents + 1
  /\ UNCHANGED <<isUnhealthy, processedEvents, blockedSubmits>>

\* The call and the first check of closing.  The anchor loop calls Submit
\* after its ticker fired and the fetch succeeded; a failed fetch changes
\* nothing.
SubmitCall(s, e) ==
  /\ Running
  /\ spc[s] = "idle"
  /\ s \in Handler => http # "stopped"
  /\ e \notin submitted
  /\ submitted' = submitted \cup {e}
  /\ \/ /\ closing
        /\ DropEvent(s)
     \/ /\ ~closing
        /\ spc' = [spc EXCEPT ![s] = IF mode = "block" THEN "attempt" ELSE "room"]
        /\ arg' = [arg EXCEPT ![s] = e]
        /\ UNCHANGED <<attempt, metricVars>>
  /\ UNCHANGED <<mode, bufferVars, loopVars, channelVars, stopVars,
                 accepted, handled, lost, failed>>

\* The head of the loop of block mode: leave it when there is room or when
\* the attempts are used up.
BlockAttempt(s) ==
  /\ Running
  /\ spc[s] = "attempt"
  /\ \/ /\ attempt[s] < MaxBlockAttempts /\ IsFull
        /\ GoTo(s, "blocked")
     \/ /\ attempt[s] = MaxBlockAttempts \/ ~IsFull
        /\ GoTo(s, "room")
  /\ UNCHANGED <<mode, bufferVars, loopVars, channelVars, stopVars,
                 metricVars, historyVars>>

BlockWaitDropNotCounted(s) ==
  /\ Running
  /\ spc[s] = "blocked"
  /\ \/ /\ closing
        /\ Return(s)
        /\ UNCHANGED metricVars
     \/ /\ ~closing
        /\ spc' = [spc EXCEPT ![s] = "attempt"]
        /\ attempt' = [attempt EXCEPT ![s] = @ + 1]
        /\ blockedSubmits' = blockedSubmits + 1
        /\ UNCHANGED <<arg, isUnhealthy, processedEvents, droppedEvents>>
  /\ UNCHANGED <<mode, bufferVars, loopVars, channelVars, stopVars, historyVars>>

\* The body of that loop: give up when the worker is closing, else sleep.
BlockWait(s) ==
  /\ Running
  /\ spc[s] = "blocked"
  /\ \/ /\ closing
        /\ DropEvent(s)
     \/ /\ ~closing
        /\ spc' = [spc EXCEPT ![s] = "attempt"]
        /\ attempt' = [attempt EXCEPT ![s] = @ + 1]
        /\ blockedSubmits' = blockedSubmits + 1
        /\ UNCHANGED <<arg, isUnhealthy, processedEvents, droppedEvents>>
  /\ UNCHANGED <<mode, bufferVars, loopVars, channelVars, stopVars, historyVars>>

\* The IsFull check both modes make before they push.
CheckRoom(s) ==
  /\ Running
  /\ spc[s] = "room"
  /\ \/ /\ IsFull
        /\ DropEvent(s)
     \/ /\ ~IsFull
        /\ GoTo(s, "push")
        /\ UNCHANGED metricVars
  /\ UNCHANGED <<mode, bufferVars, loopVars, channelVars, stopVars, historyVars>>

\* ringBuffer.Push.  A full buffer is an error that is logged and no more.
PushEvent(s) ==
  /\ Running
  /\ spc[s] = "push"
  /\ \/ /\ IsFull
        /\ Return(s)
        /\ lost' = lost \cup {arg[s]}
        /\ UNCHANGED <<buffer, accepted>>
     \/ /\ ~IsFull
        /\ buffer' = Append(buffer, arg[s])
        /\ accepted' = Append(accepted, arg[s])
        /\ spc' = [spc EXCEPT ![s] = "signal"]
        /\ arg' = [arg EXCEPT ![s] = NoEvent]
        /\ UNCHANGED <<attempt, lost>>
  /\ UNCHANGED <<mode, signal, loopVars, channelVars, stopVars, metricVars,
                 submitted, handled, failed>>

\* The non-blocking send.  A send on the closed channel panics: net/http
\* recovers a handler's panic, the anchor loop's ends the process.
SignalWorker(s) ==
  /\ Running
  /\ spc[s] = "signal"
  /\ \/ /\ ~signalClosed
        /\ signal' = 1
        /\ Return(s)
        /\ UNCHANGED crashed
     \/ /\ signalClosed
        /\ crashed' = (s = Anchor)
        /\ Return(s)
        /\ UNCHANGED signal
  /\ UNCHANGED <<mode, buffer, loopVars, channelVars, shut, http, waitTimedOut,
                 metricVars, historyVars>>

\* anchorLoop takes the quit case of its select.
AnchorQuit ==
  /\ Running
  /\ quitClosed
  /\ spc[Anchor] = "idle"
  /\ GoTo(Anchor, "exit")
  /\ UNCHANGED <<mode, bufferVars, loopVars, channelVars, stopVars, metricVars,
                 historyVars>>

-----------------------------------------------------------------------------
\* processEvents and drainBuffer.

\* Entering a drain loop asserts that one pass of it can empty the buffer.
StartDrain(c) ==
  IF Capacity <= MaxDrain
  THEN /\ point' = [point EXCEPT ![c] = "check"]
       /\ count' = [count EXCEPT ![c] = 0]
       /\ UNCHANGED <<held, crashed>>
  ELSE /\ crashed' = TRUE
       /\ UNCHANGED <<point, count, held>>

\* A token is received, also from a closed channel while one is buffered.
LoopReceive ==
  /\ Running
  /\ point["loop"] = "rest" /\ ~loopExited
  /\ batch < MaxSignalBatches
  /\ signal = 1
  /\ signal' = 0
  /\ batch' = batch + 1
  /\ StartDrain("loop")
  /\ UNCHANGED <<mode, buffer, submitVars, loopExited, channelVars, shut, http,
                 waitTimedOut, metricVars, historyVars>>

\* signalChan is closed and empty: processEvents returns.
LoopExit ==
  /\ Running
  /\ point["loop"] = "rest" /\ ~loopExited
  /\ batch < MaxSignalBatches
  /\ signal = 0 /\ signalClosed
  /\ loopExited' = TRUE
  /\ UNCHANGED <<mode, bufferVars, submitVars, point, count, held, batch,
                 channelVars, stopVars, metricVars, historyVars>>

\* The loop over batches runs out and its closing assertion panics.
LoopExhausted ==
  /\ Running
  /\ point["loop"] = "rest" /\ ~loopExited
  /\ batch = MaxSignalBatches
  /\ crashed' = TRUE
  /\ UNCHANGED <<mode, bufferVars, submitVars, loopVars, channelVars, shut, http,
                 waitTimedOut, metricVars, historyVars>>

DrainCheckOffByOne(c) ==
  /\ Running
  /\ point[c] = "check"
  /\ point' = [point EXCEPT ![c] =
                 IF count[c] + 1 < MaxDrain /\ buffer # <<>> THEN "pop" ELSE "rest"]
  /\ UNCHANGED <<mode, bufferVars, submitVars, count, held, loopExited, batch,
                 channelVars, stopVars, metricVars, historyVars>>

\* The head of the drain loop and IsEmpty.
DrainCheck(c) ==
  /\ Running
  /\ point[c] = "check"
  /\ point' = [point EXCEPT ![c] =
                 IF count[c] < MaxDrain /\ buffer # <<>> THEN "pop" ELSE "rest"]
  /\ UNCHANGED <<mode, bufferVars, submitVars, count, held, loopExited, batch,
                 channelVars, stopVars, metricVars, historyVars>>

\* Without the mutex of the ring: the other consumer reads the same slot.
DrainPopUnlocked(c) ==
  /\ Running
  /\ point[c] = "pop"
  /\ \/ /\ buffer # <<>>
        /\ buffer' = IF \E d \in Consumer \ {c} : point[d] = "pop"
                     THEN buffer ELSE Tail(buffer)
        /\ held' = [held EXCEPT ![c] = Head(buffer)]
        /\ point' = [point EXCEPT ![c] = "process"]
     \/ /\ buffer = <<>>
        /\ point' = [point EXCEPT ![c] = "rest"]
        /\ UNCHANGED <<buffer, held>>
  /\ UNCHANGED <<mode, signal, submitVars, count, loopExited, batch, channelVars,
                 stopVars, metricVars, historyVars>>

\* ringBuffer.Pop; the other consumer may have emptied the buffer meanwhile.
DrainPop(c) ==
  /\ Running
  /\ point[c] = "pop"
  /\ \/ /\ buffer # <<>>
        /\ buffer' = Tail(buffer)
        /\ held' = [held EXCEPT ![c] = Head(buffer)]
        /\ point' = [point EXCEPT ![c] = "process"]
     \/ /\ buffer = <<>>
        /\ point' = [point EXCEPT ![c] = "rest"]
        /\ UNCHANGED <<buffer, held>>
  /\ UNCHANGED <<mode, signal, submitVars, count, loopExited, batch, channelVars,
                 stopVars, metricVars, historyVars>>

ProcessHeldDrainForgets(c) ==
  /\ Running
  /\ point[c] = "process"
  /\ \E o \in IF dbOpen THEN Outcome ELSE {"panic"} :
       \/ /\ o = "panic"
          /\ crashed' = TRUE
          /\ UNCHANGED <<point, count, held, handled, failed, isUnhealthy,
                         processedEvents>>
       \/ /\ o # "panic"
          /\ isUnhealthy' = (isUnhealthy \/ (o = "error" /\ c = "loop"))
          /\ failed' = IF o = "error" THEN failed \cup {held[c]} ELSE failed
          /\ processedEvents' = processedEvents + 1
          /\ handled' = Append(handled, held[c])
          /\ held' = [held EXCEPT ![c] = NoEvent]
          /\ count' = [count EXCEPT ![c] = @ + 1]
          /\ point' = [point EXCEPT ![c] = "check"]
          /\ UNCHANGED crashed
  /\ UNCHANGED <<mode, bufferVars, submitVars, loopExited, batch, channelVars,
                 shut, http, waitTimedOut, droppedEvents, blockedSubmits,
                 submitted, accepted, lost>>

\* ProcessEvent and the bookkeeping after it.  An event that could not be
\* stored marks the worker unhealthy and is counted as processed all the
\* same.  On a closed database GetRunStats fails, which the processor
\* asserts against: a panic.
ProcessHeld(c) ==
  /\ Running
  /\ point[c] = "process"
  /\ \E o \in IF dbOpen THEN Outcome ELSE {"panic"} :
       \/ /\ o = "panic"
          /\ crashed' = TRUE
          /\ UNCHANGED <<point, count, held, handled, failed, isUnhealthy,
                         processedEvents>>
       \/ /\ o # "panic"
          /\ isUnhealthy' = (isUnhealthy \/ o = "error")
          /\ failed' = IF o = "error" THEN failed \cup {held[c]} ELSE failed
          /\ processedEvents' = processedEvents + 1
          /\ handled' = Append(handled, held[c])
          /\ held' = [held EXCEPT ![c] = NoEvent]
          /\ count' = [count EXCEPT ![c] = @ + 1]
          /\ point' = [point EXCEPT ![c] = "check"]
          /\ UNCHANGED crashed
  /\ UNCHANGED <<mode, bufferVars, submitVars, loopExited, batch, channelVars,
                 shut, http, waitTimedOut, droppedEvents, blockedSubmits,
                 submitted, accepted, lost>>

-----------------------------------------------------------------------------
\* gracefulShutdown of main.go and Shutdown of the worker.

StopHTTPWithoutWaiting ==
  /\ Running
  /\ shut = "run"
  /\ http' = "stopped"
  /\ shut' = "closing"
  /\ UNCHANGED <<mode, bufferVars, submitVars, loopVars, channelVars,
                 waitTimedOut, crashed, metricVars, historyVars>>

\* The HTTP servers are shut down: every handler has returned, or the
\* timeout passed and some may still be running.
StopHTTP ==
  /\ Running
  /\ shut = "run"
  /\ \/ /\ \A h \in Handler : spc[h] = "idle"
        /\ http' = "stopped"
     \/ http' = "timedOut"
  /\ shut' = "closing"
  /\ UNCHANGED <<mode, bufferVars, submitVars, loopVars, channelVars,
                 waitTimedOut, crashed, metricVars, historyVars>>

SetClosing ==
  /\ Running
  /\ shut = "closing"
  /\ closing' = TRUE
  /\ shut' = "quit"
  /\ UNCHANGED <<mode, bufferVars, submitVars, loopVars, quitClosed, signalClosed,
                 dbOpen, http, waitTimedOut, crashed, metricVars, historyVars>>

CloseQuit ==
  /\ Running
  /\ shut = "quit"
  /\ quitClosed' = TRUE
  /\ shut' = "signal"
  /\ UNCHANGED <<mode, bufferVars, submitVars, loopVars, closing, signalClosed,
                 dbOpen, http, waitTimedOut, crashed, metricVars, historyVars>>

CloseSignal ==
  /\ Running
  /\ shut = "signal"
  /\ signalClosed' = TRUE
  /\ shut' = "wait"
  /\ UNCHANGED <<mode, bufferVars, submitVars, loopVars, closing, quitClosed,
                 dbOpen, http, waitTimedOut, crashed, metricVars, historyVars>>

BothStoppedAnchorOnly == spc[Anchor] = "exit"

BothStopped == loopExited /\ spc[Anchor] = "exit"

\* waitForStop, whose timeout is only logged, and the start of drainBuffer.
WaitForStop ==
  /\ Running
  /\ shut = "wait"
  /\ \/ /\ BothStopped
        /\ UNCHANGED waitTimedOut
     \/ /\ ~BothStopped
        /\ waitTimedOut' = TRUE
  /\ shut' = "drain"
  /\ StartDrain("drain")
  /\ UNCHANGED <<mode, bufferVars, submitVars, loopExited, batch, channelVars,
                 http, metricVars, historyVars>>

CloseDBWhileDraining ==
  /\ Running
  /\ shut = "drain"
  /\ dbOpen' = FALSE
  /\ shut' = "exit"
  /\ UNCHANGED <<mode, bufferVars, submitVars, loopVars, closing, quitClosed,
                 signalClosed, http, waitTimedOut, crashed, metricVars, historyVars>>

CloseDBWhenEmpty ==
  /\ Running
  /\ shut = "drain"
  /\ point["drain"] = "rest"
  /\ buffer = <<>>
  /\ dbOpen' = FALSE
  /\ shut' = "exit"
  /\ UNCHANGED <<mode, bufferVars, submitVars, loopVars, closing, quitClosed,
                 signalClosed, http, waitTimedOut, crashed, metricVars, historyVars>>

CloseDB ==
  /\ Running
  /\ shut = "drain"
  /\ point["drain"] = "rest"
  /\ dbOpen' = FALSE
  /\ shut' = "exit"
  /\ UNCHANGED <<mode, bufferVars, submitVars, loopVars, closing, quitClosed,
                 signalClosed, http, waitTimedOut, crashed, metricVars, historyVars>>

\* main returns, which ends every goroutine that still runs.
Exit ==
  /\ Running
  /\ shut = "exit"
  /\ shut' = "stopped"
  /\ UNCHANGED <<mode, bufferVars, submitVars, loopVars, channelVars, http,
                 waitTimedOut, crashed, metricVars, historyVars>>

Terminated == ~Running /\ UNCHANGED vars

-----------------------------------------------------------------------------

SubmitStep(s) ==
  BlockAttempt(s) \/ BlockWait(s) \/ CheckRoom(s) \/ PushEvent(s) \/ SignalWorker(s)

LoopStep == LoopReceive \/ LoopExit \/ LoopExhausted

DrainStep(c) == DrainCheck(c) \/ DrainPop(c) \/ ProcessHeld(c)

ShutdownStep ==
  SetClosing \/ CloseQuit \/ CloseSignal \/ WaitForStop \/ CloseDB \/ Exit

Next ==
  \/ \E s \in Submitter, e \in Event : SubmitCall(s, e)
  \/ \E s \in Submitter : SubmitStep(s)
  \/ AnchorQuit
  \/ LoopStep
  \/ \E c \in Consumer : DrainStep(c)
  \/ StopHTTP
  \/ ShutdownStep
  \/ Terminated

Spec == Init /\ [][Next]_vars

\* The Go scheduler runs every goroutine that can take a step, and a sleep
\* or a timeout ends.  Nobody has to submit an event or to stop the program.
Fairness ==
  /\ \A s \in Submitter : WF_vars(SubmitStep(s))
  /\ WF_vars(AnchorQuit)
  /\ WF_vars(LoopStep)
  /\ \A c \in Consumer : WF_vars(DrainStep(c))
  /\ WF_vars(ShutdownStep)

FairSpec == Spec /\ Fairness

-----------------------------------------------------------------------------

FlagTypes ==
  /\ closing \in BOOLEAN /\ quitClosed \in BOOLEAN
  /\ signalClosed \in BOOLEAN /\ dbOpen \in BOOLEAN
  /\ isUnhealthy \in BOOLEAN /\ loopExited \in BOOLEAN
  /\ waitTimedOut \in BOOLEAN /\ crashed \in BOOLEAN

DataTypes ==
  /\ mode \in {"drop", "block"}
  /\ buffer \in Seq(Event) /\ Len(buffer) <= Capacity
  /\ signal \in {0, 1}
  /\ processedEvents \in Nat /\ droppedEvents \in Nat /\ blockedSubmits \in Nat
  /\ batch \in 0 .. MaxSignalBatches
  /\ shut \in {"run", "closing", "quit", "signal", "wait", "drain", "exit", "stopped"}
  /\ http \in {"serving", "stopped", "timedOut"}
  /\ submitted \subseteq Event /\ lost \subseteq Event /\ failed \subseteq Event
  /\ accepted \in Seq(Event) /\ handled \in Seq(Event)

GoroutineTypes ==
  /\ spc \in [Submitter -> {"idle", "attempt", "blocked", "room", "push",
                            "signal", "exit"}]
  /\ arg \in [Submitter -> Event \cup {NoEvent}]
  /\ attempt \in [Submitter -> 0 .. MaxBlockAttempts]
  /\ point \in [Consumer -> {"rest", "check", "pop", "process"}]
  /\ count \in [Consumer -> 0 .. MaxDrain]
  /\ held \in [Consumer -> Event \cup {NoEvent}]

TypeOK == FlagTypes /\ DataTypes /\ GoroutineTypes

(* No lost wake-up: while the worker is open, a processor that waits for a *)
(* signal with events in the buffer has a token waiting for it, or the     *)
(* submitter of one of them is still to send one (worker.go:275 drops a    *)
(* token when one is pending, worker.go:477 bounds the drain after one).   *)
NoLostWakeup ==
  (~crashed /\ ~signalClosed /\ point["loop"] = "rest" /\ buffer # <<>>)
    => signal = 1 \/ \E s \in Submitter : spc[s] = "signal"

InHand(c) == IF held[c] = NoEvent THEN <<>> ELSE <<held[c]>>

(* Unless waitForStop timed out, every event that Push accepted is taken   *)
(* through ProcessEvent once and in the order of the pushes, across the    *)
(* hand-over from processEvents to drainBuffer: what was accepted is what  *)
(* was handled, then what a consumer holds, then what is still buffered.   *)
HandledInOrder ==
  ~waitTimedOut => accepted = handled \o InHand("loop") \o InHand("drain") \o buffer

(* Also when waitForStop timed out and both consumers drain the buffer     *)
(* (worker.go:347-350), an event that Push accepted is taken through       *)
(* ProcessEvent at most once and is not lost on the way: it is handled, in *)
(* the hands of one consumer, or buffered, and in one of these places.     *)
EachHandledOnce ==
  LET all == handled \o InHand("loop") \o InHand("drain") \o buffer
      places == {all[i] : i \in DOMAIN all}
  IN  places = {accepted[i] : i \in DOMAIN accepted} /\ Len(all) = Cardinality(places)

(* Unless waitForStop timed out, one goroutine at a time uses the          *)
(* EventProcessor, whose task table and read-then-insert of the last event *)
(* have no lock, and nothing uses it once the database is closed.          *)
OneConsumer ==
  ~waitTimedOut =>
    /\ point["drain"] = "rest" \/ point["loop"] = "rest"
    /\ dbOpen \/ \A c \in Consumer : point[c] = "rest"

(* A shutdown in which nothing timed out and nothing crashed leaves no     *)
(* event behind in the buffer or in the hands of a goroutine               *)
(* (drainBuffer of Shutdown, worker.go:350).                               *)
OrderlyShutdownDrains ==
  (shut = "stopped" /\ http = "stopped" /\ ~waitTimedOut /\ ~crashed)
    => /\ buffer = <<>> /\ \A c \in Consumer : held[c] = NoEvent
       /\ \A s \in Submitter : arg[s] = NoEvent

(* The counters of Stats miss an event that is no longer under way only    *)
(* when Push refused it: another goroutine took the last slot after the    *)
(* check of IsFull, and Submit logs the error and counts nothing           *)
(* (worker.go:269-271).  "If the buffer is full, events are dropped and    *)
(* metrics are incremented" (worker.go:30-31) is true of every other way   *)
(* an event is given up before it is in the buffer.                        *)
UncountedAreRefused ==
  Cardinality(submitted)
    = processedEvents + droppedEvents + Cardinality(lost) + Len(buffer)
      + Cardinality({c \in Consumer : held[c] # NoEvent})
      + Cardinality({s \in Submitter : arg[s] # NoEvent})

(* As long as the worker is healthy, the counter that the metrics export   *)
(* as events successfully written (handlers.go:239) is the number of       *)
(* events that were written, whichever goroutine processed them            *)
(* (worker.go:415-421, 486-491).                                           *)
HealthyCountIsExact ==
  ~isUnhealthy /\ ~crashed => processedEvents = Len(handled) - Cardinality(failed)

(* Every event that Push accepted is eventually taken through ProcessEvent *)
(* unless the process ends first: no token is lost between batches.  The   *)
(* n-th accepted event is the n-th handled one, by HandledInOrder.         *)
AcceptedIsHandled ==
  \A n \in 1 .. Cardinality(Event) :
    (Len(accepted) >= n) ~> (Len(handled) >= n \/ ~Running)

(* Once Shutdown has begun the process ends, however many handlers are     *)
(* still submitting (worker.go:333).                                       *)
ShutdownEnds == closing ~> ~Running

-----------------------------------------------------------------------------
\* What the roadmap says of the worker, for the run that refutes it.

(* ROADMAP.md:45: "No data loss on SIGINT/SIGTERM with active load", here  *)
(* already without any timeout and with every handler gone.                *)
NoDataLossOnShutdown ==
  (closing /\ ~Running /\ http = "stopped" /\ ~waitTimedOut) => handled = accepted

-----------------------------------------------------------------------------
\* The inductive invariant behind the safety properties.

\* Where main is in Shutdown fixes what is closed.
FlagPhase ==
  /\ closing <=> shut \in {"quit", "signal", "wait", "drain", "exit", "stopped"}
  /\ quitClosed <=> shut \in {"signal", "wait", "drain", "exit", "stopped"}
  /\ signalClosed <=> shut \in {"wait", "drain", "exit", "stopped"}
  /\ dbOpen <=> shut \notin {"exit", "stopped"}

\* Which goroutines can still run in each phase.
StopPhase ==
  /\ point["drain"] # "rest" => shut = "drain"
  /\ loopExited => signalClosed /\ point["loop"] = "rest"
  /\ (~waitTimedOut /\ shut \in {"drain", "exit", "stopped"}) => BothStopped
  /\ http = "stopped" => \A h \in Handler : spc[h] = "idle"

\* A submitter and a consumer hold an event exactly in the steps that need it.
SubmitterHolds ==
  \A s \in Submitter :
    /\ \/ spc[s] \in {"idle", "signal", "exit"} /\ arg[s] = NoEvent
       \/ spc[s] \in {"attempt", "blocked", "room", "push"} /\ arg[s] # NoEvent
    /\ spc[s] = "blocked" => attempt[s] < MaxBlockAttempts

ConsumerHolds ==
  \A c \in Consumer :
    \/ point[c] \in {"rest", "check"} /\ held[c] = NoEvent
    \/ point[c] = "pop" /\ held[c] = NoEvent /\ count[c] < MaxDrain
    \/ point[c] = "process" /\ held[c] # NoEvent /\ count[c] < MaxDrain

PhaseInv == FlagPhase /\ StopPhase /\ SubmitterHolds /\ ConsumerHolds

\* The drain loop of c has iterations left for all that is buffered.
EnoughIterations(c) ==
  \/ point[c] = "rest" /\ buffer = <<>>
  \/ point[c] \in {"check", "pop"} /\ Len(buffer) <= MaxDrain - count[c]
  \/ point[c] = "process" /\ Len(buffer) < MaxDrain - count[c]

\* While the worker is open, what is buffered is covered by a token, by a
\* submitter about to send one, or by the pass of processEvents under way.
WakeupCovered ==
  (~crashed /\ ~signalClosed)
    => \/ signal = 1
       \/ \E s \in Submitter : spc[s] = "signal"
       \/ EnoughIterations("loop")

\* Once nobody can push any more, drainBuffer can empty the buffer.
DrainCovered ==
  (/\ ~crashed /\ ~waitTimedOut
   /\ shut \in {"drain", "exit", "stopped"} /\ http = "stopped")
    => EnoughIterations("drain")

(* The strengthening that makes NoLostWakeup, HandledInOrder, OneConsumer  *)
(* and OrderlyShutdownDrains inductive: the state of the goroutines fits   *)
(* the phase of the shutdown, and the bounded drain loops (worker.go:408   *)
(* and 477) always have enough iterations left for what is buffered.       *)
WorkerInv == TypeOK /\ PhaseInv /\ WakeupCovered /\ DrainCovered /\ HandledInOrder
=============================================================================
