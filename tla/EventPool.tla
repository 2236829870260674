----------------------------- MODULE EventPool -----------------------------
(***************************************************************************)
(* The event pool (internal/pool/pool.go) and the goroutines that pass its *)
(* events on: the handlers and the anchor loop get an event, fill it in    *)
(* and submit it; a consumer of the ring buffer stores it, with a          *)
(* completion event it gets itself, and puts both back.                    *)
(*                                                                         *)
(* Of an event the model keeps which fields hold a value of its present    *)
(* use, which still hold one of an earlier use, and whether its maps are   *)
(* beyond maxEventFields.  The order of the ring buffer and the counting   *)
(* of dropped events are left to module Worker.                            *)
(***************************************************************************)
EXTENDS Naturals, FiniteSets

CONSTANTS
  Obj,        \* event structs: enough for all that are in use at once
  NoObj,
  Client,     \* the goroutines that submit events
  QueueSize,  \* the capacity of the ring buffer
  MaxGets     \* bound: no client calls GetEvent once so many calls were counted

ASSUME PoolAssumption ==
  NoObj \notin Obj /\ QueueSize \in Nat /\ MaxGets \in Nat

Consumer == {"loop", "drain"}  \* processEvents, and drainBuffer at the shutdown

ASSUME ClientAssumption == Client \cap Consumer = {}

Actor == Client \cup Consumer

\* "task" stands for TaskID and TaskState, "tag" for PolicyID, RiskLevel and
\* ParentID, "chain" for what persistEvent writes.
Field    == {"id", "time", "method", "actor", "task", "tag", "chain", "params", "response"}
Contents == {"none", "some", "big"}  \* of a parsed map

Event == [own : SUBSET Field, old : SUBSET Field, big : BOOLEAN]

VARIABLES
  free,       \* eventPool
  ev,         \* the contents of each struct
  queued,     \* the events in the ring buffer
  pc, has,    \* each goroutine: its next step and the event in its hands
  extra,      \* each consumer: the completion event in its hands
  closing,    \* Shutdown has begun
  up,         \* the process has not panicked
  hits,       \* EventHits: the calls of GetEvent, of which a miss is one
  misses,     \* EventMisses: the structs that were made
  processed   \* processedEvents

poolVars    == <<free, ev>>
localVars   == <<pc, has, extra>>
counterVars == <<hits, misses, processed>>
eventPoolVars == <<poolVars, queued, localVars, closing, up, counterVars>>

-----------------------------------------------------------------------------
\* The contents of an event.

\* As eventPool.New makes it.  A struct nobody refers to is kept like this.
NewEvent == [own |-> {}, old |-> {}, big |-> FALSE]

\* The fields in to get a value, those in zero their zero value.
Set(e, to, zero) == [e EXCEPT !.own = @ \cup to, !.old = @ \ (to \cup zero)]

\* A map that was parsed becomes map f of the event.
SetMap(e, f, m) ==
  [e EXCEPT !.own = IF m = "none" THEN @ ELSE @ \cup {f},
            !.old = @ \ {f},
            !.big = (m = "big")]

\* Keys are added to the map that the event has.
AddKeys(e, f) == [e EXCEPT !.own = @ \cup {f}]

\* What each maker of events writes: given the optional fields and the map.
ToolCall(e, opt, m)     == SetMap(Set(e, {"id", "time", "method"} \cup opt, {"task"}), "params", m)
ToolResponse(e, opt, m) == SetMap(Set(e, {"id", "time"} \cup (opt \ {"tag"}), {"task"}), "response", m)
Anchor(e)               == AddKeys(Set(e, {"id", "time", "method", "actor"}, {}), "params")
TaskTerminal(e)         == AddKeys(Set(e, {"id", "time", "method", "task"}, {}), "params")

\* persistEvent: run, index, hashes and signature.
Persisted(e) == Set(e, {"chain"}, {})

\* PutEvent: all fields but the timestamp are cleared, the maps emptied.
ResetButTag(e) ==
  [e EXCEPT !.own = {}, !.old = (e.own \cup e.old) \cap {"time", "tag"}]

Reset(e) ==
  [e EXCEPT !.own = {}, !.old = (e.own \cup e.old) \cap {"time"}]

-----------------------------------------------------------------------------
\* The operations of the pool.

Held       == {has[a] : a \in Actor} \cup {extra[c] : c \in Consumer}
Referenced == free \cup queued \cup Held

\* eventPool.Get: any event of the pool, or a new one, as sync.Pool decides.
Got(o) ==
  \/ /\ o \in free /\ free' = free \ {o}
     /\ UNCHANGED <<ev, misses>>
  \/ /\ o \notin Referenced
     /\ ev' = [ev EXCEPT ![o] = NewEvent]
     /\ misses' = misses + 1
     /\ UNCHANGED free

\* The end of PutEvent.  With an oversized map it panics before.
Put(o) ==
  IF ev[o].big
  THEN up' = FALSE /\ UNCHANGED poolVars
  ELSE /\ free' = free \cup {o}
       /\ ev' = [ev EXCEPT ![o] = Reset(@)]
       /\ UNCHANGED up

\* The garbage collector may empty the pool.
Collect ==
  /\ up
  /\ \E o \in free : free' = free \ {o} /\ ev' = [ev EXCEPT ![o] = NewEvent]
  /\ UNCHANGED <<queued, localVars, closing, up, counterVars>>

-----------------------------------------------------------------------------
\* After Start.  A run that it created left the genesis event in the pool.

EventPoolInit ==
  /\ \/ free = {} /\ hits = 0 /\ ev = [o \in Obj |-> NewEvent]
     \/ \E g \in Obj :
          /\ free = {g} /\ hits = 1
          /\ ev = [o \in Obj |-> IF o = g THEN Reset(Anchor(NewEvent)) ELSE NewEvent]
  /\ misses = hits /\ processed = 0
  /\ queued = {} /\ closing = FALSE /\ up = TRUE
  /\ pc = [a \in Actor |-> "idle"] /\ has = [a \in Actor |-> NoObj]
  /\ extra = [c \in Consumer |-> NoObj]

GoTo(a, step) == pc' = [pc EXCEPT ![a] = step]

\* GetEvent: the event, and then the count.
GetEvent(p) ==
  /\ up /\ pc[p] = "idle" /\ hits < MaxGets
  /\ \E o \in Obj : Got(o) /\ has' = [has EXCEPT ![p] = o]
  /\ GoTo(p, "got")
  /\ UNCHANGED <<queued, extra, closing, up, hits, processed>>

CountHit(p) ==
  /\ up /\ pc[p] = "got"
  /\ hits' = hits + 1
  /\ GoTo(p, "fill")
  /\ UNCHANGED <<poolVars, queued, has, extra, closing, up, misses, processed>>

FillIn(p) ==
  /\ up /\ pc[p] = "fill"
  /\ \/ \E opt \in SUBSET {"task", "tag"}, m \in Contents :
          \/ ev' = [ev EXCEPT ![has[p]] = ToolCall(@, opt, m)]
          \/ ev' = [ev EXCEPT ![has[p]] = ToolResponse(@, opt, m)]
     \/ ev' = [ev EXCEPT ![has[p]] = Anchor(@)]
  /\ GoTo(p, "submit")
  /\ UNCHANGED <<free, queued, has, extra, closing, up, counterVars>>

\* Submit: the event is in the ring buffer, or dropped and nobody's.
SubmitAndPut(p) ==
  /\ up /\ pc[p] = "submit"
  /\ Cardinality(queued) < QueueSize /\ queued' = queued \cup {has[p]}
  /\ Put(has[p])
  /\ has' = [has EXCEPT ![p] = NoObj]
  /\ GoTo(p, "idle")
  /\ UNCHANGED <<extra, closing, counterVars>>

Submit(p) ==
  /\ up /\ pc[p] = "submit"
  /\ \/ /\ Cardinality(queued) < QueueSize /\ queued' = queued \cup {has[p]}
        /\ UNCHANGED ev
     \/ /\ closing \/ Cardinality(queued) = QueueSize
        /\ ev' = [ev EXCEPT ![has[p]] = NewEvent]
        /\ UNCHANGED queued
  /\ has' = [has EXCEPT ![p] = NoObj]
  /\ GoTo(p, "idle")
  /\ UNCHANGED <<free, extra, closing, up, hits, misses, processed>>

-----------------------------------------------------------------------------
\* A consumer.

Pop(c) ==
  /\ up /\ pc[c] = "idle" /\ (c = "drain" => closing)
  /\ \E o \in queued :
       queued' = queued \ {o} /\ has' = [has EXCEPT ![c] = o]
  /\ GoTo(c, "process")
  /\ UNCHANGED <<poolVars, extra, closing, up, counterVars>>

\* ProcessEvent, and whether it goes on to a completion event, which is for
\* an event with a task.  It may fail, and the event is used up all the same,
\* or panic.
Process(c) ==
  /\ up /\ pc[c] = "process"
  /\ \/ /\ ev' = [ev EXCEPT ![has[c]] = Persisted(@)]
        /\ \/ GoTo(c, "stored")
           \/ "task" \in ev[has[c]].own /\ GoTo(c, "complete")
        /\ UNCHANGED up
     \/ up' = FALSE /\ UNCHANGED <<ev, pc>>
  /\ UNCHANGED <<free, queued, has, extra, closing, counterVars>>

\* createTaskCompletionEvent.
GetTerminal(c) ==
  /\ up /\ pc[c] = "complete"
  /\ \E o \in Obj : Got(o) /\ extra' = [extra EXCEPT ![c] = o]
  /\ GoTo(c, "got")
  /\ UNCHANGED <<queued, has, closing, up, hits, processed>>

CountTerminal(c) ==
  /\ up /\ pc[c] = "got"
  /\ hits' = hits + 1
  /\ GoTo(c, "terminal")
  /\ UNCHANGED <<poolVars, queued, has, extra, closing, up, misses, processed>>

\* A failure to store it is a panic.
StoreTerminal(c) ==
  /\ up /\ pc[c] = "terminal"
  /\ \/ /\ ev' = [ev EXCEPT ![extra[c]] = Persisted(TaskTerminal(@))]
        /\ GoTo(c, "completed")
        /\ UNCHANGED up
     \/ up' = FALSE /\ UNCHANGED <<ev, pc>>
  /\ UNCHANGED <<free, queued, has, extra, closing, counterVars>>

PutTerminal(c) ==
  /\ up /\ pc[c] = "completed"
  /\ Put(extra[c])
  /\ extra' = [extra EXCEPT ![c] = NoObj]
  /\ GoTo(c, "stored")
  /\ UNCHANGED <<queued, has, closing, counterVars>>

\* After recordLatency (module Telemetry).
CountProcessed(c) ==
  /\ up /\ pc[c] = "timed"
  /\ processed' = processed + 1
  /\ GoTo(c, "done")
  /\ UNCHANGED <<poolVars, queued, has, extra, closing, up, hits, misses>>

PutEvent(c) ==
  /\ up /\ pc[c] = "done"
  /\ Put(has[c])
  /\ has' = [has EXCEPT ![c] = NoObj]
  /\ GoTo(c, "idle")
  /\ UNCHANGED <<queued, extra, closing, counterVars>>

\* Shutdown begins, and later comes to drainBuffer, in time or not.
StartShutdown ==
  /\ up /\ ~closing /\ closing' = TRUE
  /\ UNCHANGED <<poolVars, queued, localVars, up, counterVars>>

ClientStep(p) == GetEvent(p) \/ CountHit(p) \/ FillIn(p) \/ Submit(p)

ConsumerStep(c) ==
  \/ Pop(c) \/ Process(c) \/ GetTerminal(c) \/ CountTerminal(c) \/ StoreTerminal(c)
  \/ PutTerminal(c) \/ CountProcessed(c) \/ PutEvent(c)

EventPoolNext ==
  \/ \E p \in Client : ClientStep(p)
  \/ \E c \in Consumer : ConsumerStep(c)
  \/ StartShutdown \/ Collect
=============================================================================
