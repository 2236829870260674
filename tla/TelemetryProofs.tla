--------------------------- MODULE TelemetryProofs ---------------------------
(***************************************************************************)
(* Proofs about the event pool and its counters, for any number of         *)
(* goroutines, of event structs and of buckets: a struct has one owner,    *)
(* what is stored of an event never stems from an earlier use of its       *)
(* struct, and the counters, the histogram and a scrape of them differ by  *)
(* no more than the goroutines between two additions.                      *)
(***************************************************************************)
EXTENDS Telemetry, FiniteSetTheorems, WellFoundedInduction, TLAPS

USE PoolAssumption, ClientAssumption DEF PoolAssumption, ClientAssumption

\* The part of the type invariant that the proofs use.
StructTypes ==
  /\ free \subseteq Obj /\ queued \subseteq Obj /\ ev \in [Obj -> Event]
  /\ has \in [Actor -> Obj \cup {NoObj}] /\ extra \in [Consumer -> Obj \cup {NoObj}]

Step == {"idle", "got", "fill", "submit", "process", "complete", "terminal",
         "completed", "stored", "zero", "count", "timed", "done"}

RestTypes ==
  /\ pc \in [Actor -> Step]
  /\ hits \in Nat /\ misses \in Nat /\ processed \in Nat

FlagTypes == closing \in BOOLEAN /\ up \in BOOLEAN

LEMMA TypesSplit == EventPoolTypeOK <=> StructTypes /\ RestTypes /\ FlagTypes
BY Zenon DEF EventPoolTypeOK, StructTypes, RestTypes, FlagTypes, Step

OnlyTime == \A o \in Obj : ev[o].old \subseteq {"time"}

-----------------------------------------------------------------------------
\* The contents of an event.

(* What each maker of events leaves, and what PutEvent does.               *)
LEMMA NewEventClean == NewEvent \in Event /\ NewEvent.old = {}
BY SMT DEF NewEvent, Event, Field

LEMMA Parts ==
  ASSUME NEW e \in Event
  PROVE  e.own \in SUBSET Field /\ e.old \in SUBSET Field
BY SMT DEF Event

LEMMA SetEffect ==
  ASSUME NEW e \in Event, NEW to \in SUBSET Field, NEW zero \in SUBSET Field
  PROVE  Set(e, to, zero) \in Event /\ Set(e, to, zero).old = e.old \ (to \cup zero)
<1> DEFINE a == e.own \cup to
           b == e.old \ (to \cup zero)
<1>1. a \in SUBSET Field /\ b \in SUBSET Field
  BY Parts, SMT
<1>2. Set(e, to, zero) = [e EXCEPT !.own = a, !.old = b]
  BY Zenon DEF Set
<1> HIDE DEF a, b
<1>3. [e EXCEPT !.own = a, !.old = b] \in Event
  BY <1>1, Zenon DEF Event
<1>4. [e EXCEPT !.own = a, !.old = b].old = b
  BY SMT DEF Event
<1>5. Set(e, to, zero) \in Event /\ Set(e, to, zero).old = b
  BY <1>2, <1>3, <1>4
<1> QED BY <1>5, Zenon DEF b

LEMMA SetMapEffect ==
  ASSUME NEW e \in Event, NEW f \in Field, NEW m
  PROVE  SetMap(e, f, m) \in Event /\ SetMap(e, f, m).old = e.old \ {f}
<1> DEFINE a == IF m = "none" THEN e.own ELSE e.own \cup {f}
           b == e.old \ {f}
           c == (m = "big")
<1>1. a \in SUBSET Field /\ b \in SUBSET Field
  BY Parts, SMT
<1>2. c \in BOOLEAN
  BY Zenon
<1>3. SetMap(e, f, m) = [e EXCEPT !.own = a, !.old = b, !.big = c]
  BY Zenon DEF SetMap
<1> HIDE DEF a, b, c
<1>4. [e EXCEPT !.own = a, !.old = b, !.big = c] \in Event
  BY <1>1, <1>2, Zenon DEF Event
<1>5. [e EXCEPT !.own = a, !.old = b, !.big = c].old = b
  BY SMT DEF Event
<1>6. SetMap(e, f, m) \in Event /\ SetMap(e, f, m).old = b
  BY <1>3, <1>4, <1>5
<1> QED BY <1>6, Zenon DEF b

LEMMA AddKeysEffect ==
  ASSUME NEW e \in Event, NEW f \in Field
  PROVE  AddKeys(e, f) \in Event /\ AddKeys(e, f).old = e.old
<1>1. AddKeys(e, f) \in Event
  BY SMT DEF AddKeys, Event
<1>2. AddKeys(e, f).old = e.old
  BY SMT DEF AddKeys, Event
<1> QED BY <1>1, <1>2

LEMMA MakersClean ==
  ASSUME NEW e \in Event, e.old \subseteq {"time"}, NEW opt \in SUBSET {"task", "tag"}, NEW m
  PROVE  /\ ToolCall(e, opt, m) \in Event     /\ ToolCall(e, opt, m).old = {}
         /\ ToolResponse(e, opt, m) \in Event /\ ToolResponse(e, opt, m).old = {}
         /\ Anchor(e) \in Event               /\ Anchor(e).old = {}
         /\ TaskTerminal(e) \in Event         /\ TaskTerminal(e).old = {}
<1>1. /\ {"id", "time", "method"} \cup opt \in SUBSET Field
      /\ {"id", "time"} \cup (opt \ {"tag"}) \in SUBSET Field
      /\ {"id", "time", "method", "actor"} \in SUBSET Field
      /\ {"id", "time", "method", "task"} \in SUBSET Field
      /\ {"task"} \in SUBSET Field /\ {} \in SUBSET Field
      /\ "params" \in Field /\ "response" \in Field
  BY SMT DEF Field
<1>2. ASSUME NEW to \in SUBSET Field, NEW zero \in SUBSET Field, "time" \in to
      PROVE  Set(e, to, zero) \in Event /\ Set(e, to, zero).old = {}
  BY <1>2, SetEffect, SMT
<1>3. ToolCall(e, opt, m) \in Event /\ ToolCall(e, opt, m).old = {}
  <2> DEFINE s == Set(e, {"id", "time", "method"} \cup opt, {"task"})
  <2>1. s \in Event /\ s.old = {}
    BY <1>1, <1>2, Zenon
  <2> HIDE DEF s
  <2>2. SetMap(s, "params", m) \in Event /\ SetMap(s, "params", m).old = {}
    BY <1>1, <2>1, SetMapEffect, SMT
  <2> QED BY <2>2, Zenon DEF ToolCall, s
<1>4. ToolResponse(e, opt, m) \in Event /\ ToolResponse(e, opt, m).old = {}
  <2> DEFINE s == Set(e, {"id", "time"} \cup (opt \ {"tag"}), {"task"})
  <2>1. s \in Event /\ s.old = {}
    BY <1>1, <1>2, Zenon
  <2> HIDE DEF s
  <2>2. SetMap(s, "response", m) \in Event /\ SetMap(s, "response", m).old = {}
    BY <1>1, <2>1, SetMapEffect, SMT
  <2> QED BY <2>2, Zenon DEF ToolResponse, s
<1>5. Anchor(e) \in Event /\ Anchor(e).old = {}
  <2> DEFINE s == Set(e, {"id", "time", "method", "actor"}, {})
  <2>1. s \in Event /\ s.old = {}
    BY <1>1, <1>2, Zenon
  <2> HIDE DEF s
  <2>2. AddKeys(s, "params") \in Event /\ AddKeys(s, "params").old = {}
    BY <1>1, <2>1, AddKeysEffect, Zenon
  <2> QED BY <2>2, Zenon DEF Anchor, s
<1>6. TaskTerminal(e) \in Event /\ TaskTerminal(e).old = {}
  <2> DEFINE s == Set(e, {"id", "time", "method", "task"}, {})
  <2>1. s \in Event /\ s.old = {}
    BY <1>1, <1>2, Zenon
  <2> HIDE DEF s
  <2>2. AddKeys(s, "params") \in Event /\ AddKeys(s, "params").old = {}
    BY <1>1, <2>1, AddKeysEffect, Zenon
  <2> QED BY <2>2, Zenon DEF TaskTerminal, s
<1> QED BY <1>3, <1>4, <1>5, <1>6

LEMMA PersistedClean ==
  ASSUME NEW e \in Event
  PROVE  Persisted(e) \in Event /\ Persisted(e).old \subseteq e.old
<1>1. {"chain"} \in SUBSET Field /\ {} \in SUBSET Field
  BY SMT DEF Field
<1>2. Persisted(e) \in Event /\ Persisted(e).old = e.old \ ({"chain"} \cup {})
  BY <1>1, SetEffect, Zenon DEF Persisted
<1> QED BY <1>2, Zenon

LEMMA ResetClean ==
  ASSUME NEW e \in Event
  PROVE  Reset(e) \in Event /\ Reset(e).old \subseteq {"time"}
<1> DEFINE b == (e.own \cup e.old) \cap {"time"}
<1>1. {} \in SUBSET Field /\ b \in SUBSET Field /\ b \subseteq {"time"}
  BY Parts, SMT
<1>2. Reset(e) = [e EXCEPT !.own = {}, !.old = b]
  BY Zenon DEF Reset
<1> HIDE DEF b
<1>3. [e EXCEPT !.own = {}, !.old = b] \in Event
  BY <1>1, Zenon DEF Event
<1>4. [e EXCEPT !.own = {}, !.old = b].old = b
  BY SMT DEF Event
<1>5. Reset(e) \in Event /\ Reset(e).old = b
  BY <1>2, <1>3, <1>4
<1> QED BY <1>1, <1>5, Zenon

-----------------------------------------------------------------------------
\* The inductive invariant, struct by struct.

Owner ==
  /\ free \cap queued = {}
  /\ \A a \in Actor : has[a] \notin free \cup queued
  /\ \A c \in Consumer : extra[c] \notin free \cup queued
  /\ \A a, b \in Actor : a # b /\ has[a] # NoObj => has[a] # has[b]
  /\ \A c \in Consumer : extra[c] # NoObj =>
       /\ \A a \in Actor : has[a] # extra[c]
       /\ \A d \in Consumer : c # d => extra[d] # extra[c]

LEMMA OwnerFlat == StructTypes => (EventHasOneOwner <=> Owner)
<1> SUFFICES ASSUME StructTypes PROVE EventHasOneOwner <=> Owner
  OBVIOUS
<1>1. NoObj \notin free \cup queued
  BY SMT DEF StructTypes
<1>2. Held \cap (free \cup queued) \subseteq {NoObj}
        <=> /\ \A a \in Actor : has[a] \notin free \cup queued
            /\ \A c \in Consumer : extra[c] \notin free \cup queued
  BY <1>1, Zenon DEF Held
<1> QED BY <1>2, Zenon DEF EventHasOneOwner, Owner

Core ==
  /\ StructTypes /\ pc \in [Actor -> Step]
  /\ HandsMatchSteps /\ Owner /\ NothingLeaks /\ OnlyTime

LEMMA CoreFacts == PoolInv <=> Core /\ RestTypes /\ FlagTypes
BY TypesSplit, OwnerFlat, Zenon DEF PoolInv, Core, OnlyTime, RestTypes

LEMMA ActorFacts == Client \subseteq Actor /\ Consumer \subseteq Actor
BY DEF Actor

\* Only struct o changes.
Touches(o) ==
  /\ ev' \in [Obj -> Event]
  /\ \A x \in Obj : x # o => ev'[x] = ev[x]

LEMMA WriteTouches ==
  ASSUME ev \in [Obj -> Event], NEW o \in Obj, NEW e \in Event,
         ev' = [ev EXCEPT ![o] = e]
  PROVE  Touches(o) /\ ev'[o] = e
BY Zenon DEF Touches

LEMMA GotFacts ==
  ASSUME Core, NEW o \in Obj, Got(o)
  PROVE  /\ Touches(o) /\ ev'[o].old \subseteq {"time"}
         /\ o \notin queued \cup Held /\ free' \subseteq free /\ o \notin free'
<1>1. ev \in [Obj -> Event] /\ ev[o].old \subseteq {"time"} /\ Owner
  BY DEF Core, StructTypes, OnlyTime
<1>2. CASE o \in free /\ free' = free \ {o} /\ UNCHANGED <<ev, misses>>
  <2>1. ev' = ev
    BY <1>2
  <2>2. o \notin queued \cup Held
    BY <1>1, <1>2, Zenon DEF Owner, Held
  <2> QED BY <1>1, <1>2, <2>1, <2>2, Zenon DEF Touches
<1>3. CASE /\ o \notin Referenced /\ ev' = [ev EXCEPT ![o] = NewEvent]
           /\ UNCHANGED free
  <2>1. Touches(o) /\ ev'[o] = NewEvent
    BY <1>1, <1>3, WriteTouches, NewEventClean, Zenon
  <2> QED BY <1>3, <2>1, NewEventClean, Zenon DEF Referenced
<1> QED BY <1>2, <1>3, Zenon DEF Got

LEMMA PutFacts ==
  ASSUME Core, NEW o \in Obj, Put(o)
  PROVE  /\ Touches(o) /\ ev'[o].old \subseteq {"time"}
         /\ free' \in {free, free \cup {o}}
<1>1. ev \in [Obj -> Event] /\ ev[o] \in Event /\ ev[o].old \subseteq {"time"}
  BY DEF Core, StructTypes, OnlyTime
<1>2. CASE free' = free /\ ev' = ev
  BY <1>1, <1>2, Zenon DEF Touches
<1>3. CASE free' = free \cup {o} /\ ev' = [ev EXCEPT ![o] = Reset(@)]
  <2>1. Touches(o) /\ ev'[o] = Reset(ev[o])
    BY <1>1, <1>3, WriteTouches, ResetClean, Zenon
  <2> QED BY <1>1, <1>3, <2>1, ResetClean, Zenon
<1> QED BY <1>2, <1>3, Zenon DEF Put, poolVars

-----------------------------------------------------------------------------
\* What keeps the invariant, by the kind of the step.

(* A goroutine takes a struct that was nobody's or the pool's.             *)
LEMMA TakeKeeps ==
  ASSUME Core, NEW p \in Client, pc[p] = "idle", NEW o \in Obj, Got(o),
         has' = [has EXCEPT ![p] = o], pc' = [pc EXCEPT ![p] = "got"],
         UNCHANGED <<queued, extra>>
  PROVE  Core'
<1>1. /\ Touches(o) /\ ev'[o].old \subseteq {"time"}
      /\ o \notin queued \cup Held /\ free' \subseteq free /\ o \notin free'
  BY GotFacts
<1>2. /\ \A a \in Actor : has[a] # o
      /\ \A c \in Consumer : extra[c] # o
  BY <1>1 DEF Held
<1>3. p \in Actor /\ p \notin Consumer
  BY DEF Actor
<1>4. StructTypes' /\ (pc \in [Actor -> Step])'
  BY <1>1, <1>3, SMT DEF Core, StructTypes, Step, Touches
<1>5. HandsMatchSteps'
  BY <1>1, <1>3, SMT DEF Core, StructTypes, HandsMatchSteps, Actor
<1>6. Owner'
  BY <1>1, <1>2, <1>3, SMT DEF Core, StructTypes, Owner
<1>7. OnlyTime'
  BY <1>1, SMT DEF Core, OnlyTime, Touches
<1>8. NothingLeaks'
  BY <1>1, <1>2, <1>3, SMT DEF Core, StructTypes, HandsMatchSteps, NothingLeaks, Touches, Actor
<1> QED BY <1>4, <1>5, <1>6, <1>7, <1>8 DEF Core

(* The same for the completion event of a consumer.                        *)
LEMMA TakeExtraKeeps ==
  ASSUME Core, NEW c \in Consumer, pc[c] = "complete", NEW o \in Obj, Got(o),
         extra' = [extra EXCEPT ![c] = o], pc' = [pc EXCEPT ![c] = "got"],
         UNCHANGED <<queued, has>>
  PROVE  Core'
<1>1. /\ Touches(o) /\ ev'[o].old \subseteq {"time"}
      /\ o \notin queued \cup Held /\ free' \subseteq free /\ o \notin free'
  BY GotFacts
<1>2. /\ \A a \in Actor : has[a] # o
      /\ \A d \in Consumer : extra[d] # o
  BY <1>1 DEF Held
<1>3. c \in Actor /\ c \notin Client
  BY DEF Actor
<1>4. StructTypes' /\ (pc \in [Actor -> Step])'
  BY <1>1, <1>3, SMT DEF Core, StructTypes, Step, Touches
<1>5. HandsMatchSteps'
  BY <1>1, <1>3, SMT DEF Core, StructTypes, HandsMatchSteps, Actor
<1>6. Owner'
  BY <1>1, <1>2, <1>3, SMT DEF Core, StructTypes, Owner
<1>7. OnlyTime'
  BY <1>1, SMT DEF Core, OnlyTime, Touches
<1>8. NothingLeaks'
  BY <1>1, <1>2, <1>3, SMT DEF Core, StructTypes, HandsMatchSteps, NothingLeaks, Touches, Actor
<1> QED BY <1>4, <1>5, <1>6, <1>7, <1>8 DEF Core

\* Values of earlier uses are overwritten, and none come back.
Cleans == ev' \in [Obj -> Event] /\ \A x \in Obj : ev'[x].old \subseteq ev[x].old

LEMMA WriteCleans ==
  ASSUME ev \in [Obj -> Event], NEW o \in Obj, NEW e \in Event,
         e.old \subseteq ev[o].old, ev' = [ev EXCEPT ![o] = e]
  PROVE  Cleans /\ ev'[o] = e
BY Zenon DEF Cleans

\* While these steps are next, a consumer has a completion event.
HasExtra == {"got", "terminal", "completed"}

(* A goroutine goes on with what it has in its hands.                      *)
LEMMA MoveKeeps ==
  ASSUME Core, NEW a \in Actor, NEW s \in Step, Cleans,
         pc[a] # "idle", s # "idle", pc' = [pc EXCEPT ![a] = s],
         a \in Client => s \in {"fill", "submit"},
         a \in Consumer => (pc[a] \in HasExtra <=> s \in HasExtra),
         s = "submit" => ev'[has[a]].old = {},
         a \in Consumer /\ s = "completed" => ev'[extra[a]].old = {},
         UNCHANGED <<free, queued, has, extra>>
  PROVE  Core'
<1>1. Client \cap Consumer = {} /\ Actor = Client \cup Consumer
  BY DEF Actor
<1>2. StructTypes' /\ (pc \in [Actor -> Step])'
  BY SMT DEF Core, StructTypes, Step, Cleans
<1>3. HandsMatchSteps'
  BY <1>1, SMT DEF Core, HandsMatchSteps, HasExtra
<1>4. Owner'
  BY Zenon DEF Core, Owner
<1>5. OnlyTime'
  BY SMT DEF Core, OnlyTime, Cleans
<1>6. NothingLeaks'
  <2>1. ASSUME NEW x \in Obj, ev[x].old = {} PROVE ev'[x].old = {}
    BY <2>1, SMT DEF Cleans
  <2>2. \A x \in queued' : ev'[x].old = {}
    BY <2>1, SMT DEF Core, StructTypes, NothingLeaks
  <2>3. ASSUME NEW p \in Client, pc'[p] = "submit" PROVE ev'[has'[p]].old = {}
    BY <1>1, <2>1, <2>3, SMT DEF Core, StructTypes, HandsMatchSteps, NothingLeaks
  <2>4. ASSUME NEW c \in Consumer, pc'[c] # "idle" PROVE ev'[has'[c]].old = {}
    BY <1>1, <2>1, <2>4, SMT DEF Core, StructTypes, HandsMatchSteps, NothingLeaks
  <2>5. ASSUME NEW c \in Consumer, pc'[c] = "completed" PROVE ev'[extra'[c]].old = {}
    <3>1. CASE c = a
      BY <2>5, <3>1, SMT DEF Core
    <3>2. CASE c # a
      <4>1. pc[c] = "completed" /\ extra[c] \in Obj
        BY <1>1, <2>5, <3>2, SMT DEF Core, StructTypes, HandsMatchSteps
      <4> QED BY <2>1, <4>1 DEF Core, NothingLeaks
    <3> QED BY <3>1, <3>2
  <2> QED BY <2>2, <2>3, <2>4, <2>5, Zenon DEF NothingLeaks
<1> QED BY <1>2, <1>3, <1>4, <1>5, <1>6 DEF Core

LEMMA StillCleans == Core /\ UNCHANGED ev => Cleans
BY Zenon DEF Core, StructTypes, Cleans

LEMMA UnchangedKeeps ==
  Core /\ UNCHANGED <<free, ev, queued, pc, has, extra>> => Core'
<1> SUFFICES ASSUME Core, UNCHANGED <<free, ev, queued, pc, has, extra>> PROVE Core'
  OBVIOUS
<1>1. StructTypes' /\ HandsMatchSteps'
  BY Zenon DEF Core, StructTypes, HandsMatchSteps
<1>2. Owner'
  BY Zenon DEF Core, Owner
<1>3. NothingLeaks' /\ OnlyTime'
  BY Zenon DEF Core, NothingLeaks, OnlyTime
<1> QED BY <1>1, <1>2, <1>3, Zenon DEF Core

(* A goroutine gives up the event in its hands: to the ring buffer, to the *)
(* pool, or to nobody.                                                     *)
LEMMA GiveKeeps ==
  ASSUME Core, NEW a \in Actor, pc[a] \notin {"idle"} \cup HasExtra,
         Touches(has[a]), ev'[has[a]].old \subseteq {"time"},
         has' = [has EXCEPT ![a] = NoObj], pc' = [pc EXCEPT ![a] = "idle"],
         UNCHANGED extra,
         \/ /\ free' \in {free, free \cup {has[a]}} /\ queued' = queued
         \/ free' = free /\ queued' = queued \cup {has[a]} /\ ev'[has[a]].old = {}
  PROVE  Core'
<1> DEFINE o == has[a]
<1>1. o \in Obj /\ o \notin free \cup queued
  BY SMT DEF Core, StructTypes, HandsMatchSteps, Owner
<1>2. /\ \A b \in Actor : has'[b] # o
      /\ \A c \in Consumer : extra[c] # o
  BY <1>1, SMT DEF Core, StructTypes, HandsMatchSteps, Owner
<1>3. Client \cap Consumer = {} /\ Actor = Client \cup Consumer
  BY DEF Actor
<1> HIDE DEF o
<1>4. Touches(o) /\ ev'[o].old \subseteq {"time"}
  BY DEF o
<1>5. \/ free' \in {free, free \cup {o}} /\ queued' = queued
      \/ free' = free /\ queued' = queued \cup {o} /\ ev'[o].old = {}
  BY DEF o
<1>6. StructTypes' /\ (pc \in [Actor -> Step])'
  <2>1. (ev \in [Obj -> Event])'
    BY <1>4, Zenon DEF Touches
  <2>2. free' \subseteq Obj /\ queued' \subseteq Obj
    BY <1>1, <1>5, SMT DEF Core, StructTypes
  <2> QED BY <2>1, <2>2, SMT DEF Core, StructTypes, Step
<1>7. HandsMatchSteps'
  BY <1>3, SMT DEF Core, StructTypes, HandsMatchSteps, HasExtra
<1>8. Owner'
  <2>1. free' \cap queued' = {}
    BY <1>1, <1>5, SMT DEF Core, Owner
  <2>2. /\ \A b \in Actor : has'[b] \notin free \cup queued
        /\ \A c \in Consumer : extra[c] \notin free \cup queued
    BY SMT DEF Core, StructTypes, Owner
  <2>3. /\ \A b \in Actor : has'[b] \notin free' \cup queued'
        /\ \A c \in Consumer : extra'[c] \notin free' \cup queued'
    BY <1>2, <1>5, <2>2, SMT
  <2>4. \A b, d \in Actor : b # d /\ has'[b] # NoObj => has'[b] # has'[d]
    BY SMT DEF Core, StructTypes, Owner
  <2>5. \A c \in Consumer : extra'[c] # NoObj =>
          /\ \A b \in Actor : has'[b] # extra'[c]
          /\ \A d \in Consumer : c # d => extra'[d] # extra'[c]
    BY SMT DEF Core, StructTypes, Owner
  <2> QED BY <2>1, <2>3, <2>4, <2>5, Zenon DEF Owner
<1>9. OnlyTime'
  BY <1>4, SMT DEF Core, OnlyTime, Touches
<1>10. NothingLeaks'
  <2>1. ASSUME NEW x \in Obj, x # o, ev[x].old = {} PROVE ev'[x].old = {}
    BY <1>4, <2>1, SMT DEF Touches
  <2>2. \A x \in queued' : ev'[x].old = {}
    BY <1>1, <1>5, <2>1, SMT DEF Core, StructTypes, NothingLeaks
  <2>3. ASSUME NEW b \in Actor, pc'[b] # "idle"
        PROVE  b # a /\ has'[b] = has[b] /\ pc'[b] = pc[b] /\ has[b] \in Obj /\ has[b] # o
    BY <1>2, <2>3, SMT DEF Core, StructTypes, HandsMatchSteps
  <2>4. ASSUME NEW p \in Client, pc'[p] = "submit" PROVE ev'[has'[p]].old = {}
    <3>1. has'[p] = has[p] /\ pc[p] = "submit" /\ has[p] \in Obj /\ has[p] # o
      BY <2>3, <2>4, ActorFacts, SMT
    <3> QED BY <2>1, <3>1, Zenon DEF Core, NothingLeaks
  <2>5. ASSUME NEW c \in Consumer, pc'[c] # "idle" PROVE ev'[has'[c]].old = {}
    <3>1. has'[c] = has[c] /\ pc[c] # "idle" /\ has[c] \in Obj /\ has[c] # o
      BY <2>3, <2>5, ActorFacts, SMT
    <3> QED BY <2>1, <3>1, Zenon DEF Core, NothingLeaks
  <2>6. ASSUME NEW c \in Consumer, pc'[c] = "completed" PROVE ev'[extra'[c]].old = {}
    <3>1. pc[c] = "completed"
      BY <1>3, <2>3, <2>6, SMT
    <3>2. extra[c] \in Obj /\ extra[c] # o
      BY <1>2, <3>1, SMT DEF Core, StructTypes, HandsMatchSteps
    <3> QED BY <1>3, <2>1, <3>1, <3>2, Zenon DEF Core, NothingLeaks
  <2> QED BY <2>2, <2>4, <2>5, <2>6, Zenon DEF NothingLeaks
<1> QED BY <1>6, <1>7, <1>8, <1>9, <1>10 DEF Core

(* A consumer puts its completion event into the pool.                     *)
LEMMA GiveExtraKeeps ==
  ASSUME Core, NEW c \in Consumer, pc[c] = "completed", Put(extra[c]),
         extra' = [extra EXCEPT ![c] = NoObj], pc' = [pc EXCEPT ![c] = "stored"],
         UNCHANGED <<queued, has>>
  PROVE  Core'
<1> DEFINE o == extra[c]
<1>1. o \in Obj /\ o \notin free \cup queued
  BY SMT DEF Core, StructTypes, HandsMatchSteps, Owner
<1>2. /\ \A b \in Actor : has[b] # o
      /\ \A d \in Consumer : extra'[d] # o
  BY <1>1, SMT DEF Core, StructTypes, HandsMatchSteps, Owner
<1>3. Client \cap Consumer = {} /\ Actor = Client \cup Consumer
  BY DEF Actor
<1>4. Touches(o) /\ ev'[o].old \subseteq {"time"} /\ free' \in {free, free \cup {o}}
  BY <1>1, PutFacts
<1> HIDE DEF o
<1>5. StructTypes' /\ (pc \in [Actor -> Step])'
  BY <1>1, <1>3, <1>4, SMT DEF Core, StructTypes, Step, Touches
<1>6. HandsMatchSteps'
  BY <1>3, SMT DEF Core, StructTypes, HandsMatchSteps
<1>7. Owner'
  BY <1>1, <1>2, <1>4, SMT DEF Core, StructTypes, Owner
<1>8. OnlyTime'
  BY <1>4, SMT DEF Core, OnlyTime, Touches
<1>9. NothingLeaks'
  BY <1>1, <1>2, <1>3, <1>4, SMT DEF Core, StructTypes, HandsMatchSteps, NothingLeaks, Touches
<1> QED BY <1>5, <1>6, <1>7, <1>8, <1>9 DEF Core

-----------------------------------------------------------------------------
\* The steps of the goroutines.

LEMMA ClientKeeps ==
  ASSUME Core, NEW p \in Client, ClientStep(p)
  PROVE  Core'
<1>1. p \in Actor /\ p \notin Consumer
  BY DEF Actor
<1>2. CASE GetEvent(p)
  BY <1>2, TakeKeeps, Zenon DEF GetEvent, GoTo
<1>3. CASE CountHit(p)
  <2>1. /\ pc[p] = "got" /\ pc' = [pc EXCEPT ![p] = "fill"]
        /\ UNCHANGED <<free, ev, queued, has, extra>>
    BY <1>3, Zenon DEF CountHit, GoTo, poolVars
  <2>2. Cleans
    BY <2>1, StillCleans
  <2> QED BY <1>1, <2>1, <2>2, MoveKeeps, Zenon DEF Step
<1>4. CASE FillIn(p)
  <2>1. /\ pc[p] = "fill" /\ pc' = [pc EXCEPT ![p] = "submit"]
        /\ UNCHANGED <<free, queued, has, extra>>
    BY <1>4, Zenon DEF FillIn, GoTo
  <2> DEFINE o == has[p]
  <2>2. o \in Obj
    BY <1>1, <2>1, SMT DEF Core, StructTypes, HandsMatchSteps
  <2>3. ev \in [Obj -> Event] /\ ev[o] \in Event /\ ev[o].old \subseteq {"time"}
    BY <2>2, Zenon DEF Core, StructTypes, OnlyTime
  <2>4. PICK e \in Event : e.old = {} /\ ev' = [ev EXCEPT ![o] = e]
    <3>1. CASE \E opt \in SUBSET {"task", "tag"}, m \in Contents :
                 \/ ev' = [ev EXCEPT ![o] = ToolCall(@, opt, m)]
                 \/ ev' = [ev EXCEPT ![o] = ToolResponse(@, opt, m)]
      <4>1. PICK opt \in SUBSET {"task", "tag"}, m \in Contents :
                 \/ ev' = [ev EXCEPT ![o] = ToolCall(@, opt, m)]
                 \/ ev' = [ev EXCEPT ![o] = ToolResponse(@, opt, m)]
        BY <3>1, Zenon
      <4>2. /\ ToolCall(ev[o], opt, m) \in Event     /\ ToolCall(ev[o], opt, m).old = {}
            /\ ToolResponse(ev[o], opt, m) \in Event /\ ToolResponse(ev[o], opt, m).old = {}
        BY <2>3, <4>1, MakersClean, Zenon
      <4> QED BY <4>1, <4>2, Zenon
    <3>2. CASE ev' = [ev EXCEPT ![o] = Anchor(@)]
      <4>1. Anchor(ev[o]) \in Event /\ Anchor(ev[o]).old = {}
        BY <2>3, MakersClean, Zenon
      <4> QED BY <3>2, <4>1, Zenon
    <3> QED BY <1>4, <3>1, <3>2, Zenon DEF FillIn
  <2>5. Cleans /\ ev'[o].old = {}
    <3>1. e.old \subseteq ev[o].old
      BY <2>4, Zenon
    <3>2. Cleans /\ ev'[o] = e
      BY <2>2, <2>3, <2>4, <3>1, WriteCleans, Zenon
    <3> QED BY <2>4, <3>2
  <2> QED BY <1>1, <2>1, <2>5, MoveKeeps, Zenon DEF Step
<1>5. CASE Submit(p)
  <2>1. /\ pc[p] = "submit" /\ pc' = [pc EXCEPT ![p] = "idle"]
        /\ has' = [has EXCEPT ![p] = NoObj] /\ UNCHANGED <<free, extra>>
        /\ \/ queued' = queued \cup {has[p]} /\ ev' = ev
           \/ ev' = [ev EXCEPT ![has[p]] = NewEvent] /\ queued' = queued
    BY <1>5, Zenon DEF Submit, GoTo
  <2> DEFINE o == has[p]
  <2>2. o \in Obj
    BY <1>1, <2>1, SMT DEF Core, StructTypes, HandsMatchSteps
  <2>3. ev \in [Obj -> Event] /\ ev[o].old = {}
    BY <2>1, Zenon DEF Core, StructTypes, NothingLeaks
  <2>4. Touches(o) /\ ev'[o].old = {}
    <3>1. CASE ev' = ev
      BY <2>3, <3>1, Zenon DEF Touches
    <3>2. CASE ev' = [ev EXCEPT ![o] = NewEvent]
      <4>1. Touches(o) /\ ev'[o] = NewEvent
        BY <2>2, <2>3, <3>2, WriteTouches, NewEventClean, Zenon
      <4> QED BY <4>1, NewEventClean
    <3> QED BY <2>1, <3>1, <3>2
  <2> QED BY <1>1, <2>1, <2>4, GiveKeeps, Zenon DEF HasExtra
<1> QED BY <1>2, <1>3, <1>4, <1>5 DEF ClientStep

LEMMA PopKeeps ==
  ASSUME Core, NEW c \in Consumer, Pop(c)
  PROVE  Core'
<1>1. PICK o \in queued : queued' = queued \ {o} /\ has' = [has EXCEPT ![c] = o]
  BY Zenon DEF Pop
<1>2. /\ pc[c] = "idle" /\ pc' = [pc EXCEPT ![c] = "process"]
      /\ UNCHANGED <<free, ev, extra>>
  BY Zenon DEF Pop, GoTo, poolVars
<1>3. Client \cap Consumer = {} /\ Actor = Client \cup Consumer /\ c \in Actor
  BY DEF Actor
<1>4. o \in Obj /\ o # NoObj /\ o \notin free /\ ev[o].old = {}
  BY SMT DEF Core, StructTypes, Owner, NothingLeaks
<1>5. /\ \A b \in Actor : has[b] # o
      /\ \A d \in Consumer : extra[d] # o
  BY SMT DEF Core, Owner
<1>6. StructTypes' /\ (pc \in [Actor -> Step])'
  BY <1>1, <1>2, <1>3, <1>4, SMT DEF Core, StructTypes, Step
<1>7. HandsMatchSteps'
  BY <1>1, <1>2, <1>3, <1>4, SMT DEF Core, StructTypes, HandsMatchSteps
<1>8. Owner'
  BY <1>1, <1>2, <1>3, <1>4, <1>5, SMT DEF Core, StructTypes, Owner
<1>9. OnlyTime'
  BY <1>2, Zenon DEF Core, OnlyTime
<1>10. NothingLeaks'
  BY <1>1, <1>2, <1>3, <1>4, SMT DEF Core, StructTypes, NothingLeaks
<1> QED BY <1>6, <1>7, <1>8, <1>9, <1>10 DEF Core

LEMMA ConsumerKeeps ==
  ASSUME Core, NEW c \in Consumer, ConsumerStep(c)
  PROVE  Core'
<1>1. c \in Actor /\ c \notin Client
  BY DEF Actor
<1>2. CASE Process(c)
  <2>1. pc[c] = "process" /\ UNCHANGED <<free, queued, has, extra>>
    BY <1>2, Zenon DEF Process
  <2>2. CASE UNCHANGED <<ev, pc>>
    BY <2>1, <2>2, UnchangedKeeps
  <2>3. CASE /\ ev' = [ev EXCEPT ![has[c]] = Persisted(@)]
             /\ \E s \in {"stored", "complete"} : pc' = [pc EXCEPT ![c] = s]
    <3>1. has[c] \in Obj /\ ev \in [Obj -> Event] /\ ev[has[c]] \in Event
      BY <1>1, <2>1, SMT DEF Core, StructTypes, HandsMatchSteps
    <3>2. Cleans
      BY <2>3, <3>1, PersistedClean, WriteCleans, Zenon
    <3>3. PICK s \in {"stored", "complete"} : pc' = [pc EXCEPT ![c] = s]
      BY <2>3, Zenon
    <3> QED BY <1>1, <2>1, <3>2, <3>3, MoveKeeps, Zenon DEF Step, HasExtra
  <2> QED BY <1>2, <2>2, <2>3, Zenon DEF Process, GoTo
<1>3. CASE GetTerminal(c)
  BY <1>3, TakeExtraKeeps, Zenon DEF GetTerminal, GoTo
<1>4. CASE CountTerminal(c)
  <2>1. /\ pc[c] = "got" /\ pc' = [pc EXCEPT ![c] = "terminal"]
        /\ UNCHANGED <<free, ev, queued, has, extra>>
    BY <1>4, Zenon DEF CountTerminal, GoTo, poolVars
  <2>2. Cleans
    BY <2>1, StillCleans
  <2> QED BY <1>1, <2>1, <2>2, MoveKeeps, Zenon DEF Step, HasExtra
<1>5. CASE StoreTerminal(c)
  <2>1. pc[c] = "terminal" /\ UNCHANGED <<free, queued, has, extra>>
    BY <1>5, Zenon DEF StoreTerminal
  <2>2. CASE UNCHANGED <<ev, pc>>
    BY <2>1, <2>2, UnchangedKeeps
  <2>3. CASE /\ ev' = [ev EXCEPT ![extra[c]] = Persisted(TaskTerminal(@))]
             /\ pc' = [pc EXCEPT ![c] = "completed"]
    <3> DEFINE o == extra[c]
               e == Persisted(TaskTerminal(ev[o]))
    <3>1. o \in Obj
      BY <2>1, SMT DEF Core, StructTypes, HandsMatchSteps
    <3>2. ev \in [Obj -> Event] /\ ev[o] \in Event /\ ev[o].old \subseteq {"time"}
      BY <3>1, Zenon DEF Core, StructTypes, OnlyTime
    <3>3. TaskTerminal(ev[o]) \in Event /\ TaskTerminal(ev[o]).old = {}
      BY <3>2, MakersClean, Zenon
    <3>4. e \in Event /\ e.old = {}
      BY <3>3, PersistedClean, SMT
    <3>5. ev' = [ev EXCEPT ![o] = e]
      BY <2>3, Zenon
    <3> HIDE DEF e, o
    <3>6. e.old \subseteq ev[o].old
      BY <3>4, Zenon
    <3>7. Cleans /\ ev'[o] = e
      BY <3>1, <3>2, <3>4, <3>5, <3>6, WriteCleans, Zenon
    <3>8. ev'[extra[c]].old = {}
      BY <3>4, <3>7 DEF o
    <3> QED BY <1>1, <2>1, <2>3, <3>7, <3>8, MoveKeeps, Zenon DEF Step, HasExtra
  <2> QED BY <1>5, <2>2, <2>3, Zenon DEF StoreTerminal, GoTo
<1>6. CASE PutTerminal(c)
  BY <1>6, GiveExtraKeeps, Zenon DEF PutTerminal, GoTo
<1>7. CASE CountProcessed(c)
  <2>1. /\ pc[c] = "timed" /\ pc' = [pc EXCEPT ![c] = "done"]
        /\ UNCHANGED <<free, ev, queued, has, extra>>
    BY <1>7, Zenon DEF CountProcessed, GoTo, poolVars
  <2>2. Cleans
    BY <2>1, StillCleans
  <2> QED BY <1>1, <2>1, <2>2, MoveKeeps, Zenon DEF Step, HasExtra
<1>8. CASE PutEvent(c)
  <2>1. /\ pc[c] = "done" /\ pc' = [pc EXCEPT ![c] = "idle"] /\ Put(has[c])
        /\ has' = [has EXCEPT ![c] = NoObj] /\ UNCHANGED <<queued, extra>>
    BY <1>8, Zenon DEF PutEvent, GoTo
  <2>2. has[c] \in Obj
    BY <1>1, <2>1, SMT DEF Core, StructTypes, HandsMatchSteps
  <2>3. /\ Touches(has[c]) /\ ev'[has[c]].old \subseteq {"time"}
        /\ free' \in {free, free \cup {has[c]}}
    BY <2>1, <2>2, PutFacts
  <2> QED BY <1>1, <2>1, <2>3, GiveKeeps, Zenon DEF HasExtra
<1> QED BY <1>2, <1>3, <1>4, <1>5, <1>6, <1>7, <1>8, PopKeeps DEF ConsumerStep

LEMMA RecordKeeps ==
  ASSUME Core, NEW c \in Consumer, RecordLatency(c)
  PROVE  Core'
<1>1. PICK s \in {"zero", "count", "timed"} :
        /\ pc[c] \in {"stored", "zero", "count"} /\ pc' = [pc EXCEPT ![c] = s]
        /\ UNCHANGED <<free, ev, queued, has, extra>>
  BY Zenon DEF RecordLatency, RecordZero, RecordZeroBucket, RecordBucket, RecordCount,
               GoTo, poolVars
<1>2. c \in Actor /\ c \notin Client
  BY DEF Actor
<1>3. Cleans
  BY <1>1, StillCleans
<1> QED BY <1>1, <1>2, <1>3, MoveKeeps, Zenon DEF Step, HasExtra

(* The garbage collector takes a struct out of the pool.                   *)
LEMMA CollectKeeps ==
  ASSUME Core, Collect
  PROVE  Core'
<1>1. PICK o \in free : free' = free \ {o} /\ ev' = [ev EXCEPT ![o] = NewEvent]
  BY Zenon DEF Collect
<1>2. UNCHANGED <<queued, pc, has, extra>>
  BY Zenon DEF Collect, localVars
<1>3. o \in Obj /\ o \notin queued /\ ev \in [Obj -> Event]
  BY SMT DEF Core, StructTypes, Owner
<1>4. Cleans
  <2>1. NewEvent.old \subseteq ev[o].old
    BY NewEventClean, Zenon
  <2> QED BY <1>1, <1>3, <2>1, NewEventClean, WriteCleans, Zenon
<1>5. StructTypes' /\ (pc \in [Actor -> Step])'
  BY <1>1, <1>2, <1>4, SMT DEF Core, StructTypes, Cleans
<1>6. HandsMatchSteps'
  BY <1>2, Zenon DEF Core, HandsMatchSteps
<1>7. Owner'
  BY <1>1, <1>2, Zenon DEF Core, Owner
<1>8. OnlyTime'
  BY <1>4, SMT DEF Core, OnlyTime, Cleans
<1>9. NothingLeaks'
  <2>1. ASSUME NEW x \in Obj, ev[x].old = {} PROVE ev'[x].old = {}
    BY <1>4, <2>1, SMT DEF Cleans
  <2>2. /\ \A a \in Actor : pc[a] # "idle" => has[a] \in Obj
        /\ \A c \in Consumer : pc[c] = "completed" => extra[c] \in Obj
        /\ queued \subseteq Obj
    BY SMT DEF Core, StructTypes, HandsMatchSteps, Actor
  <2> QED BY <1>2, <2>1, <2>2, Zenon DEF Core, NothingLeaks, Actor
<1> QED BY <1>5, <1>6, <1>7, <1>8, <1>9 DEF Core

-----------------------------------------------------------------------------
\* The theorems.

LEMMA InitCore == TelemetryInit => PoolInv
<1> SUFFICES ASSUME EventPoolInit PROVE PoolInv
  BY DEF TelemetryInit
<1>1. /\ queued = {} /\ pc = [a \in Actor |-> "idle"] /\ has = [a \in Actor |-> NoObj]
      /\ extra = [c \in Consumer |-> NoObj]
  BY Zenon DEF EventPoolInit
<1>2. free \subseteq Obj /\ ev \in [Obj -> Event] /\ OnlyTime
  <2> DEFINE g0 == Reset(Anchor(NewEvent))
  <2>1. g0 \in Event /\ g0.old \subseteq {"time"}
    <3>1. Anchor(NewEvent) \in Event
      BY NewEventClean, MakersClean, Zenon
    <3> QED BY <3>1, ResetClean, Zenon
  <2> HIDE DEF g0
  <2>2. CASE free = {} /\ ev = [o \in Obj |-> NewEvent]
    BY <2>2, NewEventClean, Zenon DEF OnlyTime
  <2>3. CASE \E g \in Obj : free = {g} /\ ev = [o \in Obj |-> IF o = g THEN g0 ELSE NewEvent]
    <3>1. PICK g \in Obj : free = {g} /\ ev = [o \in Obj |-> IF o = g THEN g0 ELSE NewEvent]
      BY <2>3
    <3>2. \A o \in Obj : ev[o] \in {g0, NewEvent}
      BY <3>1, Zenon
    <3>3. ev \in [Obj -> Event]
      BY <2>1, <3>1, NewEventClean, SMT
    <3>4. OnlyTime
      BY <2>1, <3>2, NewEventClean, Zenon DEF OnlyTime
    <3> QED BY <3>1, <3>3, <3>4, Zenon
  <2> QED BY <2>2, <2>3, Zenon DEF EventPoolInit, g0
<1>3. StructTypes /\ pc \in [Actor -> Step]
  BY <1>1, <1>2, SMT DEF StructTypes, Step
<1>4. HandsMatchSteps /\ NothingLeaks
  BY <1>1, SMT DEF HandsMatchSteps, NothingLeaks, Actor
<1>5. Owner
  BY <1>1, <1>2, SMT DEF Owner
<1>6. hits \in Nat /\ misses \in Nat /\ processed \in Nat
  <2>1. hits \in {0, 1} /\ misses = hits /\ processed = 0
    BY Zenon DEF EventPoolInit
  <2> QED BY <2>1, SMT
<1>7. FlagTypes
  BY Zenon DEF EventPoolInit, FlagTypes
<1> QED BY <1>2, <1>3, <1>4, <1>5, <1>6, <1>7, CoreFacts DEF Core, RestTypes

LEMMA CoreStep == Core /\ [TelemetryNext]_telemetryVars => Core'
<1> SUFFICES ASSUME Core, [TelemetryNext]_telemetryVars PROVE Core'
  OBVIOUS
<1>1. CASE StartShutdown \/ Scrape \/ UNCHANGED telemetryVars
  <2>1. UNCHANGED <<free, ev, queued, pc, has, extra>>
    BY <1>1, Zenon
       DEF StartShutdown, Scrape, LoadProcessed, LoadBucket, LoadCount,
                       telemetryVars, eventPoolVars, poolVars, localVars
  <2> QED BY <2>1, UnchangedKeeps
<1> QED BY <1>1, ClientKeeps, ConsumerKeeps, RecordKeeps, CollectKeeps, Zenon
        DEF TelemetryNext, EventPoolNext

LEMMA FlagStep == FlagTypes /\ [TelemetryNext]_telemetryVars => FlagTypes'
<1> SUFFICES ASSUME FlagTypes, [TelemetryNext]_telemetryVars PROVE FlagTypes'
  OBVIOUS
<1>1. ASSUME NEW p \in Client, ClientStep(p) PROVE UNCHANGED <<closing, up>>
  BY <1>1, Zenon DEF ClientStep, GetEvent, CountHit, FillIn, Submit
<1>2. ASSUME NEW c \in Consumer, ConsumerStep(c) PROVE closing' = closing /\ up' \in {up, FALSE}
  BY <1>2, ZenonT(40)
     DEF ConsumerStep, Pop, Process, GetTerminal, CountTerminal, StoreTerminal,
                     PutTerminal, CountProcessed, PutEvent, Put
<1>3. ASSUME NEW c \in Consumer, RecordLatency(c) PROVE UNCHANGED <<closing, up>>
  BY <1>3, Zenon
     DEF RecordLatency, RecordZero, RecordZeroBucket, RecordBucket, RecordCount
<1>4. CASE StartShutdown \/ Collect \/ Scrape \/ UNCHANGED telemetryVars
  BY <1>4, Zenon
     DEF StartShutdown, Collect, Scrape, LoadProcessed, LoadBucket, LoadCount,
                     telemetryVars, eventPoolVars, FlagTypes
<1> QED BY <1>1, <1>2, <1>3, <1>4, Zenon
           DEF TelemetryNext, EventPoolNext, FlagTypes

LEMMA CountStep ==
  ASSUME hits \in Nat, misses \in Nat, processed \in Nat, [TelemetryNext]_telemetryVars
  PROVE  hits' \in Nat /\ misses' \in Nat /\ processed' \in Nat
<1> DEFINE Counted ==
      /\ hits' \in {hits, hits + 1} /\ misses' \in {misses, misses + 1}
      /\ processed' \in {processed, processed + 1}
<1>1. Counted
  <2>1. ASSUME NEW p \in Client, ClientStep(p) PROVE Counted
    BY <2>1, ZenonT(40)
       DEF ClientStep, GetEvent, CountHit, FillIn, Submit, Got, counterVars
  <2>2. ASSUME NEW c \in Consumer, ConsumerStep(c) PROVE Counted
    BY <2>2, ZenonT(40)
       DEF ConsumerStep, Pop, Process, GetTerminal, CountTerminal, StoreTerminal,
                       PutTerminal, CountProcessed, PutEvent, Got, counterVars
  <2>3. ASSUME NEW c \in Consumer, RecordLatency(c) PROVE Counted
    BY <2>3, Zenon
       DEF RecordLatency, RecordZero, RecordZeroBucket, RecordBucket,
                       RecordCount, counterVars
  <2>4. CASE StartShutdown \/ Collect \/ Scrape \/ UNCHANGED telemetryVars
    BY <2>4, Zenon
       DEF StartShutdown, Collect, Scrape, LoadProcessed, LoadBucket, LoadCount,
                       telemetryVars, eventPoolVars, counterVars
  <2> QED BY <2>1, <2>2, <2>3, <2>4, Zenon DEF TelemetryNext, EventPoolNext
<1> QED BY <1>1, SMT

(* The inductive invariant of the event pool.                              *)
THEOREM PoolInvariant == TelemetrySpec => []PoolInv
<1>1. PoolInv /\ [TelemetryNext]_telemetryVars => PoolInv'
  <2> SUFFICES ASSUME PoolInv, [TelemetryNext]_telemetryVars PROVE PoolInv'
    OBVIOUS
  <2>1. Core /\ RestTypes /\ FlagTypes
    BY CoreFacts
  <2>2. Core' /\ FlagTypes'
    BY <2>1, CoreStep, FlagStep
  <2>3. RestTypes'
    BY <2>1, <2>2, CountStep, Zenon DEF RestTypes, Core
  <2>4. (Core /\ RestTypes /\ FlagTypes => PoolInv)'
    BY CoreFacts, PTL
  <2> QED BY <2>2, <2>3, <2>4
<1> QED BY <1>1, InitCore, PTL DEF TelemetrySpec

(* An event struct is in one place only, however many goroutines submit    *)
(* events, through every get, drop, put, collection and panic.             *)
THEOREM OneOwner == TelemetrySpec => []EventHasOneOwner
<1>1. PoolInv => EventHasOneOwner
  BY Zenon DEF PoolInv
<1> QED BY <1>1, PoolInvariant, PTL

(* Nothing of an earlier use of its struct is in an event that is          *)
(* submitted or stored.                                                    *)
THEOREM NoLeaks == TelemetrySpec => []NothingLeaks
<1>1. PoolInv => NothingLeaks
  BY Zenon DEF PoolInv
<1> QED BY <1>1, PoolInvariant, PTL

-----------------------------------------------------------------------------
\* Induction over the natural numbers, and the sum over a finite set.

LEMMA LeastNumber ==
  ASSUME NEW T \in SUBSET Nat, T # {}
  PROVE  \E n \in T : \A m \in T : ~(m < n)
<1> DEFINE R == OpToRel(<, Nat)
<1>1. IsWellFoundedOn(R, Nat)
  BY NatLessThanWellFounded, Zenon
<1>2. \A m, n \in Nat : m < n => <<m, n>> \in R
  BY SMT DEF OpToRel
<1> HIDE DEF R
<1>3. PICK n \in T : \A m \in T : ~(<<m, n>> \in R)
  BY <1>1, WFMin, Zenon
<1> QED BY <1>2, <1>3, Zenon

LEMMA Induction ==
  ASSUME NEW S \in SUBSET Nat, 0 \in S, \A n \in S : n + 1 \in S
  PROVE  S = Nat
<1> SUFFICES ASSUME Nat \ S # {} PROVE FALSE
  BY Zenon
<1>1. PICK n \in Nat \ S : \A m \in Nat \ S : ~(m < n)
  BY LeastNumber, Zenon
<1>2. n # 0 /\ n - 1 \in Nat /\ n - 1 < n /\ (n - 1) + 1 = n
  BY <1>1, SMT
<1> QED BY <1>1, <1>2, Zenon

\* The values that f gives the members of s, added up as FoldFunction does.
First(s) == CHOOSE x \in s : TRUE

Added(f, D, g) ==
  [s \in D |-> IF s = {} THEN 0 ELSE f[First(s)] + g[s \ {First(s)}]]

SumOf(f, S) == CHOOSE g : g = Added(f, SUBSET S, g)

LEMMA FoldIsSum ==
  ASSUME NEW f, NEW S, DOMAIN f = S
  PROVE  FoldFunction(+, 0, f) = SumOf(f, S)[S]
BY Zenon DEF FoldFunction, FoldFunctionOnSet, MapThenFoldSet, SumOf, Added, First

\* The subsets of S with at most n members.
Upto(S, n) == {s \in SUBSET S : Cardinality(s) <= n}

LEMMA Smaller ==
  ASSUME NEW S, IsFiniteSet(S), NEW n \in Nat, NEW s \in Upto(S, n + 1), NEW b \in s
  PROVE  s \ {b} \in Upto(S, n)
<1>1. IsFiniteSet(s) /\ s \in SUBSET S /\ Cardinality(s) <= n + 1
  BY FS_Subset, Zenon DEF Upto
<1>2. Cardinality(s) \in Nat /\ Cardinality(s \ {b}) = Cardinality(s) - 1
  BY <1>1, FS_RemoveElement, FS_CardinalityType, Zenon
<1>3. Cardinality(s \ {b}) <= n
  BY <1>1, <1>2, SMT
<1> QED BY <1>1, <1>3, Zenon DEF Upto

LEMMA UptoFacts ==
  ASSUME NEW S, IsFiniteSet(S)
  PROVE  /\ Upto(S, 0) = {{}}
         /\ \A n \in Nat : Upto(S, n) \subseteq Upto(S, n + 1)
         /\ Upto(S, Cardinality(S)) = SUBSET S
         /\ Cardinality(S) \in Nat
<1>1. ASSUME NEW s \in SUBSET S
      PROVE  /\ IsFiniteSet(s) /\ Cardinality(s) \in Nat /\ Cardinality(s) <= Cardinality(S)
             /\ Cardinality(s) = 0 <=> s = {}
  BY <1>1, FS_Subset, FS_CardinalityType, FS_EmptySet, Zenon
<1>2. Cardinality(S) \in Nat
  BY FS_CardinalityType, Zenon
<1>3. \A s \in SUBSET S : Cardinality(s) <= 0 <=> s = {}
  BY <1>1, SMT
<1>4. \A n \in Nat : \A s \in SUBSET S : Cardinality(s) <= n => Cardinality(s) <= n + 1
  BY <1>1, SMT
<1>5. Upto(S, 0) = {{}}
  BY <1>3, Zenon DEF Upto
<1>6. \A n \in Nat : Upto(S, n) \subseteq Upto(S, n + 1)
  BY <1>4, Zenon DEF Upto
<1>7. Upto(S, Cardinality(S)) = SUBSET S
  BY <1>1, Zenon DEF Upto
<1> QED BY <1>2, <1>5, <1>6, <1>7, Zenon

\* What holds of the empty set, and of a set when it does of all with one member
\* less, holds of every finite set.
LEMMA SubsetInduction ==
  ASSUME NEW S, IsFiniteSet(S), NEW P,
         {} \in P,
         \A s \in SUBSET S : s # {} /\ (\A b \in s : s \ {b} \in P) => s \in P
  PROVE  SUBSET S \subseteq P
<1> DEFINE N == {n \in Nat : Upto(S, n) \subseteq P}
<1>1. 0 \in N
  <2>1. Upto(S, 0) = {{}}
    BY UptoFacts, Zenon
  <2>2. 0 \in Nat /\ Upto(S, 0) \subseteq P
    BY <2>1, SMT
  <2> QED BY <2>2, Zenon
<1>2. ASSUME NEW n \in N PROVE n + 1 \in N
  <2>1. ASSUME NEW s \in Upto(S, n + 1) PROVE s \in P
    <3>1. n \in Nat /\ s \in SUBSET S /\ Upto(S, n) \subseteq P
      BY Zenon DEF Upto
    <3>2. \A b \in s : s \ {b} \in P
      BY <3>1, Smaller, Zenon
    <3> QED BY <3>1, <3>2, Zenon
  <2>2. n + 1 \in Nat
    BY SMT
  <2> QED BY <2>1, <2>2, Zenon
<1>3. N = Nat
  <2> HIDE DEF N
  <2>1. N \in SUBSET Nat
    BY Zenon DEF N
  <2> QED BY <1>1, <1>2, <2>1, Induction, Zenon
<1>4. Cardinality(S) \in N
  BY <1>3, UptoFacts, Zenon
<1> QED BY <1>4, UptoFacts, Zenon

LEMMA FirstIn == ASSUME NEW s, s # {} PROVE First(s) \in s
BY Zenon DEF First

LEMMA SumExists ==
  ASSUME NEW S, IsFiniteSet(S), NEW f
  PROVE  \E g : g = Added(f, SUBSET S, g)
<1> DEFINE N == {n \in Nat : \E g : g = Added(f, Upto(S, n), g)}
<1>1. 0 \in N
  <2>1. [s \in {{}} |-> 0] = Added(f, {{}}, [s \in {{}} |-> 0])
    BY Zenon DEF Added
  <2> QED BY <2>1, UptoFacts, Zenon
<1>2. ASSUME NEW n \in N PROVE n + 1 \in N
  <2>1. n \in Nat /\ n + 1 \in Nat
    BY SMT
  <2>2. PICK g : g = Added(f, Upto(S, n), g)
    BY Zenon
  <2> DEFINE h == Added(f, Upto(S, n + 1), g)
  <2>3. ASSUME NEW s \in Upto(S, n) PROVE h[s] = g[s]
    <3>1. s \in Upto(S, n + 1)
      BY <2>1, UptoFacts, Zenon
    <3> QED BY <2>2, <3>1, Zenon DEF Added
  <2>4. ASSUME NEW s \in Upto(S, n + 1), s # {}
        PROVE  h[s \ {First(s)}] = g[s \ {First(s)}]
    BY <2>1, <2>3, <2>4, Smaller, FirstIn, Zenon
  <2>5. h = Added(f, Upto(S, n + 1), h)
    <3> HIDE DEF h
    <3>1. h = Added(f, Upto(S, n + 1), g)
      BY Zenon DEF h
    <3> QED BY <2>4, <3>1, Zenon DEF Added
  <2> QED BY <2>1, <2>5, Zenon
<1>3. N = Nat
  <2> HIDE DEF N
  <2>1. N \in SUBSET Nat
    BY Zenon DEF N
  <2> QED BY <1>1, <1>2, <2>1, Induction, Zenon
<1>4. Cardinality(S) \in N
  BY <1>3, UptoFacts, Zenon
<1> QED BY <1>4, UptoFacts, Zenon

LEMMA SumUnfolds ==
  ASSUME NEW S, IsFiniteSet(S), NEW f
  PROVE  /\ SumOf(f, S)[{}] = 0
         /\ \A s \in SUBSET S : s # {} =>
              SumOf(f, S)[s] = f[First(s)] + SumOf(f, S)[s \ {First(s)}]
<1> DEFINE g == SumOf(f, S)
<1>1. g = Added(f, SUBSET S, g)
  BY SumExists, Zenon DEF SumOf
<1> HIDE DEF g
<1>2. \A s \in SUBSET S : g[s] = IF s = {} THEN 0 ELSE f[First(s)] + g[s \ {First(s)}]
  BY <1>1, Zenon DEF Added
<1>3. {} \in SUBSET S
  BY Zenon
<1>4. g[{}] = 0 /\ \A s \in SUBSET S : s # {} => g[s] = f[First(s)] + g[s \ {First(s)}]
  BY <1>2, <1>3, Zenon
<1> QED BY <1>4, Zenon DEF g

LEMMA SumType ==
  ASSUME NEW S, IsFiniteSet(S), NEW f \in [S -> Nat]
  PROVE  \A s \in SUBSET S : SumOf(f, S)[s] \in Nat
<1> DEFINE g == SumOf(f, S)
           P == {s \in SUBSET S : g[s] \in Nat}
<1>1. g[{}] = 0 /\ \A s \in SUBSET S : s # {} => g[s] = f[First(s)] + g[s \ {First(s)}]
  BY SumUnfolds, Zenon
<1> HIDE DEF g
<1>2. {} \in P
  <2>1. {} \in SUBSET S /\ g[{}] \in Nat
    BY <1>1, SMT
  <2> QED BY <2>1, Zenon
<1>3. ASSUME NEW s \in SUBSET S, s # {}, \A b \in s : s \ {b} \in P PROVE s \in P
  <2>1. First(s) \in s
    BY <1>3, FirstIn, Zenon
  <2>2. f[First(s)] \in Nat /\ g[s \ {First(s)}] \in Nat
    BY <1>3, <2>1, Zenon
  <2>3. g[s] \in Nat
    BY <1>1, <1>3, <2>2, SMT
  <2> QED BY <2>3, Zenon
<1>4. SUBSET S \subseteq P
  <2> HIDE DEF P
  <2> QED BY <1>2, <1>3, SubsetInduction, Zenon
<1> QED BY <1>4, Zenon DEF g

(* The order in which a sum is taken does not matter.                      *)
LEMMA SumTakes ==
  ASSUME NEW S, IsFiniteSet(S), NEW f \in [S -> Nat]
  PROVE  \A s \in SUBSET S : \A b \in s : SumOf(f, S)[s] = f[b] + SumOf(f, S)[s \ {b}]
<1> DEFINE g == SumOf(f, S)
           P == {s \in SUBSET S : \A b \in s : g[s] = f[b] + g[s \ {b}]}
<1>1. \A s \in SUBSET S : s # {} => g[s] = f[First(s)] + g[s \ {First(s)}]
  BY SumUnfolds, Zenon
<1>2. \A s \in SUBSET S : g[s] \in Nat
  BY SumType, Zenon
<1> HIDE DEF g
<1>3. {} \in P
  BY Zenon
<1>4. ASSUME NEW s \in SUBSET S, s # {}, \A b \in s : s \ {b} \in P PROVE s \in P
  <2> DEFINE c == First(s)
  <2>1. c \in s
    BY <1>4, FirstIn, Zenon
  <2>2. g[s] = f[c] + g[s \ {c}]
    BY <1>1, <1>4, Zenon
  <2> HIDE DEF c
  <2>3. ASSUME NEW b \in s, b # c PROVE g[s] = f[b] + g[s \ {b}]
    <3> DEFINE r == (s \ {c}) \ {b}
    <3>1. s \ {c} \in P /\ s \ {b} \in P /\ b \in s \ {c} /\ c \in s \ {b}
      BY <1>4, <2>1, <2>3, Zenon
    <3>2. (s \ {b}) \ {c} = r /\ r \in SUBSET S
      BY Zenon
    <3> HIDE DEF r
    <3>3. g[s \ {c}] = f[b] + g[r]
      BY <3>1, Zenon DEF r
    <3>4. g[s \ {b}] = f[c] + g[r]
      BY <3>1, <3>2, Zenon
    <3>5. f[b] \in Nat /\ f[c] \in Nat /\ g[r] \in Nat
      BY <1>2, <2>1, <3>2, Zenon
    <3> QED BY <2>2, <3>3, <3>4, <3>5, SMT
  <2>4. \A b \in s : g[s] = f[b] + g[s \ {b}]
    BY <2>2, <2>3, Zenon
  <2> QED BY <2>4, Zenon
<1>5. SUBSET S \subseteq P
  <2> HIDE DEF P
  <2> QED BY <1>3, <1>4, SubsetInduction, Zenon
<1> QED BY <1>5, Zenon DEF g

(* One of the values grows by one.                                         *)
LEMMA SumGrows ==
  ASSUME NEW S, IsFiniteSet(S), NEW f \in [S -> Nat], NEW b \in S
  PROVE  \A s \in SUBSET S : SumOf([f EXCEPT ![b] = @ + 1], S)[s] =
           IF b \in s THEN SumOf(f, S)[s] + 1 ELSE SumOf(f, S)[s]
<1> DEFINE h == [f EXCEPT ![b] = @ + 1]
           g == SumOf(f, S)
           k == SumOf(h, S)
           Grown(s) == IF b \in s THEN g[s] + 1 ELSE g[s]
           P == {s \in SUBSET S : k[s] = Grown(s)}
<1>1. f[b] \in Nat /\ f[b] + 1 \in Nat
  BY SMT
<1>2. h \in [S -> Nat] /\ h[b] = f[b] + 1 /\ \A c \in S : c # b => h[c] = f[c]
  BY <1>1, Zenon
<1> HIDE DEF h
<1>3. /\ g[{}] = 0 /\ k[{}] = 0
      /\ \A s \in SUBSET S : \A c \in s :
           g[s] = f[c] + g[s \ {c}] /\ k[s] = h[c] + k[s \ {c}]
  <2>1. g[{}] = 0 /\ k[{}] = 0
    BY SumUnfolds, Zenon
  <2> DEFINE Takes(e) == \A s \in SUBSET S : \A c \in s :
                           SumOf(e, S)[s] = e[c] + SumOf(e, S)[s \ {c}]
  <2>2. \A e \in [S -> Nat] : Takes(e)
    BY SumTakes, Zenon
  <2> HIDE DEF Takes
  <2>3. Takes(f) /\ Takes(h)
    BY <1>2, <2>2, Zenon
  <2>4. \A s \in SUBSET S : \A c \in s : g[s] = f[c] + g[s \ {c}]
    BY <2>3, Zenon DEF Takes
  <2>5. \A s \in SUBSET S : \A c \in s : k[s] = h[c] + k[s \ {c}]
    BY <2>3, Zenon DEF Takes
  <2> HIDE DEF g, k
  <2> QED BY <2>1, <2>4, <2>5, Zenon
<1>4. \A s \in SUBSET S : g[s] \in Nat
  BY SumType, Zenon
<1> HIDE DEF g, k
<1>5. {} \in P
  BY <1>3, Zenon
<1>6. ASSUME NEW s \in SUBSET S, s # {}, \A c \in s : s \ {c} \in P PROVE s \in P
  <2>1. PICK c \in s : TRUE
    BY <1>6, Zenon
  <2>2. g[s] = f[c] + g[s \ {c}] /\ k[s] = h[c] + k[s \ {c}] /\ k[s \ {c}] = Grown(s \ {c})
    BY <1>3, <1>6, <2>1, Zenon
  <2>3. g[s \ {c}] \in Nat /\ f[c] \in Nat
    BY <1>4, <2>1, Zenon
  <2>4. CASE c = b
    <3>1. k[s \ {c}] = g[s \ {c}] /\ h[c] = f[c] + 1
      BY <1>2, <2>2, <2>4, Zenon
    <3>2. k[s] = g[s] + 1
      BY <2>2, <2>3, <3>1, SMT
    <3> QED BY <2>1, <2>4, <3>2, Zenon
  <2>5. CASE c # b
    <3>1. h[c] = f[c] /\ (b \in s <=> b \in s \ {c})
      BY <1>2, <2>1, <2>5, Zenon
    <3>2. CASE b \in s
      <4>1. k[s \ {c}] = g[s \ {c}] + 1
        BY <2>2, <3>1, <3>2, Zenon
      <4>2. k[s] = g[s] + 1
        BY <2>2, <2>3, <3>1, <4>1, SMT
      <4> QED BY <3>2, <4>2, Zenon
    <3>3. CASE b \notin s
      <4>1. k[s \ {c}] = g[s \ {c}]
        BY <2>2, <3>1, <3>3, Zenon
      <4>2. k[s] = g[s]
        BY <2>2, <3>1, <4>1, Zenon
      <4> QED BY <3>3, <4>2, Zenon
    <3> QED BY <3>2, <3>3, Zenon
  <2> QED BY <2>4, <2>5, Zenon
<1>7. SUBSET S \subseteq P
  <2> HIDE DEF P
  <2> QED BY <1>5, <1>6, SubsetInduction, Zenon
<1> QED BY <1>7, Zenon DEF g, k, h

-----------------------------------------------------------------------------
\* The counters.

At(steps) == {a \in Actor : pc[a] \in steps}

(* A goroutine goes on: the number of those at certain steps changes by    *)
(* one at most.                                                            *)
LEMMA MoveCounts ==
  ASSUME pc \in [Actor -> Step], NEW a \in Actor, NEW s, pc' = [pc EXCEPT ![a] = s],
         NEW steps, IsFiniteSet(At(steps))
  PROVE  /\ IsFiniteSet(At(steps)') /\ In(steps) \in Nat
         /\ pc[a] \in steps /\ s \in steps => In(steps)' = In(steps)
         /\ pc[a] \notin steps /\ s \notin steps => In(steps)' = In(steps)
         /\ pc[a] \notin steps /\ s \in steps => In(steps)' = In(steps) + 1
         /\ pc[a] \in steps /\ s \notin steps => In(steps)' = In(steps) - 1
<1>1. pc'[a] = s /\ \A b \in Actor : b # a => pc'[b] = pc[b]
  BY Zenon
<1>2. In(steps) = Cardinality(At(steps)) /\ In(steps)' = Cardinality(At(steps)')
  BY Zenon DEF In, At
<1>3. /\ (pc[a] \in steps <=> s \in steps) => At(steps)' = At(steps)
      /\ pc[a] \notin steps /\ s \in steps => At(steps)' = At(steps) \cup {a} /\ a \notin At(steps)
      /\ pc[a] \in steps /\ s \notin steps => At(steps)' = At(steps) \ {a} /\ a \in At(steps)
  BY <1>1, Zenon DEF At
<1>4. Cardinality(At(steps)) \in Nat
  BY FS_CardinalityType, Zenon
<1>5. CASE pc[a] \in steps <=> s \in steps
  BY <1>2, <1>3, <1>4, <1>5, Zenon
<1>6. CASE pc[a] \notin steps /\ s \in steps
  <2> DEFINE T == At(steps)
  <2>1. a \notin T /\ IsFiniteSet(T) /\ At(steps)' = T \cup {a}
    BY <1>3, <1>6, Zenon
  <2> HIDE DEF T
  <2>2. IsFiniteSet(T \cup {a}) /\ Cardinality(T \cup {a}) = Cardinality(T) + 1
    BY <2>1, FS_AddElement, Zenon
  <2> QED BY <1>2, <1>4, <1>6, <2>1, <2>2, Zenon DEF T
<1>7. CASE pc[a] \in steps /\ s \notin steps
  <2> DEFINE T == At(steps)
  <2>1. a \in T /\ IsFiniteSet(T) /\ At(steps)' = T \ {a}
    BY <1>3, <1>7, Zenon
  <2> HIDE DEF T
  <2>2. IsFiniteSet(T \ {a}) /\ Cardinality(T \ {a}) = Cardinality(T) - 1
    BY <2>1, FS_RemoveElement, Zenon
  <2> QED BY <1>2, <1>4, <1>7, <2>1, <2>2, Zenon DEF T
<1> QED BY <1>5, <1>6, <1>7, Zenon

\* The steps between two additions to counters.
Between == {"got", "zero", "timed", "count"}

\* The kinds of steps, by what they do to the counters of the pool.
Quiet ==
  /\ UNCHANGED <<counterVars, latencyVars, scrapeVars>>
  /\ \/ UNCHANGED pc
     \/ \E a \in Actor, s \in Step \ Between :
          pc[a] \notin Between /\ pc' = [pc EXCEPT ![a] = s]

Gets ==
  /\ misses' \in {misses, misses + 1} /\ UNCHANGED <<hits, processed, latencyVars, scrapeVars>>
  /\ \E a \in Actor : pc[a] \notin Between /\ pc' = [pc EXCEPT ![a] = "got"]

CountsHit ==
  /\ hits' = hits + 1 /\ UNCHANGED <<misses, processed, latencyVars, scrapeVars>>
  /\ \E a \in Actor, s \in Step \ Between : pc[a] = "got" /\ pc' = [pc EXCEPT ![a] = s]

CountsProcessed ==
  /\ processed' = processed + 1 /\ UNCHANGED <<hits, misses, latencyVars, scrapeVars>>
  /\ \E a \in Actor : pc[a] = "timed" /\ pc' = [pc EXCEPT ![a] = "done"]

LEMMA Kinds ==
  ASSUME [TelemetryNext]_telemetryVars
  PROVE  Quiet \/ Gets \/ CountsHit \/ CountsProcessed \/ Scrape
           \/ \E c \in Consumer : RecordLatency(c)
<1> USE ActorFacts
<1>1. /\ {"idle", "fill", "submit", "process", "complete", "terminal", "completed",
          "stored", "done"} \subseteq Step \ Between
      /\ "got" \in Between /\ "timed" \in Between
  BY SMT DEF Step, Between
<1>2. ASSUME NEW p \in Client, ClientStep(p), UNCHANGED <<latencyVars, scrapeVars>>
      PROVE  Quiet \/ Gets \/ CountsHit
  <2>1. CASE GetEvent(p)
    BY <1>1, <1>2, <2>1, Zenon DEF GetEvent, Got, GoTo, Gets
  <2>2. CASE CountHit(p)
    BY <1>1, <1>2, <2>2, Zenon DEF CountHit, GoTo, CountsHit
  <2>3. CASE FillIn(p)
    BY <1>1, <1>2, <2>3, Zenon DEF FillIn, GoTo, Quiet
  <2>4. CASE Submit(p)
    BY <1>1, <1>2, <2>4, Zenon DEF Submit, GoTo, Quiet, counterVars
  <2> QED BY <1>2, <2>1, <2>2, <2>3, <2>4, Zenon DEF ClientStep
<1>3. ASSUME NEW c \in Consumer, ConsumerStep(c), UNCHANGED <<latencyVars, scrapeVars>>
      PROVE  Quiet \/ Gets \/ CountsHit \/ CountsProcessed
  <2>1. CASE Pop(c)
    BY <1>1, <1>3, <2>1, Zenon DEF Pop, GoTo, Quiet
  <2>2. CASE Process(c)
    BY <1>1, <1>3, <2>2, Zenon DEF Process, GoTo, Quiet
  <2>3. CASE GetTerminal(c)
    BY <1>1, <1>3, <2>3, Zenon DEF GetTerminal, Got, GoTo, Gets
  <2>4. CASE CountTerminal(c)
    BY <1>1, <1>3, <2>4, Zenon DEF CountTerminal, GoTo, CountsHit
  <2>5. CASE StoreTerminal(c)
    BY <1>1, <1>3, <2>5, Zenon DEF StoreTerminal, GoTo, Quiet
  <2>6. CASE PutTerminal(c)
    BY <1>1, <1>3, <2>6, Zenon DEF PutTerminal, GoTo, Quiet
  <2>7. CASE CountProcessed(c)
    BY <1>1, <1>3, <2>7, Zenon DEF CountProcessed, GoTo, CountsProcessed
  <2>8. CASE PutEvent(c)
    BY <1>1, <1>3, <2>8, Zenon DEF PutEvent, GoTo, Quiet
  <2> QED BY <1>3, <2>1, <2>2, <2>3, <2>4, <2>5, <2>6, <2>7, <2>8, Zenon DEF ConsumerStep
<1>4. CASE (StartShutdown \/ Collect) /\ UNCHANGED <<latencyVars, scrapeVars>>
  BY <1>4, Zenon DEF StartShutdown, Collect, Quiet, localVars
<1>5. CASE UNCHANGED telemetryVars
  BY <1>5, Zenon DEF telemetryVars, eventPoolVars, localVars, Quiet
<1> QED BY <1>2, <1>3, <1>4, <1>5, Zenon DEF TelemetryNext, EventPoolNext

One(x, steps) == IF x \in steps THEN 1 ELSE 0

LEMMA MoveBy ==
  ASSUME pc \in [Actor -> Step], NEW a \in Actor, NEW s, pc' = [pc EXCEPT ![a] = s],
         NEW steps, steps \subseteq Between, IsFiniteSet(At(Between))
  PROVE  In(steps) \in Nat /\ In(steps)' = In(steps) + One(s, steps) - One(pc[a], steps)
<1> DEFINE n == In(steps)
           m == In(steps)'
<1>1. IsFiniteSet(At(steps))
  <2>1. At(steps) \in SUBSET At(Between)
    BY Zenon DEF At
  <2> QED BY <2>1, FS_Subset, Zenon
<1>2. /\ n \in Nat
      /\ pc[a] \in steps /\ s \in steps => m = n
      /\ pc[a] \notin steps /\ s \notin steps => m = n
      /\ pc[a] \notin steps /\ s \in steps => m = n + 1
      /\ pc[a] \in steps /\ s \notin steps => m = n - 1
  BY <1>1, MoveCounts, Zenon
<1> HIDE DEF n, m
<1>3. m = n + One(s, steps) - One(pc[a], steps)
  BY <1>2, SMT DEF One
<1> QED BY <1>2, <1>3, Zenon DEF n, m

\* The numbers of goroutines that the balances speak of.
Getting  == In({"got"})
Recorded == In({"zero", "timed"})
Early    == In({"zero"})
Late     == In({"count"})

LEMMA NumbersMove ==
  ASSUME pc \in [Actor -> Step], IsFiniteSet(At(Between)),
         NEW a \in Actor, NEW s, pc' = [pc EXCEPT ![a] = s]
  PROVE  /\ IsFiniteSet(At(Between)')
         /\ Getting \in Nat /\ Recorded \in Nat /\ Early \in Nat /\ Late \in Nat
         /\ Getting' = Getting + One(s, {"got"}) - One(pc[a], {"got"})
         /\ Recorded' = Recorded + One(s, {"zero", "timed"}) - One(pc[a], {"zero", "timed"})
         /\ Early' = Early + One(s, {"zero"}) - One(pc[a], {"zero"})
         /\ Late' = Late + One(s, {"count"}) - One(pc[a], {"count"})
<1>1. IsFiniteSet(At(Between)')
  BY MoveCounts, Zenon
<1>2. /\ {"got"} \subseteq Between /\ {"zero", "timed"} \subseteq Between
      /\ {"zero"} \subseteq Between /\ {"count"} \subseteq Between
  BY SMT DEF Between
<1>3. Getting \in Nat /\ Getting' = Getting + One(s, {"got"}) - One(pc[a], {"got"})
  BY <1>2, MoveBy, Zenon DEF Getting
<1>4. /\ Recorded \in Nat
      /\ Recorded' = Recorded + One(s, {"zero", "timed"}) - One(pc[a], {"zero", "timed"})
  BY <1>2, MoveBy, Zenon DEF Recorded
<1>5. Early \in Nat /\ Early' = Early + One(s, {"zero"}) - One(pc[a], {"zero"})
  BY <1>2, MoveBy, Zenon DEF Early
<1>6. Late \in Nat /\ Late' = Late + One(s, {"count"}) - One(pc[a], {"count"})
  BY <1>2, MoveBy, Zenon DEF Late
<1> QED BY <1>1, <1>3, <1>4, <1>5, <1>6, Zenon

LEMMA NumbersStay ==
  ASSUME UNCHANGED pc
  PROVE  /\ At(Between)' = At(Between)
         /\ UNCHANGED <<Getting, Recorded, Early, Late>>
BY Zenon DEF At, Getting, Recorded, Early, Late, In

\* The sum of the buckets in s.
Sum(f, s) == SumOf(f, Bucket)[s]

LEMMA BucketFinite == IsFiniteSet(Bucket)
<1>1. Buckets \in Nat /\ Bucket = 1..Buckets
  BY BucketAssumption, Zenon DEF BucketAssumption, Bucket
<1> QED BY <1>1, FS_Interval, SMT

LEMMA SumFacts ==
  ASSUME NEW f \in [Bucket -> Nat]
  PROVE  /\ FoldFunction(+, 0, f) = Sum(f, Bucket)
         /\ \A s \in SUBSET Bucket : Sum(f, s) \in Nat
         /\ Sum(f, {}) = 0
         /\ \A s \in SUBSET Bucket : \A b \in s : Sum(f, s) = f[b] + Sum(f, s \ {b})
         /\ \A n \in Bucket : Sum(f, 1..n) = f[n] + Sum(f, 1..(n - 1))
<1>1. FoldFunction(+, 0, f) = Sum(f, Bucket)
  <2>1. DOMAIN f = Bucket
    BY Zenon
  <2> QED BY <2>1, FoldIsSum, Zenon DEF Sum
<1>2. \A s \in SUBSET Bucket : Sum(f, s) \in Nat
  BY BucketFinite, SumType, Zenon DEF Sum
<1>3. Sum(f, {}) = 0
  BY BucketFinite, SumUnfolds, Zenon DEF Sum
<1>4. \A s \in SUBSET Bucket : \A b \in s : Sum(f, s) = f[b] + Sum(f, s \ {b})
  BY BucketFinite, SumTakes, Zenon DEF Sum
<1>5. ASSUME NEW n \in Bucket PROVE Sum(f, 1..n) = f[n] + Sum(f, 1..(n - 1))
  <2>1. 1..n \in SUBSET Bucket /\ n \in 1..n /\ (1..n) \ {n} = 1..(n - 1)
    BY BucketAssumption, SMT DEF BucketAssumption, Bucket
  <2>2. Sum(f, 1..n) = f[n] + Sum(f, (1..n) \ {n})
    BY <1>4, <2>1, Zenon
  <2> QED BY <2>1, <2>2, Zenon
<1> QED BY <1>1, <1>2, <1>3, <1>4, <1>5, Zenon

LEMMA ZeroSum == Sum([b \in Bucket |-> 0], Bucket) = 0
<1> DEFINE f == [b \in Bucket |-> 0]
           P == {s \in SUBSET Bucket : Sum(f, s) = 0}
<1>1. f \in [Bucket -> Nat] /\ \A b \in Bucket : f[b] = 0
  BY SMT
<1> HIDE DEF f
<1>2. /\ Sum(f, {}) = 0
      /\ \A s \in SUBSET Bucket : \A b \in s : Sum(f, s) = f[b] + Sum(f, s \ {b})
  BY <1>1, SumFacts, Zenon
<1>3. {} \in P
  BY <1>2, Zenon
<1>4. ASSUME NEW s \in SUBSET Bucket, s # {}, \A b \in s : s \ {b} \in P PROVE s \in P
  <2>1. PICK b \in s : TRUE
    BY <1>4, Zenon
  <2>2. Sum(f, s) = f[b] + Sum(f, s \ {b}) /\ f[b] = 0 /\ Sum(f, s \ {b}) = 0
    BY <1>1, <1>2, <1>4, <2>1, Zenon
  <2>3. Sum(f, s) = 0
    BY <2>2, SMT
  <2> QED BY <2>3, Zenon
<1>5. SUBSET Bucket \subseteq P
  <2> HIDE DEF P
  <2> QED BY <1>3, <1>4, BucketFinite, SubsetInduction, Zenon
<1> QED BY <1>5, Zenon DEF f

LEMMA SumMoves ==
  ASSUME NEW f \in [Bucket -> Nat], NEW b \in Bucket
  PROVE  LET h == [f EXCEPT ![b] = @ + 1]
         IN  /\ h \in [Bucket -> Nat] /\ Sum(h, Bucket) = Sum(f, Bucket) + 1
             /\ \A s \in SUBSET Bucket : Sum(f, s) <= Sum(h, s)
<1> DEFINE h == [f EXCEPT ![b] = @ + 1]
<1>1. f[b] + 1 \in Nat
  BY SMT
<1>2. h \in [Bucket -> Nat]
  BY <1>1, Zenon
<1>3. \A s \in SUBSET Bucket : Sum(h, s) = IF b \in s THEN Sum(f, s) + 1 ELSE Sum(f, s)
  BY BucketFinite, SumGrows, Zenon DEF Sum
<1>4. \A s \in SUBSET Bucket : Sum(f, s) \in Nat
  BY SumFacts, Zenon
<1> HIDE DEF h
<1>5. Sum(h, Bucket) = Sum(f, Bucket) + 1
  BY <1>3, Zenon
<1>6. ASSUME NEW s \in SUBSET Bucket PROVE Sum(f, s) <= Sum(h, s)
  <2>1. Sum(f, s) \in Nat /\ Sum(h, s) \in {Sum(f, s), Sum(f, s) + 1}
    BY <1>3, <1>4, Zenon
  <2> QED BY <2>1, SMT
<1>7. h \in [Bucket -> Nat] /\ Sum(h, Bucket) = Sum(f, Bucket) + 1
        /\ \A s \in SUBSET Bucket : Sum(f, s) <= Sum(h, s)
  BY <1>2, <1>5, <1>6, Zenon
<1> QED BY <1>7, Zenon DEF h

-----------------------------------------------------------------------------
\* The inductive invariant of the counters and of the scrape.

CounterTypes ==
  /\ pc \in [Actor -> Step]
  /\ hits \in Nat /\ misses \in Nat /\ processed \in Nat
  /\ latencyBuckets \in [Bucket -> Nat] /\ latencyCount \in Nat

Balance ==
  /\ IsFiniteSet(At(Between))
  /\ misses <= hits + Getting
  /\ latencyCount = processed + Recorded
  /\ Sum(latencyBuckets, Bucket) + Early = latencyCount + Late

\* What the scrape has loaded was there, bucket by bucket.
Loaded ==
  /\ seen \in [processed : Nat, inBuckets : Nat] /\ scrape \in 0..(Buckets + 1)
  /\ seen.processed <= processed
  /\ scrape = 0 => seen.inBuckets = 0
  /\ scrape # 0 => seen.inBuckets <= Sum(latencyBuckets, 1..(scrape - 1))

CounterInv == CounterTypes /\ Balance /\ Loaded

LEMMA CounterNumbers ==
  ASSUME CounterTypes, IsFiniteSet(At(Between))
  PROVE  /\ Getting \in Nat /\ Recorded \in Nat /\ Early \in Nat /\ Late \in Nat
         /\ Sum(latencyBuckets, Bucket) \in Nat
<1>1. Sum(latencyBuckets, Bucket) \in Nat
  BY SumFacts, Zenon DEF CounterTypes
<1>2. ASSUME NEW steps, steps \subseteq Between PROVE In(steps) \in Nat
  <2>1. At(steps) \in SUBSET At(Between)
    BY <1>2, Zenon DEF At
  <2>2. IsFiniteSet(At(steps))
    BY <2>1, FS_Subset, Zenon
  <2> QED BY <2>2, FS_CardinalityType, Zenon DEF In, At
<1>3. /\ {"got"} \subseteq Between /\ {"zero", "timed"} \subseteq Between
      /\ {"zero"} \subseteq Between /\ {"count"} \subseteq Between
  BY SMT DEF Between
<1> QED BY <1>1, <1>2, <1>3, Zenon DEF Getting, Recorded, Early, Late

\* The effect of a step on the numbers.
Change(g, r, e, l) ==
  /\ IsFiniteSet(At(Between)')
  /\ Getting' = Getting + g /\ Recorded' = Recorded + r
  /\ Early' = Early + e /\ Late' = Late + l

LEMMA StayChange ==
  ASSUME CounterTypes, Balance, UNCHANGED pc
  PROVE  Change(0, 0, 0, 0)
<1>1. Getting \in Nat /\ Recorded \in Nat /\ Early \in Nat /\ Late \in Nat
  BY CounterNumbers, Zenon DEF Balance
<1>2. IsFiniteSet(At(Between)')
  BY NumbersStay, Zenon DEF Balance
<1>3. Getting' = Getting /\ Recorded' = Recorded /\ Early' = Early /\ Late' = Late
  BY NumbersStay, Zenon
<1> QED BY <1>1, <1>2, <1>3, SMT DEF Change

LEMMA MoveChange ==
  ASSUME CounterTypes, Balance, NEW a \in Actor, NEW s, pc' = [pc EXCEPT ![a] = s]
  PROVE  /\ pc[a] \notin Between /\ s \notin Between => Change(0, 0, 0, 0)
         /\ pc[a] \notin Between /\ s = "got"   => Change(1, 0, 0, 0)
         /\ pc[a] = "got" /\ s \notin Between   => Change(-1, 0, 0, 0)
         /\ pc[a] \notin Between /\ s = "zero"  => Change(0, 1, 1, 0)
         /\ pc[a] = "zero" /\ s = "timed"       => Change(0, 0, -1, 0)
         /\ pc[a] \notin Between /\ s = "count" => Change(0, 0, 0, 1)
         /\ pc[a] = "count" /\ s = "timed"      => Change(0, 1, 0, -1)
         /\ pc[a] = "timed" /\ s \notin Between => Change(0, -1, 0, 0)
<1> DEFINE t == pc[a]
<1>1. /\ IsFiniteSet(At(Between)')
      /\ Getting \in Nat /\ Recorded \in Nat /\ Early \in Nat /\ Late \in Nat
      /\ Getting' = Getting + One(s, {"got"}) - One(t, {"got"})
      /\ Recorded' = Recorded + One(s, {"zero", "timed"}) - One(t, {"zero", "timed"})
      /\ Early' = Early + One(s, {"zero"}) - One(t, {"zero"})
      /\ Late' = Late + One(s, {"count"}) - One(t, {"count"})
  BY NumbersMove, Zenon DEF CounterTypes, Balance
<1> HIDE DEF t
<1>2. /\ t \notin Between /\ s \notin Between => Change(0, 0, 0, 0)
      /\ t \notin Between /\ s = "got"   => Change(1, 0, 0, 0)
      /\ t = "got" /\ s \notin Between   => Change(-1, 0, 0, 0)
      /\ t \notin Between /\ s = "zero"  => Change(0, 1, 1, 0)
  BY <1>1, SMT DEF Change, One, Between
<1>3. /\ t = "zero" /\ s = "timed"       => Change(0, 0, -1, 0)
      /\ t \notin Between /\ s = "count" => Change(0, 0, 0, 1)
      /\ t = "count" /\ s = "timed"      => Change(0, 1, 0, -1)
      /\ t = "timed" /\ s \notin Between => Change(0, -1, 0, 0)
  BY <1>1, SMT DEF Change, One, Between
<1> QED BY <1>2, <1>3, Zenon DEF t

LEMMA Prefix ==
  ASSUME NEW n \in 0..(Buckets + 1), n # 0
  PROVE  1..(n - 1) \in SUBSET Bucket
BY BucketAssumption, SMT DEF BucketAssumption, Bucket

(* Counters only grow: what was loaded is still there.                     *)
LEMMA LoadedKept ==
  ASSUME CounterTypes, CounterTypes', Loaded, UNCHANGED scrapeVars,
         processed' \in {processed, processed + 1},
         \A s \in SUBSET Bucket : Sum(latencyBuckets, s) <= Sum(latencyBuckets', s)
  PROVE  Loaded'
<1>1. UNCHANGED <<scrape, seen>>
  BY Zenon DEF scrapeVars
<1>2. seen'.processed <= processed'
  BY <1>1, SMT DEF Loaded, CounterTypes
<1>3. ASSUME scrape # 0 PROVE seen.inBuckets <= Sum(latencyBuckets', 1..(scrape - 1))
  <2> DEFINE s == 1..(scrape - 1)
  <2>1. s \in SUBSET Bucket
    BY <1>3, Prefix, Zenon DEF Loaded
  <2> HIDE DEF s
  <2>2. /\ seen.inBuckets <= Sum(latencyBuckets, s)
        /\ Sum(latencyBuckets, s) <= Sum(latencyBuckets', s)
    BY <1>3, <2>1, Zenon DEF Loaded, s
  <2>3. /\ seen.inBuckets \in Nat
        /\ Sum(latencyBuckets, s) \in Nat /\ Sum(latencyBuckets', s) \in Nat
    <3>1. seen.inBuckets \in Nat
      BY SMT DEF Loaded
    <3> QED BY <2>1, <3>1, SumFacts, Zenon DEF CounterTypes
  <2>4. seen.inBuckets <= Sum(latencyBuckets', s)
    BY <2>2, <2>3, SMT
  <2> QED BY <2>4, Zenon DEF s
<1>4. /\ seen' \in [processed : Nat, inBuckets : Nat] /\ scrape' \in 0..(Buckets + 1)
      /\ scrape' = 0 => seen'.inBuckets = 0
  BY <1>1, Zenon DEF Loaded
<1>5. scrape' # 0 => seen'.inBuckets <= Sum(latencyBuckets', 1..(scrape' - 1))
  BY <1>1, <1>3, Zenon
<1> QED BY <1>2, <1>4, <1>5, Zenon DEF Loaded

LEMMA SameSums ==
  ASSUME CounterTypes, UNCHANGED latencyBuckets
  PROVE  \A s \in SUBSET Bucket : Sum(latencyBuckets, s) <= Sum(latencyBuckets', s)
<1>1. ASSUME NEW s \in SUBSET Bucket PROVE Sum(latencyBuckets, s) <= Sum(latencyBuckets', s)
  <2>1. Sum(latencyBuckets, s) \in Nat /\ Sum(latencyBuckets', s) = Sum(latencyBuckets, s)
    BY SumFacts, Zenon DEF CounterTypes
  <2> QED BY <2>1, SMT
<1> QED BY <1>1, Zenon

(* The steps of the pool and of the consumers' count.                      *)
LEMMA PoolCounts ==
  ASSUME CounterInv, CounterTypes', Quiet \/ Gets \/ CountsHit \/ CountsProcessed
  PROVE  CounterInv'
<1>1. CounterTypes /\ Balance /\ Loaded
  BY Zenon DEF CounterInv
<1>2. UNCHANGED <<latencyBuckets, latencyCount, scrapeVars>>
  BY Zenon DEF Quiet, Gets, CountsHit, CountsProcessed, latencyVars
<1>3. /\ Getting \in Nat /\ Recorded \in Nat /\ Early \in Nat /\ Late \in Nat
      /\ Sum(latencyBuckets, Bucket) \in Nat
  BY <1>1, CounterNumbers, Zenon DEF Balance
<1>4. Sum(latencyBuckets', Bucket) = Sum(latencyBuckets, Bucket)
  BY <1>2, Zenon
<1>5. CASE Quiet
  <2>1. Change(0, 0, 0, 0)
    BY <1>1, <1>5, StayChange, MoveChange, Zenon DEF Quiet
  <2>2. UNCHANGED <<hits, misses, processed>>
    BY <1>5, Zenon DEF Quiet, counterVars
  <2>3. Balance'
    BY <1>1, <1>2, <1>3, <1>4, <2>1, <2>2, SMT DEF Balance, Change, CounterTypes
  <2>4. Loaded'
    BY <1>1, <1>2, <2>2, LoadedKept, SameSums, Zenon
  <2> QED BY <2>3, <2>4, Zenon DEF CounterInv
<1>6. CASE Gets
  <2>1. Change(1, 0, 0, 0)
    BY <1>1, <1>6, MoveChange, Zenon DEF Gets
  <2>2. misses' \in {misses, misses + 1} /\ UNCHANGED <<hits, processed>>
    BY <1>6, Zenon DEF Gets
  <2>3. Balance'
    BY <1>1, <1>2, <1>3, <1>4, <2>1, <2>2, SMT DEF Balance, Change, CounterTypes
  <2>4. Loaded'
    BY <1>1, <1>2, <2>2, LoadedKept, SameSums, Zenon
  <2> QED BY <2>3, <2>4, Zenon DEF CounterInv
<1>7. CASE CountsHit
  <2>1. Change(-1, 0, 0, 0)
    BY <1>1, <1>7, MoveChange, Zenon DEF CountsHit
  <2>2. hits' = hits + 1 /\ UNCHANGED <<misses, processed>>
    BY <1>7, Zenon DEF CountsHit
  <2>3. Balance'
    BY <1>1, <1>2, <1>3, <1>4, <2>1, <2>2, SMT DEF Balance, Change, CounterTypes
  <2>4. Loaded'
    BY <1>1, <1>2, <2>2, LoadedKept, SameSums, Zenon
  <2> QED BY <2>3, <2>4, Zenon DEF CounterInv
<1>8. CASE CountsProcessed
  <2>1. Change(0, -1, 0, 0)
    <3>1. "done" \notin Between
      BY SMT DEF Between
    <3> QED BY <1>1, <1>8, <3>1, MoveChange, Zenon DEF CountsProcessed
  <2>2. processed' = processed + 1 /\ UNCHANGED <<hits, misses>>
    BY <1>8, Zenon DEF CountsProcessed
  <2>3. Balance'
    BY <1>1, <1>2, <1>3, <1>4, <2>1, <2>2, SMT DEF Balance, Change, CounterTypes
  <2>4. Loaded'
    BY <1>1, <1>2, <2>2, LoadedKept, SameSums, Zenon
  <2> QED BY <2>3, <2>4, Zenon DEF CounterInv
<1> QED BY <1>5, <1>6, <1>7, <1>8, Zenon

(* The steps of recordLatency.                                             *)
LEMMA RecordCounts ==
  ASSUME CounterInv, CounterTypes', NEW c \in Consumer, RecordLatency(c)
  PROVE  CounterInv'
<1>1. CounterTypes /\ Balance /\ Loaded /\ c \in Actor
  BY ActorFacts, Zenon DEF CounterInv
<1>2. /\ Getting \in Nat /\ Recorded \in Nat /\ Early \in Nat /\ Late \in Nat
      /\ Sum(latencyBuckets, Bucket) \in Nat
  BY <1>1, CounterNumbers, Zenon DEF Balance
<1>3. "stored" \notin Between /\ 1 \in Bucket
  BY BucketAssumption, SMT DEF Between, Bucket, BucketAssumption
<1>4. UNCHANGED <<hits, misses, processed, scrapeVars>>
  BY Zenon DEF RecordLatency, RecordZero, RecordZeroBucket, RecordBucket, RecordCount,
               counterVars
<1>5. CASE RecordZero(c) \/ RecordCount(c)
  <2>1. latencyCount' = latencyCount + 1 /\ UNCHANGED latencyBuckets
    BY <1>5, Zenon DEF RecordZero, RecordCount
  <2>2. Change(0, 1, 1, 0) \/ Change(0, 1, 0, -1)
    BY <1>1, <1>3, <1>5, MoveChange, Zenon DEF RecordZero, RecordCount, GoTo
  <2>3. Sum(latencyBuckets', Bucket) = Sum(latencyBuckets, Bucket)
    BY <2>1, Zenon
  <2>4. Balance'
    BY <1>1, <1>2, <1>4, <2>1, <2>2, <2>3, SMT DEF Balance, Change, CounterTypes
  <2>5. Loaded'
    BY <1>1, <1>4, <2>1, LoadedKept, SameSums, Zenon
  <2> QED BY <2>4, <2>5, Zenon DEF CounterInv
<1>6. CASE RecordZeroBucket(c) \/ RecordBucket(c)
  <2>1. PICK b \in Bucket : latencyBuckets' = [latencyBuckets EXCEPT ![b] = @ + 1]
    BY <1>3, <1>6, Zenon DEF RecordZeroBucket, RecordBucket
  <2>2. UNCHANGED latencyCount
    BY <1>6, Zenon DEF RecordZeroBucket, RecordBucket
  <2>3. Change(0, 0, -1, 0) \/ Change(0, 0, 0, 1)
    BY <1>1, <1>3, <1>6, MoveChange, Zenon DEF RecordZeroBucket, RecordBucket, GoTo
  <2>4. /\ Sum(latencyBuckets', Bucket) = Sum(latencyBuckets, Bucket) + 1
        /\ \A s \in SUBSET Bucket : Sum(latencyBuckets, s) <= Sum(latencyBuckets', s)
    BY <1>1, <2>1, SumMoves, Zenon DEF CounterTypes
  <2>5. Balance'
    <3>1. /\ IsFiniteSet(At(Between)')
          /\ Getting' = Getting + 0 /\ Recorded' = Recorded + 0
          /\ \/ Early' = Early + (-1) /\ Late' = Late + 0
             \/ Early' = Early + 0 /\ Late' = Late + 1
      BY <2>3, Zenon DEF Change
    <3>2. misses' <= hits' + Getting' /\ latencyCount' = processed' + Recorded'
      <4>1. /\ misses \in Nat /\ hits \in Nat /\ processed \in Nat
            /\ misses <= hits + Getting /\ latencyCount = processed + Recorded
        BY <1>1, Zenon DEF Balance, CounterTypes
      <4> QED BY <1>2, <1>4, <2>2, <3>1, <4>1, SMT
    <3>3. Sum(latencyBuckets', Bucket) + Early' = latencyCount' + Late'
      <4>1. latencyCount \in Nat /\ Sum(latencyBuckets, Bucket) + Early = latencyCount + Late
        BY <1>1, Zenon DEF Balance, CounterTypes
      <4> QED BY <1>2, <2>2, <2>4, <3>1, <4>1, SMT
    <3> QED BY <3>1, <3>2, <3>3, Zenon DEF Balance
  <2>6. Loaded'
    BY <1>1, <1>4, <2>4, LoadedKept, Zenon
  <2> QED BY <2>5, <2>6, Zenon DEF CounterInv
<1> QED BY <1>5, <1>6, Zenon DEF RecordLatency

(* The steps of the scrape.                                                *)
LEMMA ScrapeCounts ==
  ASSUME CounterInv, CounterTypes', Scrape
  PROVE  CounterInv'
<1>1. CounterTypes /\ Balance /\ Loaded
  BY Zenon DEF CounterInv
<1>2. UNCHANGED <<pc, hits, misses, processed, latencyBuckets, latencyCount>>
  BY Zenon DEF Scrape, LoadProcessed, LoadBucket, LoadCount, eventPoolVars, localVars,
               counterVars, latencyVars
<1>3. Balance'
  <2>1. At(Between)' = At(Between) /\ UNCHANGED <<Getting, Recorded, Early, Late>>
    BY <1>2, NumbersStay, Zenon
  <2> QED BY <1>1, <1>2, <2>1, Zenon DEF Balance
<1>4. CASE LoadProcessed
  <2>1. /\ seen' \in [processed : Nat, inBuckets : Nat]
        /\ seen'.processed = processed /\ seen'.inBuckets = 0
    BY <1>1, <1>4, SMT DEF LoadProcessed, Loaded, CounterTypes
  <2>2. scrape' = 1 /\ scrape' \in 0..(Buckets + 1) /\ 1..(scrape' - 1) = {}
    BY <1>4, BucketAssumption, SMT DEF LoadProcessed, BucketAssumption
  <2>3. Sum(latencyBuckets', 1..(scrape' - 1)) = 0
    BY <1>1, <1>2, <2>2, SumFacts, Zenon DEF CounterTypes
  <2>4. Loaded'
    BY <1>1, <1>2, <2>1, <2>2, <2>3, SMT DEF Loaded, CounterTypes
  <2> QED BY <1>3, <2>4, Zenon DEF CounterInv
<1>5. CASE LoadBucket
  <2> DEFINE n == scrape
             old == Sum(latencyBuckets, 1..(n - 1))
  <2>1. n \in Bucket /\ n \in Nat /\ n # 0 /\ n + 1 \in 0..(Buckets + 1)
          /\ (n + 1) - 1 = n /\ n + 1 # 0 /\ 1..(n - 1) \in SUBSET Bucket
    BY <1>5, BucketAssumption, SMT DEF LoadBucket, Bucket, BucketAssumption
  <2>2. /\ latencyBuckets[n] \in Nat /\ old \in Nat
        /\ Sum(latencyBuckets, 1..n) = latencyBuckets[n] + old
    BY <1>1, <2>1, SumFacts, Zenon DEF CounterTypes
  <2>3. seen.inBuckets <= old
    BY <1>1, <2>1, Zenon DEF Loaded
  <2> HIDE DEF old
  <2>4. /\ seen' \in [processed : Nat, inBuckets : Nat]
        /\ seen'.processed = seen.processed
        /\ seen'.inBuckets <= latencyBuckets[n] + old
    <3>1. seen' = [seen EXCEPT !.inBuckets = @ + latencyBuckets[n]]
      BY <1>5, Zenon DEF LoadBucket
    <3>2. seen \in [processed : Nat, inBuckets : Nat]
      BY <1>1, Zenon DEF Loaded
    <3> QED BY <2>2, <2>3, <3>1, <3>2, SMT
  <2>5. seen'.inBuckets <= Sum(latencyBuckets', 1..(scrape' - 1))
    <3>1. scrape' - 1 = n /\ latencyBuckets' = latencyBuckets
      BY <1>2, <1>5, <2>1, Zenon DEF LoadBucket
    <3> QED BY <2>2, <2>4, <3>1, Zenon
  <2>6. scrape' \in 0..(Buckets + 1) /\ scrape' # 0 /\ seen'.processed <= processed'
    BY <1>1, <1>2, <1>5, <2>1, <2>4, Zenon DEF LoadBucket, Loaded
  <2> QED BY <1>3, <2>4, <2>5, <2>6, Zenon DEF CounterInv, Loaded
<1>6. CASE LoadCount
  <2>1. /\ seen' \in [processed : Nat, inBuckets : Nat]
        /\ seen'.processed = 0 /\ seen'.inBuckets = 0
    BY <1>6, SMT DEF LoadCount, Unseen
  <2>2. scrape' = 0 /\ scrape' \in 0..(Buckets + 1) /\ seen'.processed <= processed'
    BY <1>1, <1>2, <1>6, <2>1, BucketAssumption, SMT
       DEF LoadCount, BucketAssumption, CounterTypes
  <2> QED BY <1>3, <2>1, <2>2, Zenon DEF CounterInv, Loaded
<1> QED BY <1>4, <1>5, <1>6, Zenon DEF Scrape

LEMMA CounterTypesStep ==
  ASSUME PoolInv', CounterInv, [TelemetryNext]_telemetryVars
  PROVE  CounterTypes'
<1>1. pc' \in [Actor -> Step] /\ hits' \in Nat /\ misses' \in Nat /\ processed' \in Nat
  BY Zenon DEF PoolInv, EventPoolTypeOK, Step
<1>2. latencyBuckets \in [Bucket -> Nat] /\ latencyCount \in Nat
  BY Zenon DEF CounterInv, CounterTypes
<1>3. ASSUME NEW c \in Consumer, RecordLatency(c)
      PROVE  latencyBuckets' \in [Bucket -> Nat] /\ latencyCount' \in Nat
  <2>1. latencyCount' \in {latencyCount, latencyCount + 1}
    BY <1>3, Zenon DEF RecordLatency, RecordZero, RecordZeroBucket, RecordBucket, RecordCount
  <2>2. \/ UNCHANGED latencyBuckets
        \/ \E b \in Bucket : latencyBuckets' = [latencyBuckets EXCEPT ![b] = @ + 1]
    <3>1. 1 \in Bucket
      BY BucketAssumption, SMT DEF Bucket, BucketAssumption
    <3> QED BY <1>3, <3>1, Zenon
            DEF RecordLatency, RecordZero, RecordZeroBucket, RecordBucket, RecordCount
  <2>3. latencyBuckets' \in [Bucket -> Nat]
    BY <1>2, <2>2, SMT
  <2>4. latencyCount' \in Nat
    BY <1>2, <2>1, SMT
  <2> QED BY <2>3, <2>4, Zenon
<1>4. ASSUME UNCHANGED latencyVars
      PROVE  latencyBuckets' \in [Bucket -> Nat] /\ latencyCount' \in Nat
  BY <1>2, <1>4, Zenon DEF latencyVars
<1>5. latencyBuckets' \in [Bucket -> Nat] /\ latencyCount' \in Nat
  BY <1>3, <1>4, Zenon DEF TelemetryNext, Scrape, LoadProcessed, LoadBucket, LoadCount, telemetryVars
<1> QED BY <1>1, <1>5, Zenon DEF CounterTypes

LEMMA CounterInit == TelemetryInit => CounterInv
<1> SUFFICES ASSUME TelemetryInit PROVE CounterInv
  OBVIOUS
<1>1. CounterTypes
  <2>1. pc \in [Actor -> Step] /\ hits \in Nat /\ misses \in Nat /\ processed \in Nat
    BY InitCore, Zenon DEF PoolInv, EventPoolTypeOK, Step
  <2> QED BY <2>1, SMT DEF TelemetryInit, CounterTypes
<1>2. At(Between) = {} /\ At({"got"}) = {} /\ At({"zero", "timed"}) = {}
        /\ At({"zero"}) = {} /\ At({"count"}) = {}
  BY SMT DEF TelemetryInit, EventPoolInit, At, Between
<1>3. IsFiniteSet(At(Between))
  BY <1>2, FS_EmptySet, Zenon
<1>4. Getting = 0 /\ Recorded = 0 /\ Early = 0 /\ Late = 0
  BY <1>2, FS_EmptySet, Zenon DEF Getting, Recorded, Early, Late, In, At
<1>5. Sum(latencyBuckets, Bucket) = 0
  BY ZeroSum, Zenon DEF TelemetryInit
<1>6. Balance
  BY <1>1, <1>3, <1>4, <1>5, SMT DEF Balance, TelemetryInit, EventPoolInit, CounterTypes
<1>7. Loaded
  BY BucketAssumption, SMT DEF Loaded, TelemetryInit, EventPoolInit, Unseen, BucketAssumption
<1> QED BY <1>1, <1>6, <1>7, Zenon DEF CounterInv

(* The inductive invariant of the counters of pool.go:39-54 and            *)
(* worker.go:490-527: two of them differ by the goroutines that have added *)
(* to the one and not yet to the other.                                    *)
THEOREM CounterInvariant == TelemetrySpec => []CounterInv
<1>1. PoolInv' /\ CounterInv /\ [TelemetryNext]_telemetryVars => CounterInv'
  BY Kinds, CounterTypesStep, PoolCounts, RecordCounts, ScrapeCounts, Zenon
<1> QED BY <1>1, CounterInit, PoolInvariant, PTL DEF TelemetrySpec

(* The histogram, its count and the number of processed events differ by   *)
(* the consumers between two additions, for any number of buckets          *)
(* (worker.go:490-491, 512-527).                                           *)
THEOREM HistogramAddsUp == TelemetrySpec => []LatencyBalance
<1>1. CounterInv => LatencyBalance
  <2> SUFFICES ASSUME CounterInv PROVE LatencyBalance
    OBVIOUS
  <2>1. FoldFunction(+, 0, latencyBuckets) = Sum(latencyBuckets, Bucket)
    BY SumFacts, Zenon DEF CounterInv, CounterTypes
  <2> QED BY <2>1, Zenon DEF CounterInv, Balance, Recorded, Early, Late, LatencyBalance
<1> QED BY <1>1, CounterInvariant, PTL

(* A scrape that loads one counter after the other never ends with a count *)
(* below the number of processed events it began with, nor below the sum   *)
(* of its buckets by more than one for each consumer                       *)
(* (handlers.go:160-163, worker.go:283-319).                               *)
THEOREM ScrapesAreConsistent == TelemetrySpec => []ScrapeIsConsistent
<1>1. PoolInv /\ CounterInv => ScrapeIsConsistent
  <2> SUFFICES ASSUME PoolInv, CounterInv, scrape = Buckets + 1
               PROVE  /\ seen.processed <= latencyCount
                      /\ seen.inBuckets <= latencyCount + Cardinality(Consumer)
    BY Zenon DEF ScrapeIsConsistent
  <2>1. CounterTypes /\ Balance /\ Loaded
    BY Zenon DEF CounterInv
  <2>2. /\ Getting \in Nat /\ Recorded \in Nat /\ Early \in Nat /\ Late \in Nat
        /\ Sum(latencyBuckets, Bucket) \in Nat
    BY <2>1, CounterNumbers, Zenon DEF Balance
  <2>3. seen.processed <= latencyCount
    BY <2>1, <2>2, SMT DEF Balance, Loaded, CounterTypes
  <2>4. Late <= Cardinality(Consumer) /\ Cardinality(Consumer) \in Nat
    <3>1. IsFiniteSet(Consumer)
      <4>1. Consumer = {"loop"} \cup {"drain"}
        BY Zenon DEF Consumer
      <4>2. IsFiniteSet({"loop"})
        BY FS_Singleton, Zenon
      <4> QED BY <4>1, <4>2, FS_AddElement, Zenon
    <3>2. At({"count"}) \in SUBSET Consumer
      BY SMT DEF At, PoolInv, HandsMatchSteps, Actor
    <3> QED BY <3>1, <3>2, FS_Subset, FS_CardinalityType, Zenon DEF Late, In, At
  <2>5. seen.inBuckets \in Nat /\ seen.inBuckets <= Sum(latencyBuckets, Bucket)
    <3>1. scrape # 0 /\ 1..(scrape - 1) = Bucket
      BY BucketAssumption, SMT DEF BucketAssumption, Bucket
    <3>2. seen.inBuckets \in Nat
      BY <2>1, SMT DEF Loaded
    <3> QED BY <2>1, <3>1, <3>2, Zenon DEF Loaded
  <2>6. seen.inBuckets <= latencyCount + Cardinality(Consumer)
    BY <2>1, <2>2, <2>4, <2>5, SMT DEF Balance, CounterTypes
  <2> QED BY <2>3, <2>6
<1> QED BY <1>1, PoolInvariant, CounterInvariant, PTL
=============================================================================
