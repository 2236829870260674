--------------------------- MODULE ComponentProofs ---------------------------
(***************************************************************************)
(* Proofs about components that stand alone.  The ring buffer: for every   *)
(* capacity and every set of items, its indices and slots stay consistent, *)
(* and it implements the bounded FIFO queue.  The watcher of the policy    *)
(* file never takes a stale policy for the current one, for any policies   *)
(* and any number of edits.  Reports and evidence bags: for any number of  *)
(* commands beside the server, the numbers of a report are in order, and a *)
(* bag exported from a stopped server's database is complete.              *)
(***************************************************************************)
EXTENDS RingBuffer, Evidence, Observer, SequenceTheorems, TLAPS

-----------------------------------------------------------------------------
\* The ring buffer.

USE DEF RingAssumption

\* (h + k) % Capacity, without the modulus: at most one wrap-around.
LEMMA WrapIndex ==
  ASSUME RingAssumption, NEW h \in Slot, NEW k \in 0 .. Capacity
  PROVE  /\ (h + k) % Capacity = IF h + k < Capacity THEN h + k ELSE h + k - Capacity
         /\ (h + k) % Capacity \in Slot
<1>1. CASE h + k < Capacity
  BY <1>1 DEF Slot
<1>2. CASE h + k >= Capacity
  BY <1>2 DEF Slot
<1> QED
  BY <1>1, <1>2 DEF Slot

\* Two offsets below the capacity name the same slot only when they are equal.
LEMMA WrapInjective ==
  ASSUME RingAssumption, NEW h \in Slot, NEW j \in 0 .. Capacity - 1, NEW k \in 0 .. Capacity - 1,
         (h + j) % Capacity = (h + k) % Capacity
  PROVE  j = k
<1>1. j \in 0 .. Capacity /\ k \in 0 .. Capacity
  OBVIOUS
<1>2. (h + j) % Capacity = IF h + j < Capacity THEN h + j ELSE h + j - Capacity
  BY <1>1, WrapIndex
<1>3. (h + k) % Capacity = IF h + k < Capacity THEN h + k ELSE h + k - Capacity
  BY <1>1, WrapIndex
<1>4. h \in 0 .. Capacity - 1
  BY DEF Slot
<1> QED
  BY <1>2, <1>3, <1>4

\* Advancing the head by one shifts every offset by one.
LEMMA WrapShift ==
  ASSUME RingAssumption, NEW h \in Slot, NEW k \in 0 .. Capacity - 1
  PROVE  (((h + 1) % Capacity) + k) % Capacity = (h + (k + 1)) % Capacity
<1>1. 1 \in 0 .. Capacity /\ k + 1 \in 0 .. Capacity /\ k \in 0 .. Capacity
  OBVIOUS
<1>2. (h + 1) % Capacity \in Slot
  BY <1>1, WrapIndex
<1>3. (h + 1) % Capacity = IF h + 1 < Capacity THEN h + 1 ELSE h + 1 - Capacity
  BY <1>1, WrapIndex
<1>4. (h + (k + 1)) % Capacity
        = IF h + (k + 1) < Capacity THEN h + (k + 1) ELSE h + (k + 1) - Capacity
  BY <1>1, WrapIndex
<1> DEFINE n == (h + 1) % Capacity
<1>5. (n + k) % Capacity = IF n + k < Capacity THEN n + k ELSE n + k - Capacity
  BY <1>1, <1>2, WrapIndex
<1> QED
  BY <1>2, <1>3, <1>4, <1>5 DEF Slot

\* Advancing an offset by one advances the slot by one.
LEMMA WrapSucc ==
  ASSUME RingAssumption, NEW h \in Slot, NEW k \in 0 .. Capacity - 1
  PROVE  (((h + k) % Capacity) + 1) % Capacity = (h + (k + 1)) % Capacity
<1>1. 1 \in 0 .. Capacity /\ k + 1 \in 0 .. Capacity /\ k \in 0 .. Capacity
  OBVIOUS
<1> DEFINE n == (h + k) % Capacity
<1>2. n \in Slot
  BY <1>1, WrapIndex
<1>3. n = IF h + k < Capacity THEN h + k ELSE h + k - Capacity
  BY <1>1, WrapIndex
<1>4. (h + (k + 1)) % Capacity
        = IF h + (k + 1) < Capacity THEN h + (k + 1) ELSE h + (k + 1) - Capacity
  BY <1>1, WrapIndex
<1>5. (n + 1) % Capacity = IF n + 1 < Capacity THEN n + 1 ELSE n + 1 - Capacity
  BY <1>1, <1>2, WrapIndex
<1> QED
  BY <1>2, <1>3, <1>4, <1>5 DEF Slot

LEMMA NewRingInv == ASSUME RingAssumption PROVE New => RingInv
<1> SUFFICES ASSUME New PROVE RingInv
  OBVIOUS
<1>1. 0 \in Slot
  BY DEF Slot
<1>2. (0 + 0) % Capacity = 0
  BY <1>1, WrapIndex DEF Slot
<1> QED
  BY <1>1, <1>2 DEF New, RingInv, TypeOK, IndicesAgree, QueuedSlotsFilled

LEMMA PushRingInv ==
  ASSUME RingAssumption, RingInv, NEW item \in Item, Push(item)
  PROVE  RingInv'
<1>1. CASE IsFull /\ UNCHANGED ringVars
  BY <1>1 DEF RingInv, TypeOK, IndicesAgree, QueuedSlotsFilled, ringVars
<1>2. CASE ~IsFull /\ data' = [data EXCEPT ![tail] = item]
           /\ tail' = (tail + 1) % Capacity /\ count' = count + 1 /\ head' = head
  <2> USE <1>2 DEF RingInv, TypeOK, IsFull
  <2>1. count \in 0 .. Capacity - 1 /\ count + 1 \in 0 .. Capacity
    OBVIOUS
  <2>2. tail = (head + count) % Capacity
    BY DEF IndicesAgree
  <2>3. TypeOK'
    BY <2>1, WrapIndex
  <2>4. tail' = (head + (count + 1)) % Capacity
    BY <2>1, <2>2, WrapSucc, Zenon
  <2>5. ASSUME NEW i \in 0 .. count
        PROVE  data'[(head + i) % Capacity] \in Item
    <3>1. (head + i) % Capacity \in Slot /\ i \in 0 .. Capacity - 1
      BY <2>1, WrapIndex
    <3>2. CASE i = count
      BY <3>1, <3>2, <2>2
    <3>3. CASE i # count
      <4>1. (head + i) % Capacity # tail
        BY <3>1, <3>3, <2>1, <2>2, WrapInjective, Zenon
      <4> QED
        BY <3>1, <3>3, <4>1 DEF QueuedSlotsFilled
    <3> QED
      BY <3>2, <3>3
  <2> QED
    BY <2>1, <2>3, <2>4, <2>5 DEF IndicesAgree, QueuedSlotsFilled
<1> QED
  BY <1>1, <1>2 DEF Push

LEMMA PopRingInv ==
  ASSUME RingAssumption, RingInv, Pop
  PROVE  RingInv'
<1>1. CASE IsEmpty /\ UNCHANGED ringVars
  BY <1>1 DEF RingInv, TypeOK, IndicesAgree, QueuedSlotsFilled, ringVars
<1>2. CASE ~IsEmpty /\ head' = (head + 1) % Capacity /\ count' = count - 1
           /\ UNCHANGED <<data, tail>>
  <2> USE <1>2 DEF RingInv, TypeOK, IsEmpty
  <2>1. count \in 1 .. Capacity /\ count - 1 \in 0 .. Capacity - 1 /\ 1 \in 0 .. Capacity
    OBVIOUS
  <2>2. TypeOK'
    BY <2>1, WrapIndex
  <2>3. \A k \in 0 .. count - 1 : (head' + k) % Capacity = (head + (k + 1)) % Capacity
    BY <2>1, WrapShift
  <2>4. (head' + (count - 1)) % Capacity = (head + count) % Capacity
    BY <2>1, <2>3
  <2>5. IndicesAgree'
    BY <2>4 DEF IndicesAgree
  <2>6. ASSUME NEW i \in 0 .. count - 2
        PROVE  data'[(head' + i) % Capacity] \in Item
    <3>1. i + 1 \in 0 .. count - 1 /\ i \in 0 .. count - 1
      BY <2>1
    <3>2. data[(head + (i + 1)) % Capacity] \in Item
      BY <3>1 DEF QueuedSlotsFilled
    <3> QED
      BY <3>1, <3>2, <2>3
  <2>7. QueuedSlotsFilled'
    BY <2>1, <2>6 DEF QueuedSlotsFilled
  <2> QED
    BY <2>2, <2>5, <2>7
<1> QED
  BY <1>1, <1>2 DEF Pop

(* In every reachable state of the ring head, tail and count are in range  *)
(* and agree with each other, and every queued slot holds a pushed item    *)
(* (Push and Pop of buffer.go), whatever the capacity.                     *)
THEOREM RingInvariant == ASSUME RingAssumption PROVE Spec => []RingInv
<1>1. New => RingInv
  BY NewRingInv
<1>2. RingInv /\ [Next]_vars => RingInv'
  <2> SUFFICES ASSUME RingInv, [Next]_vars PROVE RingInv'
    OBVIOUS
  <2>1. ASSUME NEW item \in Item, Push(item) PROVE RingInv'
    BY <2>1, PushRingInv
  <2>2. CASE Pop
    BY <2>2, PopRingInv
  <2>3. CASE Query \/ UNCHANGED vars
    BY <2>3, Zenon
       DEF Query, vars, ringVars, RingInv, TypeOK, IndicesAgree, QueuedSlotsFilled
  <2> QED
    BY <2>1, <2>2, <2>3 DEF Next
<1> QED
  BY <1>1, <1>2, PTL DEF Spec

-----------------------------------------------------------------------------

\* What Queued is, as a sequence.
ContentsAreQueued ==
  /\ Queued \in Seq(Item)
  /\ Len(Queued) = count
  /\ \A i \in 1 .. count : Queued[i] = data[(head + (i - 1)) % Capacity]
  /\ IsEmpty <=> Queued = <<>>

LEMMA QueuedSeq == ASSUME RingAssumption PROVE RingInv => ContentsAreQueued
<1> SUFFICES ASSUME RingInv PROVE ContentsAreQueued
  OBVIOUS
<1> USE DEF RingInv
<1>1. \A i \in 1 .. count : data[(head + i - 1) % Capacity] \in Item
  <2> SUFFICES ASSUME NEW i \in 1 .. count
               PROVE  data[(head + i - 1) % Capacity] \in Item
    OBVIOUS
  <2>1. i - 1 \in 0 .. count - 1 /\ head + (i - 1) = head + i - 1
    BY DEF TypeOK, Slot
  <2> QED
    BY <2>1 DEF QueuedSlotsFilled
<1>2. count \in Nat
  BY DEF TypeOK
<1>3. Queued \in [1 .. count -> Item]
  BY <1>1 DEF Queued
<1>4. Queued \in Seq(Item) /\ Len(Queued) = count
  BY <1>2, <1>3
<1>5. \A i \in 1 .. count : head + i - 1 = head + (i - 1)
  BY DEF TypeOK, Slot
<1>6. \A i \in 1 .. count : Queued[i] = data[(head + (i - 1)) % Capacity]
  BY <1>5 DEF Queued
<1>7. IsEmpty <=> Queued = <<>>
  BY <1>2, <1>4, EmptySeq DEF IsEmpty
<1> QED
  BY <1>4, <1>6, <1>7 DEF ContentsAreQueued

LEMMA NewIsFifoInit == ASSUME RingAssumption PROVE New => Fifo!Init
<1> SUFFICES ASSUME New PROVE Queued = <<>> /\ ret = <<"New", "ok">>
  BY DEF Fifo!Init
<1>1. RingInv
  BY NewRingInv
<1> QED
  BY <1>1, QueuedSeq DEF New, IsEmpty, ContentsAreQueued

LEMMA PushIsFifoPush ==
  ASSUME RingAssumption, RingInv, NEW item \in Item, Push(item)
  PROVE  Fifo!Push(item)
<1> USE DEF ContentsAreQueued
<1>1. ContentsAreQueued'
  <2>1. RingInv'
    BY PushRingInv
  <2> QED
    BY <2>1, QueuedSeq, PTL
<1>2. CASE IsFull /\ ret' = <<"Push", "ErrBufferFull">> /\ UNCHANGED ringVars
  <2>1. Queued' = Queued
    BY <1>2 DEF Queued, ringVars
  <2> QED
    BY <1>2, <2>1, QueuedSeq DEF Fifo!Push, IsFull
<1>3. CASE ~IsFull /\ data' = [data EXCEPT ![tail] = item]
           /\ tail' = (tail + 1) % Capacity /\ count' = count + 1 /\ head' = head
           /\ ret' = <<"Push", "ok">>
  <2>1. count \in 0 .. Capacity - 1 /\ head \in Slot /\ tail \in Slot
        /\ data \in [Slot -> Item \cup {Zero}]
    BY <1>3 DEF RingInv, TypeOK, IsFull
  <2>2. /\ Queued' \in Seq(Item)
        /\ Len(Queued') = count + 1
        /\ \A i \in 1 .. count + 1 : Queued'[i] = data'[(head + (i - 1)) % Capacity]
    BY <1>1, <1>3
  <2>3. ASSUME NEW i \in 1 .. count + 1
        PROVE  Queued'[i] = Append(Queued, item)[i]
    <3>1. i - 1 \in 0 .. Capacity - 1 /\ i - 1 \in 0 .. Capacity
      BY <2>1
    <3>2. (head + (i - 1)) % Capacity \in Slot
      BY <2>1, <3>1, WrapIndex
    <3>3. CASE i = count + 1
      <4>1. (head + (i - 1)) % Capacity = tail
        BY <3>3, <2>1 DEF RingInv, IndicesAgree
      <4> QED
        BY <1>3, <2>1, <2>2, <3>3, <4>1, QueuedSeq, AppendProperties
    <3>4. CASE i # count + 1
      <4>1. i \in 1 .. count
        BY <2>1, <3>4
      <4>2. (head + (i - 1)) % Capacity # tail
        <5>1. i - 1 # count
          BY <4>1, <2>1
        <5> QED
          BY <5>1, <3>1, <2>1, WrapInjective DEF RingInv, IndicesAgree
      <4>3. Queued'[i] = Queued[i]
        BY <1>3, <2>1, <2>2, <3>2, <4>1, <4>2, QueuedSeq
      <4> QED
        BY <4>1, <4>3, QueuedSeq, AppendProperties
    <3> QED
      BY <3>3, <3>4, Zenon
  <2>4. Queued' = Append(Queued, item)
    <3>1. /\ Append(Queued, item) \in Seq(Item)
          /\ Len(Append(Queued, item)) = count + 1
      BY QueuedSeq, AppendProperties
    <3> QED
      BY <2>2, <2>3, <3>1, SeqEqual
  <2>5. Len(Queued) < Capacity
    BY <2>1, QueuedSeq
  <2> QED
    BY <1>3, <2>4, <2>5 DEF Fifo!Push
<1> QED
  BY <1>2, <1>3 DEF Push

LEMMA PopIsFifoPop ==
  ASSUME RingAssumption, RingInv, Pop
  PROVE  Fifo!Pop
<1> USE DEF ContentsAreQueued
<1>1. ContentsAreQueued'
  <2>1. RingInv'
    BY PopRingInv
  <2> QED
    BY <2>1, QueuedSeq, PTL
<1>2. CASE IsEmpty /\ ret' = <<"PopError", "ErrBufferEmpty">> /\ UNCHANGED ringVars
  <2>1. Queued' = Queued
    BY <1>2 DEF Queued, ringVars
  <2> QED
    BY <1>2, <2>1, QueuedSeq DEF Fifo!Pop
<1>3. CASE ~IsEmpty /\ ret' = <<"Pop", data[head]>> /\ head' = (head + 1) % Capacity
           /\ count' = count - 1 /\ UNCHANGED <<data, tail>>
  <2>1. count \in 1 .. Capacity /\ head \in Slot
    BY <1>3 DEF RingInv, TypeOK, IsEmpty
  <2>2. /\ Queued' \in Seq(Item)
        /\ Len(Queued') = count - 1
        /\ \A i \in 1 .. count - 1 : Queued'[i] = data[(head' + (i - 1)) % Capacity]
    BY <1>1, <1>3
  <2>3. Queued # <<>>
    BY <1>3, QueuedSeq
  <2>4. /\ Tail(Queued) \in Seq(Item)
        /\ Len(Tail(Queued)) = count - 1
        /\ \A i \in 1 .. count - 1 : Tail(Queued)[i] = Queued[i + 1]
    BY <2>3, QueuedSeq, HeadTailProperties
  <2>5. ASSUME NEW i \in 1 .. count - 1
        PROVE  Queued'[i] = Tail(Queued)[i]
    <3>1. i - 1 \in 0 .. Capacity - 1 /\ i + 1 \in 1 .. count /\ (i - 1) + 1 = (i + 1) - 1
      BY <2>1
    <3>2. (head' + (i - 1)) % Capacity = (head + ((i + 1) - 1)) % Capacity
      BY <1>3, <2>1, <3>1, WrapShift
    <3> QED
      BY <2>2, <2>4, <3>1, <3>2, QueuedSeq, Zenon
  <2>6. Queued' = Tail(Queued)
    BY <2>2, <2>4, <2>5, SeqEqual
  <2>7. Head(Queued) = data[head]
    <3>1. (head + 0) % Capacity = head
      <4>1. 0 \in 0 .. Capacity /\ head + 0 < Capacity /\ head + 0 = head
        BY <2>1 DEF Slot
      <4> QED
        BY <2>1, <4>1, WrapIndex
    <3>2. 1 \in 1 .. count /\ 1 - 1 = 0
      BY <2>1
    <3> QED
      BY <3>1, <3>2, QueuedSeq
  <2> QED
    BY <1>3, <2>3, <2>6, <2>7 DEF Fifo!Pop
<1> QED
  BY <1>2, <1>3 DEF Pop

LEMMA QueryIsFifoQuery ==
  ASSUME RingAssumption, RingInv, Query
  PROVE  Fifo!Query
<1>1. Queued' = Queued
  BY DEF Query, Queued, ringVars
<1>2. Len(Queued) = count /\ (IsEmpty <=> Queued = <<>>)
  BY QueuedSeq DEF ContentsAreQueued
<1>3. (Queued = <<>>) = IsEmpty
  BY <1>2 DEF IsEmpty
<1> QED
  BY <1>1, <1>2, <1>3 DEF Query, Fifo!Query, IsFull

(* Every operation of the ring buffer has the effect and the result of the *)
(* same operation on a bounded FIFO queue (buffer.go), for every capacity: *)
(* the refinement that the run of the worker on two slots checks.          *)
THEOREM RingImplementsFifo == ASSUME RingAssumption PROVE Spec => ImplementsFifo
<1>1. New => Fifo!Init
  BY NewIsFifoInit
<1>2. RingInv /\ [Next]_vars => [Fifo!Next]_(Fifo!fifoVars)
  <2> SUFFICES ASSUME RingInv, [Next]_vars PROVE [Fifo!Next]_(Fifo!fifoVars)
    OBVIOUS
  <2>1. ASSUME NEW item \in Item, Push(item) PROVE Fifo!Next
    BY <2>1, PushIsFifoPush DEF Fifo!Next
  <2>2. CASE Pop
    BY <2>2, PopIsFifoPop DEF Fifo!Next
  <2>3. CASE Query
    BY <2>3, QueryIsFifoQuery DEF Fifo!Next
  <2>4. CASE UNCHANGED vars
    BY <2>4 DEF vars, Fifo!fifoVars, Queued
  <2> QED
    BY <2>1, <2>2, <2>3, <2>4 DEF Next
<1> QED
  BY <1>1, <1>2, RingInvariant, PTL DEF Spec, ImplementsFifo, Fifo!Spec

HIDE DEF RingAssumption

-----------------------------------------------------------------------------
\* The watcher of the policy file.

USE DEF Config, Contents, fileVars, watchVars, observerVars

(* NewObserverEngine starts with no remembered time and nothing loaded.    *)
LEMMA ObserverStarts == ObserverInit => ObserverInv
<1> SUFFICES ASSUME ObserverInit PROVE ObserverInv
  OBVIOUS
<1>1. stopped \in BOOLEAN /\ unseen \in BOOLEAN
  BY Zenon DEF ObserverInit
<1>2. ObserverTypeOK
  BY <1>1, ObserverAssumption, SMTT(30) DEF ObserverInit, ObserverTypeOK
<1> QED
  BY <1>2 DEF ObserverInit, ObserverInv, StepsRely, FreshWhenSettled

(* Every step of the watcher and every edit keeps the invariant.           *)
LEMMA ObserverStepKeeps == ObserverInv /\ [ObserverNext]_observerVars => ObserverInv'
<1> SUFFICES ASSUME ObserverInv, [ObserverNext]_observerVars
             PROVE  ObserverInv'
  OBVIOUS
<1> USE ObserverAssumption DEF ObserverInv, ObserverTypeOK, StepsRely, FreshWhenSettled
<1>1. CASE LoadInitial
  BY <1>1 DEF LoadInitial
<1>2. CASE Arm
  BY <1>2 DEF Arm
<1>3. CASE TickChanged
  BY <1>3 DEF TickChanged, Changed
<1>4. CASE TickIdle
  BY <1>4 DEF TickIdle
<1>5. CASE ReadPolicy
  BY <1>5 DEF ReadPolicy
<1>6. CASE InstallPolicy
  BY <1>6 DEF InstallPolicy
<1>7. CASE WatchEnds
  BY <1>7 DEF WatchEnds
<1>8. CASE Stop
  BY <1>8 DEF Stop
<1>9. ASSUME NEW c \in Contents, Edit(c)
      PROVE  ObserverInv'
  <2>1. unseen' \in BOOLEAN /\ stopped' \in BOOLEAN
    BY <1>9, Zenon DEF Edit
  <2>2. ~unseen' => watch # "arm"
    BY <1>9, Zenon DEF Edit
  <2>3. ObserverTypeOK'
    BY <1>9, <2>1 DEF Edit
  <2>4. clock \in Nat /\ mtime' = clock + 1 /\ clock' = clock + 1 /\ watch' = watch
        /\ lastMod' = lastMod /\ statMod' = statMod
    BY <1>9 DEF Edit
  <2> QED
    BY <2>2, <2>3, <2>4
<1>10. ASSUME NEW c \in Contents, NEW t \in 1 .. MaxTime, Backdate(c, t)
       PROVE  ObserverInv'
  BY <1>10 DEF Backdate
<1>11. CASE ReadFails
  BY <1>11 DEF ReadFails
<1>12. CASE UNCHANGED observerVars
  BY <1>12
<1> QED
  BY <1>1, <1>2, <1>3, <1>4, <1>5, <1>6, <1>7, <1>8, <1>9, <1>10, <1>11, <1>12, Zenon
     DEF ObserverNext, WatchStep

(* The inductive invariant of the observer (engine.go:53-161).             *)
THEOREM ObserverInvariant == ObserverSpec => []ObserverInv
BY ObserverStarts, ObserverStepKeeps, PTL DEF ObserverSpec

(* A watcher that would not reload has the rules of the file, however      *)
(* edits fall between the steps of a reload (engine.go:117-140).           *)
THEOREM SettledMeansFresh == ObserverSpec => []FreshWhenSettled
<1>1. ObserverInv => FreshWhenSettled
  BY DEF ObserverInv
<1> QED
  BY <1>1, ObserverInvariant, PTL

HIDE DEF Config, Contents, fileVars, watchVars, observerVars

-----------------------------------------------------------------------------
\* Reports and evidence bags.

\* The types of the Boolean variables, and of the others.
FlagTypes ==
  /\ orderly \in BOOLEAN /\ whole \in [Command -> BOOLEAN]
  /\ sealed \in [Command -> BOOLEAN] /\ alone \in [Command -> BOOLEAN]

DataTypes ==
  /\ commits \in Nat /\ saved \in 0..commits /\ open \subseteq Process
  /\ prog \in [Command -> {"export", "stats"}] /\ pc \in [Command -> 0..8]
  /\ saw \in [Command -> [Queries -> Nat]]
  /\ copied \in [Command -> Nat]

LEMMA TypesSplit == EvidenceTypeOK <=> DataTypes /\ FlagTypes
BY Zenon DEF EvidenceTypeOK, DataTypes, FlagTypes

\* What the invariant says of one command.
CommandInv(c) ==
  /\ c \in open <=> pc[c] # 0
  /\ pc[c] < 2 => \A q \in Queries : saw[c][q] = 0
  /\ pc[c] \in 2..7 => commits > 0 /\ \A q \in Queries : saw[c][q] <= commits - 1
  /\ alone[c] => saved = commits /\ Server \notin open
  /\ Ordered(c) /\ Complete(c)

Settled == (open = {} /\ orderly) => saved = commits

Core == DataTypes /\ Settled /\ \A c \in Command : CommandInv(c)

LEMMA InvSplit == EvidenceInv <=> Core /\ FlagTypes
BY TypesSplit, Zenon DEF EvidenceInv, Core, Settled, ConnectionInv, CommandInv

(* Where each step is in the order of its command.                         *)
LEMMA Places ==
  ASSUME DataTypes, NEW c \in Command
  PROVE  /\ At(c, "runID")     => pc[c] = 1
         /\ At(c, "count")     => pc[c] = 2
         /\ At(c, "risk")      => pc[c] = 3
         /\ At(c, "last")      => pc[c] = 4 /\ prog[c] = "export"
         /\ At(c, "runs")      => pc[c] = 4 /\ prog[c] = "stats"
         /\ At(c, "events")    => pc[c] = 5 /\ prog[c] = "stats"
         /\ At(c, "critical")  => pc[c] = 6 /\ prog[c] = "stats"
         /\ At(c, "startCopy") => pc[c] = 5 /\ prog[c] = "export"
         /\ At(c, "endCopy")   => pc[c] = 6 /\ prog[c] = "export"
         /\ At(c, "close")     => pc[c] = 7
<1>1. pc[c] \in 0..8 /\ prog[c] \in {"export", "stats"}
  BY Zenon DEF DataTypes
<1>2. CASE prog[c] = "export"
  BY <1>1, <1>2, SMT DEF At, Steps
<1>3. CASE prog[c] = "stats"
  BY <1>1, <1>3, SMT DEF At, Steps
<1> QED BY <1>1, <1>2, <1>3, Zenon

\* What the state says of one command, and what a step leaves alone.
Typed(c) ==
  /\ commits \in Nat /\ saved \in Nat /\ saved <= commits
  /\ pc[c] \in 0..8 /\ prog[c] \in {"export", "stats"}
  /\ saw[c] \in [Queries -> Nat] /\ copied[c] \in Nat

LEMMA TypedFrom == ASSUME DataTypes, NEW c \in Command PROVE Typed(c)
<1>1. saved \in 0..commits /\ commits \in Nat
  BY Zenon DEF DataTypes
<1>2. saved \in Nat /\ saved <= commits
  BY <1>1, SMT
<1> QED BY <1>1, <1>2, Zenon DEF DataTypes, Typed

Same(c) ==
  prog'[c] = prog[c] /\ pc'[c] = pc[c] /\ saw'[c] = saw[c] /\ copied'[c] = copied[c]
    /\ whole'[c] = whole[c]

Rest(c) == alone'[c] => alone[c] /\ saved' = saved /\ commits' = commits /\ Server \notin open'

(* A command that does not step keeps its part of the invariant: inserts   *)
(* only add, and while it is alone nothing is written.                     *)
LEMMA Waits ==
  ASSUME NEW c \in Command, Typed(c), CommandInv(c), Same(c), Rest(c),
         c \in open' <=> c \in open, commits' \in Nat, commits <= commits'
  PROVE  CommandInv(c)'
<1>1. (pc[c] \in 2..7)' => commits' > 0 /\ \A q \in Queries : (saw[c][q] <= commits - 1)'
  <2>1. SUFFICES ASSUME pc[c] \in 2..7 PROVE commits' > 0 /\ \A q \in Queries : saw[c][q] <= commits' - 1
    BY Zenon DEF Same
  <2>2. commits > 0 /\ \A q \in Queries : saw[c][q] <= commits - 1
    BY <2>1, Zenon DEF CommandInv
  <2>3. \A q \in Queries : saw[c][q] \in Nat
    BY Zenon DEF Typed
  <2> QED BY <2>2, <2>3, SMT DEF Typed
<1>2. (alone[c])' => (saved = commits /\ Server \notin open)'
  BY Zenon DEF CommandInv, Rest
<1>3. Ordered(c)'
  BY Zenon DEF CommandInv, Same, Ordered
<1>4. Complete(c)'
  BY Zenon DEF CommandInv, Same, Rest, Complete
<1>5. (pc[c] < 2)' => \A q \in Queries : (saw[c][q] = 0)'
  BY Zenon DEF CommandInv, Same
<1>6. (c \in open)' <=> (pc[c] # 0)'
  BY Zenon DEF CommandInv, Same
<1> QED BY <1>1, <1>2, <1>3, <1>4, <1>5, <1>6, Zenon DEF CommandInv

(* The other commands, in a step of the server or of a command.            *)
LEMMA AllWait ==
  ASSUME Core, DataTypes', NEW P \in SUBSET Command, commits <= commits',
         \A d \in P : Same(d) /\ Rest(d) /\ (d \in open' <=> d \in open)
  PROVE  \A d \in P : CommandInv(d)'
<1> SUFFICES ASSUME NEW d \in P PROVE CommandInv(d)'
  OBVIOUS
<1>1. d \in Command /\ CommandInv(d) /\ commits' \in Nat
  BY Zenon DEF Core, DataTypes
<1>2. Typed(d)
  BY <1>1, TypedFrom, Zenon DEF Core
<1> QED BY <1>1, <1>2, Waits, Zenon

(* The server's steps.                                                     *)
LEMMA ServerStep ==
  ASSUME Core, FlagTypes,
         ServerStarts \/ Insert \/ Checkpoint \/ ServerStops \/ ServerCrashes
  PROVE  Core'
<1> USE DEF commandVars
<1>1. /\ DataTypes /\ Settled /\ commits \in Nat /\ saved \in Nat /\ saved <= commits
      /\ open \subseteq Process /\ \A c \in Command : alone[c] => Server \notin open
  <2>1. DataTypes /\ Settled /\ commits \in Nat /\ saved \in 0..commits /\ open \subseteq Process
    BY Zenon DEF Core, DataTypes
  <2>2. \A c \in Command : alone[c] => Server \notin open
    BY Zenon DEF Core, CommandInv
  <2>3. saved \in Nat /\ saved <= commits
    BY <2>1, SMT
  <2> QED BY <2>1, <2>2, <2>3, Zenon
<1>2. Server \in Process /\ \A d \in Command : d # Server
  BY EvidenceAssumption, Zenon DEF Process
<1>3. /\ UNCHANGED <<prog, pc, saw, copied, whole>>
      /\ alone' = alone \/ alone' = [c \in Command |-> FALSE]
  BY Zenon DEF ServerStarts, Insert, Checkpoint, ServerStops, ServerCrashes
<1>4. /\ commits' \in Nat /\ saved' \in Nat /\ saved' <= commits' /\ commits <= commits'
      /\ open' \subseteq Process /\ Settled'
      /\ \A d \in Command : alone'[d] => saved' = saved /\ commits' = commits /\ Server \notin open'
      /\ \A d \in Command : d \in open' <=> d \in open
  <2>1. CASE ServerStarts
    <3>1. commits' = commits /\ saved' = saved /\ open' = open \cup {Server}
          /\ alone' = [c \in Command |-> FALSE]
      BY <2>1, Zenon DEF ServerStarts, NewDB
    <3>2. open' \subseteq Process /\ (\A d \in Command : d \in open' <=> d \in open) /\ Settled'
          /\ \A d \in Command : ~alone'[d]
      BY <1>1, <1>2, <3>1, Zenon DEF Settled
    <3>3. commits <= commits
      BY <1>1, SMT
    <3> QED BY <1>1, <3>1, <3>2, <3>3, Zenon
  <2>2. CASE Insert
    <3>1. Server \in open /\ commits' = commits + 1 /\ saved' = saved /\ open' = open
          /\ alone' = alone
      BY <2>2, Zenon DEF Insert
    <3>2. Settled' /\ \A d \in Command : ~alone'[d]
      BY <1>1, <3>1, Zenon DEF Settled
    <3>3. commits + 1 \in Nat /\ saved <= commits + 1 /\ commits <= commits + 1
      BY <1>1, SMT
    <3> QED BY <1>1, <3>1, <3>2, <3>3, Zenon
  <2>3. CASE Checkpoint
    <3>1. Server \in open /\ commits' = commits /\ open' = open /\ alone' = alone
          /\ saved' \in (saved + 1)..commits
      BY <2>3, Zenon DEF Checkpoint
    <3>2. Settled' /\ \A d \in Command : ~alone'[d]
      BY <1>1, <3>1, Zenon DEF Settled
    <3>3. saved' \in Nat /\ saved' <= commits /\ commits <= commits
      BY <1>1, <3>1, SMT
    <3> QED BY <1>1, <3>1, <3>2, <3>3, Zenon
  <2>4. CASE ServerStops \/ ServerCrashes
    <3>1. Server \in open /\ commits' = commits /\ open' = open \ {Server} /\ alone' = alone
          /\ (saved' = saved \/ saved' = commits)
          /\ (open' = {} /\ orderly' => saved' = commits)
      BY <2>4, Zenon DEF ServerStops, Close, ServerCrashes, Abandon
    <3>2. open' \subseteq Process /\ (\A d \in Command : d \in open' <=> d \in open) /\ Settled'
          /\ \A d \in Command : ~alone'[d]
      BY <1>1, <1>2, <3>1, Zenon DEF Settled
    <3>3. commits <= commits
      BY <1>1, SMT
    <3> QED BY <1>1, <3>1, <3>2, <3>3, Zenon
  <2> QED BY <2>1, <2>2, <2>3, <2>4, Zenon
<1>5. DataTypes'
  <2>1. saved' \in 0..commits'
    BY <1>4, SMT
  <2> QED BY <1>1, <1>3, <1>4, <2>1, Zenon DEF DataTypes
<1>6. \A d \in Command : alone'[d] => alone[d]
  BY <1>3, Zenon
<1>7. \A d \in Command : Same(d) /\ Rest(d)
  BY <1>3, <1>4, <1>6, Zenon DEF Same, Rest
<1>8. Command \in SUBSET Command
  OBVIOUS
<1>9. \A d \in Command : CommandInv(d)'
  BY <1>4, <1>5, <1>7, <1>8, AllWait, Zenon
<1> QED BY <1>4, <1>5, <1>9, Zenon DEF Core

(* A step of one command leaves the others alone.                          *)
LEMMA OneSteps ==
  ASSUME Core, NEW c \in Command, DataTypes', Settled', commits' = commits, CommandInv(c)',
         \A d \in Command : d # c => Same(d) /\ alone'[d] = alone[d] /\ (d \in open' <=> d \in open),
         \A d \in Command : d # c /\ alone[d] => saved' = saved,
         Server \in open' => Server \in open
  PROVE  Core'
<1>1. \A d \in Command : alone[d] => Server \notin open
  BY Zenon DEF Core, CommandInv
<1>2. \A d \in Command \ {c} : Same(d) /\ Rest(d) /\ (d \in open' <=> d \in open)
  BY <1>1, Zenon DEF Rest
<1>3. Command \ {c} \in SUBSET Command
  OBVIOUS
<1>4. commits <= commits'
  BY SMT DEF Core, DataTypes
<1>5. \A d \in Command \ {c} : CommandInv(d)'
  BY <1>2, <1>3, <1>4, AllWait, Zenon
<1> QED BY <1>5, Zenon DEF Core

(* The steps of a command that leave the database alone.                   *)
LEMMA ReportStep ==
  ASSUME Core, FlagTypes, NEW c \in Command,
         GetRunID(c) \/ Ask(c) \/ StartCopy(c) \/ EndCopy(c) \/ Fail(c)
  PROVE  Core'
<1>1. DataTypes /\ Settled /\ CommandInv(c) /\ Typed(c)
  BY TypedFrom, Zenon DEF Core
<1>2. UNCHANGED <<commits, saved, open, orderly, prog, alone>>
  BY Zenon DEF GetRunID, Ask, StartCopy, EndCopy, Fail, database
<1>3. pc \in [Command -> 0..8] /\ saw \in [Command -> [Queries -> Nat]]
      /\ copied \in [Command -> Nat] /\ whole \in [Command -> BOOLEAN]
  BY Zenon DEF Core, DataTypes, FlagTypes
<1>4. \A d \in Command : d # c => Same(d)
  <2>1. \A d \in Command : d # c => pc'[d] = pc[d]
    BY <1>3, Zenon DEF GetRunID, Ask, StartCopy, EndCopy, Fail, Advance
  <2>2. \A d \in Command : d # c => saw'[d] = saw[d]
    BY <1>3, Zenon DEF GetRunID, Ask, StartCopy, EndCopy, Fail
  <2>3. \A d \in Command : d # c => copied'[d] = copied[d] /\ whole'[d] = whole[d]
    BY <1>3, Zenon DEF GetRunID, Ask, StartCopy, EndCopy, Fail
  <2> QED BY <1>2, <2>1, <2>2, <2>3, Zenon DEF Same
<1> DEFINE Types == /\ pc' \in [Command -> 0..8] /\ saw' \in [Command -> [Queries -> Nat]]
                    /\ copied' \in [Command -> Nat]
<1>5. ASSUME Types, CommandInv(c)' PROVE Core'
  <2>1. DataTypes'
    BY <1>1, <1>2, <1>5, Zenon DEF DataTypes
  <2>2. Settled'
    BY <1>1, <1>2, Zenon DEF Settled
  <2> QED BY <1>2, <1>4, <1>5, <2>1, <2>2, OneSteps, Zenon
<1>6. c \in open <=> pc[c] # 0
  BY <1>1, Zenon DEF CommandInv
<1>7. alone[c] => saved = commits /\ Server \notin open
  BY <1>1, Zenon DEF CommandInv
<1>8. CASE GetRunID(c)
  <2>1. /\ pc[c] = 1 /\ pc' = [pc EXCEPT ![c] = IF commits = 0 THEN 8 ELSE 2]
        /\ UNCHANGED <<saw, copied, whole>>
    BY <1>1, <1>8, Places, Zenon DEF GetRunID
  <2>2. pc'[c] = (IF commits = 0 THEN 8 ELSE 2)
    BY <1>3, <2>1, Zenon
  <2>3. pc' \in [Command -> 0..8]
    BY <1>3, <2>1, SMT
  <2>4. \A q \in Queries : saw[c][q] = 0
    BY <1>1, <2>1, SMT DEF CommandInv
  <2>5. (c \in open)' <=> (pc[c] # 0)'
    BY <1>2, <1>6, <2>1, <2>2, SMT
  <2>6. (pc[c] < 2)' => \A q \in Queries : (saw[c][q] = 0)'
    BY <2>1, <2>2, SMT
  <2>7. (pc[c] \in 2..7)' => (commits > 0)' /\ \A q \in Queries : (saw[c][q] <= commits - 1)'
    BY <1>1, <1>2, <2>1, <2>2, <2>4, SMT DEF Typed
  <2>8. Ordered(c)' /\ Complete(c)'
    <3>1. pc'[c] \notin 3..7 /\ pc'[c] \notin 4..7 /\ pc'[c] \notin 5..7 /\ pc'[c] \notin 6..7 /\ pc'[c] # 7
      BY <2>2, SMT
    <3> QED BY <3>1, Zenon DEF Ordered, Complete
  <2>9. CommandInv(c)'
    BY <1>2, <1>7, <2>5, <2>6, <2>7, <2>8, Zenon DEF CommandInv
  <2> QED BY <1>3, <1>5, <2>1, <2>3, <2>9, Zenon
<1>9. CASE Fail(c)
  <2>1. /\ pc[c] \in 1..6 /\ pc' = [pc EXCEPT ![c] = 8] /\ UNCHANGED <<saw, copied, whole>>
    BY <1>9, Zenon DEF Fail
  <2>2. pc'[c] = 8
    BY <1>3, <2>1, Zenon
  <2>3. pc' \in [Command -> 0..8]
    BY <1>3, <2>1, SMT
  <2>4. pc[c] # 0 /\ pc'[c] # 0 /\ ~(pc'[c] < 2) /\ pc'[c] \notin 2..7
    BY <2>1, <2>2, SMT
  <2>5. Ordered(c)' /\ Complete(c)'
    <3>1. pc'[c] \notin 3..7 /\ pc'[c] \notin 4..7 /\ pc'[c] \notin 5..7 /\ pc'[c] \notin 6..7 /\ pc'[c] # 7
      BY <2>2, SMT
    <3> QED BY <3>1, Zenon DEF Ordered, Complete
  <2>6. CommandInv(c)'
    BY <1>2, <1>6, <1>7, <2>4, <2>5, Zenon DEF CommandInv
  <2> QED BY <1>3, <1>5, <2>1, <2>3, <2>6, Zenon
<1>10. CASE StartCopy(c) \/ EndCopy(c)
  <2>1. /\ pc[c] \in {5, 6} /\ prog[c] = "export" /\ pc' = [pc EXCEPT ![c] = @ + 1] /\ saw' = saw
        /\ pc[c] = 5 => copied' = [copied EXCEPT ![c] = saved]
        /\ pc[c] = 6 => copied' = copied /\ whole' = [whole EXCEPT ![c] = (copied[c] = saved)]
    <3>1. CASE StartCopy(c)
      <4>1. pc[c] = 5 /\ prog[c] = "export"
        BY <1>1, <3>1, Places, Zenon DEF StartCopy
      <4>2. pc[c] # 6
        BY <4>1, SMT
      <4> QED BY <3>1, <4>1, <4>2, Zenon DEF StartCopy, Advance
    <3>2. CASE EndCopy(c)
      <4>1. pc[c] = 6 /\ prog[c] = "export"
        BY <1>1, <3>2, Places, Zenon DEF EndCopy
      <4>2. pc[c] # 5
        BY <4>1, SMT
      <4> QED BY <3>2, <4>1, <4>2, Zenon DEF EndCopy, Advance
    <3> QED BY <1>10, <3>1, <3>2, Zenon
  <2>2. pc'[c] = pc[c] + 1
    BY <1>3, <2>1, Zenon
  <2>3. pc' \in [Command -> 0..8] /\ pc'[c] \in {6, 7}
    BY <1>3, <2>1, <2>2, SMT
  <2>4. copied' \in [Command -> Nat] /\ copied'[c] = IF pc[c] = 5 THEN saved ELSE copied[c]
    <3>1. CASE pc[c] = 5
      BY <1>1, <1>3, <2>1, <3>1, Zenon DEF Typed
    <3>2. CASE pc[c] = 6
      <4>1. pc[c] # 5
        BY <3>2, SMT
      <4> QED BY <1>3, <2>1, <3>2, <4>1, Zenon
    <3> QED BY <2>1, <3>1, <3>2, Zenon
  <2>5. pc[c] = 6 => (whole'[c] <=> copied[c] = saved)
    BY <1>3, <2>1, Zenon
  <2>6. pc[c] # 0 /\ pc'[c] # 0 /\ ~(pc'[c] < 2) /\ pc[c] \in 2..7
    BY <2>1, <2>3, SMT
  <2>7. Ordered(c)'
    <3>1. pc[c] \in 5..7 /\ prog[c] # "stats"
      BY <2>1, SMT
    <3>2. saw[c]["count"] <= saw[c]["last"] /\ saw[c]["risk"] <= saw[c]["last"]
      BY <1>1, <2>1, <3>1, Zenon DEF CommandInv, Ordered
    <3> QED BY <1>2, <2>1, <3>1, <3>2, Zenon DEF Ordered
  <2>8. Complete(c)'
    <3> SUFFICES ASSUME alone[c]
                 PROVE  /\ saw[c]["count"] = commits - 1 /\ saw[c]["risk"] = commits - 1
                        /\ saw[c]["last"] = commits - 1 /\ copied'[c] = saved
                        /\ pc'[c] = 7 => whole'[c]
      BY <1>2, <2>1, Zenon DEF Complete
    <3>1. pc[c] \in 3..7 /\ pc[c] \in 4..7 /\ pc[c] \in 5..7 /\ (pc[c] = 6 => pc[c] \in 6..7)
      BY <2>1, SMT
    <3>2. saw[c]["count"] = commits - 1 /\ saw[c]["risk"] = commits - 1 /\ saw[c]["last"] = commits - 1
      BY <1>1, <2>1, <3>1, Zenon DEF CommandInv, Complete
    <3>3. pc[c] = 6 => copied[c] = saved
      BY <1>1, <2>1, <3>1, Zenon DEF CommandInv, Complete
    <3>4. pc'[c] = 7 => pc[c] = 6
      BY <2>1, <2>2, SMT
    <3>5. pc[c] = 5 \/ (pc[c] = 6 /\ pc[c] # 5)
      BY <2>1, SMT
    <3> QED BY <2>4, <2>5, <3>2, <3>3, <3>4, <3>5, Zenon
  <2>9. CommandInv(c)'
    BY <1>1, <1>2, <1>6, <1>7, <2>1, <2>6, <2>7, <2>8, Zenon DEF CommandInv
  <2> QED BY <1>3, <1>5, <2>1, <2>3, <2>4, <2>9, Zenon
<1>11. CASE Ask(c)
  <2>1. PICK q \in Queries : At(c, q) /\ saw' = [saw EXCEPT ![c][q] = commits - 1]
    BY <1>11, Zenon DEF Ask
  <2>2. pc' = [pc EXCEPT ![c] = @ + 1] /\ UNCHANGED <<copied, whole>>
    BY <1>11, Zenon DEF Ask, Advance
  <2>3. \/ q = "count" /\ pc[c] = 2
        \/ q = "risk" /\ pc[c] = 3
        \/ q = "last" /\ pc[c] = 4 /\ prog[c] = "export"
        \/ q = "runs" /\ pc[c] = 4 /\ prog[c] = "stats"
        \/ q = "events" /\ pc[c] = 5 /\ prog[c] = "stats"
        \/ q = "critical" /\ pc[c] = 6 /\ prog[c] = "stats"
    BY <1>1, <2>1, Places, Zenon DEF Queries
  <2>4. pc'[c] = pc[c] + 1 /\ pc[c] \in 2..6
    <3>1. pc'[c] = pc[c] + 1
      BY <1>3, <2>2, Zenon
    <3> QED BY <2>3, <3>1, SMT
  <2>5. pc' \in [Command -> 0..8]
    BY <1>3, <2>2, <2>4, SMT
  <2>6. commits - 1 \in Nat /\ \A x \in Queries : saw[c][x] <= commits - 1
    <3>1. pc[c] \in 2..7
      BY <2>4, SMT
    <3>2. commits > 0 /\ \A x \in Queries : saw[c][x] <= commits - 1
      BY <1>1, <3>1, Zenon DEF CommandInv
    <3> QED BY <1>1, <3>2, SMT DEF Typed
  <2>7. saw'[c] = [saw[c] EXCEPT ![q] = commits - 1]
    BY <1>3, <2>1, Zenon
  <2>8. /\ saw'[c][q] = commits - 1 /\ saw'[c] \in [Queries -> Nat]
        /\ \A x \in Queries : x # q => saw'[c][x] = saw[c][x]
    BY <1>1, <2>6, <2>7, Zenon DEF Typed
  <2>9. saw' \in [Command -> [Queries -> Nat]]
    <3>1. saw' = [saw EXCEPT ![c] = saw'[c]]
      BY <2>1, <2>7, Zenon
    <3> QED BY <1>3, <2>8, <3>1, Zenon
  <2>10. \A x \in Queries : saw'[c][x] <= commits - 1
    <3>1. commits - 1 <= commits - 1
      BY <2>6, SMT
    <3> QED BY <2>6, <2>8, <3>1, Zenon
  <2>11. pc[c] # 0 /\ pc'[c] # 0 /\ ~(pc'[c] < 2) /\ pc[c] \in 2..7
    BY <2>4, SMT
  <2>12. {"count", "risk", "last", "events", "critical"} \subseteq Queries
    BY Zenon DEF Queries
  <2>13. \A x \in Queries : saw'[c][x] \in Nat
    BY <2>8, Zenon
  <2>14. Ordered(c)'
    <3>1. prog[c] = "export" /\ pc'[c] \in 5..7 =>
             saw'[c]["count"] <= saw'[c]["last"] /\ saw'[c]["risk"] <= saw'[c]["last"]
      <4> SUFFICES ASSUME prog[c] = "export", pc'[c] \in 5..7
                   PROVE  saw'[c]["count"] <= saw'[c]["last"] /\ saw'[c]["risk"] <= saw'[c]["last"]
        OBVIOUS
      <4>1. q = "last"
        BY <2>3, <2>4, SMT
      <4> QED BY <2>8, <2>10, <2>12, <4>1, Zenon
    <3>2. prog[c] = "stats" /\ pc'[c] \in 6..7 => saw'[c]["count"] <= saw'[c]["events"]
      <4> SUFFICES ASSUME prog[c] = "stats", pc'[c] \in 6..7
                   PROVE  saw'[c]["count"] <= saw'[c]["events"]
        OBVIOUS
      <4>1. q = "events" \/ (q = "critical" /\ pc[c] = 6)
        BY <2>3, <2>4, SMT
      <4>2. CASE q = "events"
        BY <2>8, <2>10, <2>12, <4>2, Zenon
      <4>3. CASE q = "critical" /\ pc[c] = 6
        <5>1. "count" # q /\ "events" # q /\ pc[c] \in 6..7
          BY <4>3, SMT
        <5>2. saw[c]["count"] <= saw[c]["events"]
          BY <1>1, <5>1, Zenon DEF CommandInv, Ordered
        <5> QED BY <2>8, <2>12, <5>1, <5>2, Zenon
      <4> QED BY <4>1, <4>2, <4>3, Zenon
    <3>3. prog[c] = "stats" /\ pc'[c] = 7 => saw'[c]["risk"] <= saw'[c]["critical"]
      <4> SUFFICES ASSUME prog[c] = "stats", pc'[c] = 7
                   PROVE  saw'[c]["risk"] <= saw'[c]["critical"]
        OBVIOUS
      <4>1. q = "critical"
        BY <2>3, <2>4, SMT
      <4> QED BY <2>8, <2>10, <2>12, <4>1, Zenon
    <3> QED BY <1>2, <3>1, <3>2, <3>3, Zenon DEF Ordered
  <2>15. Complete(c)'
    <3> SUFFICES ASSUME prog[c] = "export", alone[c]
                 PROVE  /\ pc'[c] \in 3..7 => saw'[c]["count"] = commits - 1
                        /\ pc'[c] \in 4..7 => saw'[c]["risk"] = commits - 1
                        /\ pc'[c] \in 5..7 => saw'[c]["last"] = commits - 1
                        /\ pc'[c] \notin 6..7 /\ pc'[c] # 7
      BY <1>2, Zenon DEF Complete
    <3>1. /\ pc[c] \in 3..7 => saw[c]["count"] = commits - 1
          /\ pc[c] \in 4..7 => saw[c]["risk"] = commits - 1
      BY <1>1, Zenon DEF CommandInv, Complete
    <3>2. \/ q = "count" /\ pc'[c] = 3
          \/ q = "risk" /\ pc'[c] = 4 /\ pc[c] = 3
          \/ q = "last" /\ pc'[c] = 5 /\ pc[c] = 4
      BY <2>3, <2>4, SMT
    <3>3. CASE q = "count" /\ pc'[c] = 3
      <4>1. pc'[c] \notin 4..7 /\ pc'[c] \notin 5..7 /\ pc'[c] \notin 6..7 /\ pc'[c] # 7
        BY <3>3, SMT
      <4> QED BY <2>8, <3>3, <4>1, Zenon
    <3>4. CASE q = "risk" /\ pc'[c] = 4 /\ pc[c] = 3
      <4>1. pc'[c] \notin 5..7 /\ pc'[c] \notin 6..7 /\ pc'[c] # 7 /\ pc[c] \in 3..7 /\ "count" # q
        BY <3>4, SMT
      <4> QED BY <2>8, <2>12, <3>1, <3>4, <4>1, Zenon
    <3>5. CASE q = "last" /\ pc'[c] = 5 /\ pc[c] = 4
      <4>1. pc'[c] \notin 6..7 /\ pc'[c] # 7 /\ pc[c] \in 3..7 /\ pc[c] \in 4..7
            /\ "count" # q /\ "risk" # q
        BY <3>5, SMT
      <4> QED BY <2>8, <2>12, <3>1, <3>5, <4>1, Zenon
    <3> QED BY <3>2, <3>3, <3>4, <3>5, Zenon
  <2>16. CommandInv(c)'
    <3>1. commits > 0
      BY <1>1, <2>6, SMT DEF Typed
    <3> QED BY <1>2, <1>6, <1>7, <2>10, <2>11, <2>14, <2>15, <3>1, Zenon DEF CommandInv
  <2> QED BY <1>3, <1>5, <2>2, <2>5, <2>9, <2>16, Zenon
<1> QED BY <1>8, <1>9, <1>10, <1>11, Zenon

(* The steps that open and close a command's connection.                   *)
LEMMA ConnectionStep ==
  ASSUME Core, FlagTypes, NEW c \in Command, Begin(c) \/ End(c) \/ Kill(c)
  PROVE  Core'
<1>1. DataTypes /\ Settled /\ CommandInv(c) /\ Typed(c)
  BY TypedFrom, Zenon DEF Core
<1>2. /\ pc \in [Command -> 0..8] /\ saw \in [Command -> [Queries -> Nat]]
      /\ copied \in [Command -> Nat] /\ whole \in [Command -> BOOLEAN]
      /\ prog \in [Command -> {"export", "stats"}] /\ alone \in [Command -> BOOLEAN]
      /\ open \subseteq Process
  BY Zenon DEF Core, DataTypes, FlagTypes
<1>3. Server # c /\ c \in Process
  BY EvidenceAssumption, Zenon DEF Process
<1>4. c \in open <=> pc[c] # 0
  BY <1>1, Zenon DEF CommandInv
<1>5. ASSUME /\ commits' = commits /\ saved' \in {saved, commits} /\ open' \subseteq open \cup {c}
             /\ \A d \in open : d # c => d \in open'
             /\ \A d \in Command : d # c => Same(d) /\ alone'[d] = alone[d],
             /\ pc' \in [Command -> 0..8] /\ saw' \in [Command -> [Queries -> Nat]]
             /\ copied' \in [Command -> Nat] /\ prog' \in [Command -> {"export", "stats"}],
             Settled', CommandInv(c)'
      PROVE  Core'
  <2>1. saved' \in 0..commits'
    BY <1>1, <1>5, SMT DEF Typed
  <2>2. open' \subseteq Process
    BY <1>2, <1>3, <1>5, Zenon
  <2>3. DataTypes'
    BY <1>1, <1>5, <2>1, <2>2, Zenon DEF DataTypes
  <2>4. \A d \in Command : alone[d] => saved = commits
    BY Zenon DEF Core, CommandInv
  <2>5. \A d \in Command : d # c /\ alone[d] => saved' = saved
    BY <1>5, <2>4, Zenon
  <2>6. \A d \in Command : d # c => (d \in open' <=> d \in open)
    BY <1>5, Zenon
  <2>7. Server \in open' => Server \in open
    BY <1>3, <1>5, Zenon
  <2> QED BY <1>5, <2>3, <2>5, <2>6, <2>7, OneSteps, Zenon
<1>6. CASE Begin(c)
  <2>1. PICK p \in {"export", "stats"} : prog' = [prog EXCEPT ![c] = p]
    BY <1>6, Zenon DEF Begin
  <2>2. /\ pc[c] = 0 /\ c \notin open /\ open' = open \cup {c} /\ pc' = [pc EXCEPT ![c] = @ + 1]
        /\ alone' = [alone EXCEPT ![c] = (open = {} /\ orderly)]
        /\ UNCHANGED <<commits, saved, orderly, saw, copied, whole>>
    BY <1>6, Zenon DEF Begin, NewDB, Advance
  <2>3. pc'[c] = pc[c] + 1 /\ (alone'[c] <=> open = {} /\ orderly)
    BY <1>2, <2>2, Zenon
  <2>4. \A d \in Command : d # c => Same(d) /\ alone'[d] = alone[d]
    BY <1>2, <2>1, <2>2, Zenon DEF Same
  <2>5. pc' \in [Command -> 0..8] /\ pc'[c] = 1
    BY <1>2, <2>2, <2>3, SMT
  <2>6. prog' \in [Command -> {"export", "stats"}]
    BY <1>2, <2>1, Zenon
  <2>7. pc'[c] # 0 /\ pc[c] < 2 /\ pc'[c] \notin 2..7
    BY <2>2, <2>5, SMT
  <2>8. Ordered(c)' /\ Complete(c)'
    <3>1. pc'[c] \notin 3..7 /\ pc'[c] \notin 4..7 /\ pc'[c] \notin 5..7 /\ pc'[c] \notin 6..7 /\ pc'[c] # 7
      BY <2>5, SMT
    <3> QED BY <3>1, Zenon DEF Ordered, Complete
  <2>9. Settled' /\ (open = {} /\ orderly => saved = commits)
    BY <1>1, <2>2, Zenon DEF Settled
  <2>10. \A q \in Queries : saw[c][q] = 0
    BY <1>1, <2>7, Zenon DEF CommandInv
  <2>11. CommandInv(c)'
    BY <1>3, <2>2, <2>3, <2>7, <2>8, <2>9, <2>10, Zenon DEF CommandInv
  <2> QED BY <1>2, <1>5, <2>2, <2>4, <2>5, <2>6, <2>9, <2>11, Zenon
<1>7. CASE End(c) \/ Kill(c)
  <2>1. /\ commits' = commits /\ open' = open \ {c} /\ Forget(c)
        /\ saved' \in {saved, commits} /\ (open' = {} /\ orderly' => saved' = commits)
    BY <1>7, Zenon DEF End, Kill, Close, Abandon
  <2>2. /\ pc'[c] = 0 /\ ~alone'[c] /\ saw'[c] = Nothing
        /\ \A d \in Command : d # c => Same(d) /\ alone'[d] = alone[d]
    BY <1>2, <2>1, Zenon DEF Forget, Same
  <2>3. 0 \in Nat /\ 0 \in 0..8 /\ 0 < 2 /\ 0 \notin 2..7 /\ "export" \in {"export", "stats"}
    BY SMT
  <2>4. Nothing \in [Queries -> Nat] /\ \A q \in Queries : Nothing[q] = 0
    BY <2>3, Zenon DEF Nothing
  <2>5. /\ pc' \in [Command -> 0..8] /\ saw' \in [Command -> [Queries -> Nat]]
        /\ copied' \in [Command -> Nat] /\ prog' \in [Command -> {"export", "stats"}]
    BY <1>2, <2>1, <2>3, <2>4, Zenon DEF Forget
  <2>6. Ordered(c)' /\ Complete(c)'
    <3>1. pc'[c] \notin 3..7 /\ pc'[c] \notin 4..7 /\ pc'[c] \notin 5..7 /\ pc'[c] \notin 6..7 /\ pc'[c] # 7
      BY <2>2, SMT
    <3> QED BY <3>1, Zenon DEF Ordered, Complete
  <2>7. Settled'
    BY <2>1, Zenon DEF Settled
  <2>8. CommandInv(c)'
    BY <2>1, <2>2, <2>3, <2>4, <2>6, Zenon DEF CommandInv
  <2> QED BY <1>5, <2>1, <2>2, <2>5, <2>7, <2>8, Zenon
<1> QED BY <1>6, <1>7, Zenon

(* The Boolean variables stay Boolean.                                     *)
LEMMA FlagTypesStep ==
  ASSUME FlagTypes, [EvidenceNext]_evidenceVars
  PROVE  FlagTypes'
<1>1. orderly' \in BOOLEAN
  BY Zenon DEF FlagTypes, EvidenceNext, evidenceVars, database, ServerStarts, Insert, Checkpoint,
     ServerStops, Close, ServerCrashes, Abandon, CommandStep, Begin, GetRunID, Ask, StartCopy,
     EndCopy, Fail, End, Kill
<1>2. whole' \in [Command -> BOOLEAN]
  BY Zenon DEF FlagTypes, EvidenceNext, evidenceVars, commandVars, ServerStarts, Insert,
     Checkpoint, ServerStops, ServerCrashes, CommandStep, Begin, GetRunID, Ask, StartCopy,
     EndCopy, Fail, End, Kill, Forget
<1>3. alone' \in [Command -> BOOLEAN]
  BY Zenon DEF FlagTypes, EvidenceNext, evidenceVars, commandVars, ServerStarts, Insert,
     Checkpoint, ServerStops, ServerCrashes, CommandStep, Begin, GetRunID, Ask, StartCopy,
     EndCopy, Fail, End, Kill, Forget
<1>4. sealed' \in [Command -> BOOLEAN]
  BY Zenon DEF FlagTypes, EvidenceNext, evidenceVars, commandVars, ServerStarts, Insert,
     Checkpoint, ServerStops, ServerCrashes, CommandStep, Begin, GetRunID, Ask, StartCopy,
     EndCopy, Fail, End, Kill, Forget
<1> QED BY <1>1, <1>2, <1>3, <1>4, Zenon DEF FlagTypes

(* Every step preserves the invariant.                                     *)
LEMMA InvStep ==
  ASSUME EvidenceInv, [EvidenceNext]_evidenceVars
  PROVE  EvidenceInv'
<1>1. Core /\ FlagTypes
  BY InvSplit, Zenon
<1>2. FlagTypes'
  BY <1>1, FlagTypesStep, Zenon
<1>3. Core'
  <2>1. CASE ServerStarts \/ Insert \/ Checkpoint \/ ServerStops \/ ServerCrashes
    BY <1>1, <2>1, ServerStep, Zenon
  <2>2. ASSUME NEW c \in Command, CommandStep(c)
        PROVE  Core'
    BY <1>1, <2>2, ReportStep, ConnectionStep, Zenon DEF CommandStep
  <2>3. CASE UNCHANGED evidenceVars
    <3>1. UNCHANGED <<commits, saved, open, orderly, prog, pc, saw, copied, whole, sealed, alone>>
      BY <2>3, Zenon DEF evidenceVars, database, commandVars
    <3>2. DataTypes' /\ Settled'
      BY <1>1, <3>1, Zenon DEF Core, DataTypes, Settled
    <3>3. \A c \in Command : CommandInv(c)'
      <4>1. \A c \in Command : Same(c) /\ Rest(c) /\ (c \in open' <=> c \in open)
        BY <1>1, <3>1, Zenon DEF Core, CommandInv, Same, Rest
      <4>2. commits <= commits' /\ Command \in SUBSET Command
        BY <1>1, <3>1, SMT DEF Core, DataTypes
      <4> QED BY <1>1, <3>2, <4>1, <4>2, AllWait, Zenon
    <3> QED BY <3>2, <3>3, Zenon DEF Core
  <2> QED BY <2>1, <2>2, <2>3, Zenon DEF EvidenceNext
<1>4. EvidenceTypeOK' <=> DataTypes' /\ FlagTypes'
  BY Zenon DEF EvidenceTypeOK, DataTypes, FlagTypes
<1> QED BY <1>2, <1>3, <1>4, Zenon DEF EvidenceInv, Core, Settled, ConnectionInv, CommandInv

(* The connections, the two files and the reports agree at all times, for  *)
(* any number of commands beside the server (sqlite.go:34-57,              *)
(* export.go:46-138).                                                      *)
THEOREM EvidenceInvariant == EvidenceSpec => []EvidenceInv
<1>1. EvidenceInit => EvidenceInv
  <2> SUFFICES ASSUME EvidenceInit PROVE EvidenceInv
    OBVIOUS
  <2> USE DEF EvidenceInit
  <2>1. 0 \in Nat /\ 0 \in 0..0 /\ 0 \in 0..8 /\ 0 < 2 /\ 0 \notin 2..7 /\ 0 \notin 5..7
        /\ 0 \notin 6..7 /\ 0 # 7
    BY SMT
  <2>2. Nothing \in [Queries -> Nat] /\ \A q \in Queries : Nothing[q] = 0
    BY <2>1, Zenon DEF Nothing
  <2>3. DataTypes
    BY <2>1, <2>2, Zenon DEF DataTypes
  <2>4. FlagTypes
    BY Zenon DEF FlagTypes
  <2>5. \A c \in Command : Ordered(c) /\ Complete(c)
    BY <2>1, Zenon DEF Ordered, Complete
  <2>6. \A c \in Command : CommandInv(c)
    BY <2>1, <2>2, <2>5, Zenon DEF CommandInv
  <2> QED BY <2>3, <2>4, <2>6, InvSplit, Zenon DEF Core, Settled
<1> QED BY <1>1, InvStep, PTL DEF EvidenceSpec

(* The numbers of every report are in order (export.go:64-73,              *)
(* analytics.go:90-95).                                                    *)
THEOREM ReportsAreOrdered == EvidenceSpec => []ReportIsOrdered
<1>1. EvidenceInv => ReportIsOrdered
  <2> SUFFICES ASSUME EvidenceInv, NEW c \in Command, At(c, "close")
               PROVE  IF prog[c] = "export"
                      THEN saw[c]["count"] <= saw[c]["last"] /\ saw[c]["risk"] <= saw[c]["last"]
                      ELSE saw[c]["count"] <= saw[c]["events"] /\ saw[c]["risk"] <= saw[c]["critical"]
    BY Zenon DEF ReportIsOrdered
  <2>1. DataTypes /\ Ordered(c)
    BY InvSplit, Zenon DEF Core, CommandInv
  <2>2. pc[c] = 7 /\ prog[c] \in {"export", "stats"}
    BY <2>1, Places, Zenon DEF DataTypes
  <2>3. pc[c] \in 5..7 /\ pc[c] \in 6..7
    BY <2>2, SMT
  <2> QED BY <2>1, <2>2, <2>3, Zenon DEF Ordered
<1> QED BY <1>1, EvidenceInvariant, PTL

(* A bag exported after the server was closed, and before it is started    *)
(* again, is complete, provided its zip could be closed (export.go:46-138).*)
THEOREM BagsAreComplete == EvidenceSpec => []BagIsComplete
<1>1. EvidenceInv => BagIsComplete
  <2> SUFFICES ASSUME EvidenceInv, NEW c \in Command,
                      At(c, "close"), prog[c] = "export", alone[c], sealed[c]
               PROVE  /\ whole[c] /\ copied[c] = commits
                      /\ saw[c]["count"] = commits - 1 /\ saw[c]["risk"] = commits - 1
                      /\ saw[c]["last"] = commits - 1
    BY Zenon DEF BagIsComplete
  <2>1. DataTypes /\ Complete(c) /\ saved = commits
    BY InvSplit, Zenon DEF Core, CommandInv
  <2>2. pc[c] = 7
    BY <2>1, Places, Zenon
  <2>3. pc[c] \in 3..7 /\ pc[c] \in 4..7 /\ pc[c] \in 5..7 /\ pc[c] \in 6..7
    BY <2>2, SMT
  <2> QED BY <2>1, <2>2, <2>3, Zenon DEF Complete
<1> QED BY <1>1, EvidenceInvariant, PTL
=============================================================================
