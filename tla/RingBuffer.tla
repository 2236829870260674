------------------------------ MODULE RingBuffer ------------------------------
(***************************************************************************)
(* internal/ring/buffer.go: a fixed array with a head and a tail index and *)
(* a count, every operation under one mutex.  An operation therefore is    *)
(* one action.  `ret' is the result handed to the caller; Pop leaves the   *)
(* popped slot as it is, as the code does (its clearing is commented out). *)
(***************************************************************************)
EXTENDS Integers, Sequences

CONSTANTS
  Item,      \* the values that are pushed
  Capacity,  \* b.capacity
  Zero       \* the zero value of T that make([]T, capacity) fills slots with

\* New refuses a capacity that is not positive (buffer.go:28).
RingAssumption ==
  /\ Capacity \in Nat \ {0}
  /\ Zero \notin Item

VARIABLES data, head, tail, count, ret

ringVars == <<data, head, tail, count>>
vars == <<data, head, tail, count, ret>>

Slot == 0 .. Capacity - 1

-----------------------------------------------------------------------------

New ==
  /\ data = [i \in Slot |-> Zero]
  /\ head = 0
  /\ tail = 0
  /\ count = 0
  /\ ret = <<"New", "ok">>

IsFull == count = Capacity

IsEmpty == count = 0

\* A plausible defect of Pop.
PopKeepsCountWhenWrapping ==
  /\ ~IsEmpty
  /\ ret' = <<"Pop", data[head]>>
  /\ head' = (head + 1) % Capacity
  /\ count' = IF head' = 0 THEN count ELSE count - 1
  /\ UNCHANGED <<data, tail>>

\* The tail is advanced before the slot is written.
PushToNextSlot(item) ==
  \/ /\ IsFull
     /\ ret' = <<"Push", "ErrBufferFull">>
     /\ UNCHANGED ringVars
  \/ /\ ~IsFull
     /\ tail' = (tail + 1) % Capacity
     /\ data' = [data EXCEPT ![tail'] = item]
     /\ count' = count + 1
     /\ ret' = <<"Push", "ok">>
     /\ UNCHANGED head

Push(item) ==
  \/ /\ IsFull
     /\ ret' = <<"Push", "ErrBufferFull">>
     /\ UNCHANGED ringVars
  \/ /\ ~IsFull
     /\ data' = [data EXCEPT ![tail] = item]
     /\ tail' = (tail + 1) % Capacity
     /\ count' = count + 1
     /\ ret' = <<"Push", "ok">>
     /\ UNCHANGED head

Pop ==
  \/ /\ IsEmpty
     /\ ret' = <<"PopError", "ErrBufferEmpty">>
     /\ UNCHANGED ringVars
  \/ /\ ~IsEmpty
     /\ ret' = <<"Pop", data[head]>>
     /\ head' = (head + 1) % Capacity
     /\ count' = count - 1
     /\ UNCHANGED <<data, tail>>

\* The read-only operations: IsFull, IsEmpty, Len and Cap.
Query ==
  /\ ret' \in { <<"IsFull", IsFull>>, <<"IsEmpty", IsEmpty>>,
                <<"Len", count>>, <<"Cap", Capacity>> }
  /\ UNCHANGED ringVars

Next == (\E item \in Item : Push(item)) \/ Pop \/ Query

Spec == New /\ [][Next]_vars

-----------------------------------------------------------------------------

TypeOK ==
  /\ data \in [Slot -> Item \cup {Zero}]
  /\ head \in Slot
  /\ tail \in Slot
  /\ count \in 0 .. Capacity

(* The slots that hold queued items are the `count' slots from head on,    *)
(* modulo the capacity, and tail is the slot after the last of them.       *)
(* Push relies on it when it writes data[tail] (buffer.go:55): a full      *)
(* check on count protects the slot at tail only while the three agree.    *)
IndicesAgree == tail = (head + count) % Capacity

(* A queued slot always holds a pushed item, never the zero value that New *)
(* put there, so Pop (buffer.go:75) never returns a nil event.             *)
QueuedSlotsFilled ==
  \A i \in 0 .. count - 1 : data[(head + i) % Capacity] \in Item

RingInv == TypeOK /\ IndicesAgree /\ QueuedSlotsFilled

\* The queue that the ring represents: the queued slots, oldest first.
Queued == [i \in 1 .. count |-> data[(head + i - 1) % Capacity]]

Fifo == INSTANCE BoundedFifo WITH queue <- Queued

(* Every operation on the ring has the effect and the result that it has   *)
(* on a bounded first-in first-out queue: nothing is overwritten, lost,    *)
(* reordered or returned twice across the wrap-around of head and tail.    *)
ImplementsFifo == Fifo!Spec
=============================================================================
