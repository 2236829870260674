----------------------------- MODULE BoundedFifo -----------------------------
(***************************************************************************)
(* What the ring buffer of internal/ring promises its callers: a first-in  *)
(* first-out queue of at most Capacity items whose operations are atomic   *)
(* and report a full or an empty queue without changing it.                *)
(***************************************************************************)
EXTENDS Integers, Sequences

CONSTANTS
  Item,      \* the values that are pushed (event pointers in the program)
  Capacity   \* the fixed capacity given to New

VARIABLES
  queue,     \* the items, oldest first
  ret        \* <<operation, result>> of the last call that returned

fifoVars == <<queue, ret>>

Init ==
  /\ queue = <<>>
  /\ ret = <<"New", "ok">>

Push(item) ==
  \/ /\ Len(queue) < Capacity
     /\ queue' = Append(queue, item)
     /\ ret' = <<"Push", "ok">>
  \/ /\ Len(queue) = Capacity
     /\ ret' = <<"Push", "ErrBufferFull">>
     /\ UNCHANGED queue

Pop ==
  \/ /\ queue # <<>>
     /\ queue' = Tail(queue)
     /\ ret' = <<"Pop", Head(queue)>>
  \/ /\ queue = <<>>
     /\ ret' = <<"PopError", "ErrBufferEmpty">>
     /\ UNCHANGED queue

Query ==
  /\ ret' \in { <<"IsFull", Len(queue) = Capacity>>,
                <<"IsEmpty", queue = <<>> >>,
                <<"Len", Len(queue)>>,
                <<"Cap", Capacity>> }
  /\ UNCHANGED queue

Next == (\E item \in Item : Push(item)) \/ Pop \/ Query

Spec == Init /\ [][Next]_fifoVars
=============================================================================
