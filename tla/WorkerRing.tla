------------------------------ MODULE WorkerRing ------------------------------
(***************************************************************************)
(* The worker of module Worker on the ring of module RingBuffer.  Submit   *)
(* calls ringBuffer.Push and the drain loops call ringBuffer.Pop where     *)
(* module Worker has its own queue, and each call is one step of both      *)
(* (worker.go:225-280, 392-426, 465-498; buffer.go:42-83).                 *)
(***************************************************************************)
EXTENDS Worker

VARIABLES data, head, tail, length, ret

Ring == INSTANCE RingBuffer WITH Item <- Event, Zero <- NoEvent, count <- length

ring == <<data, head, tail, length, ret>>

WorkerRingInit == Init /\ Ring!New

PushToRing(s) == PushEvent(s) /\ Ring!Push(arg[s])

PopFromRing(c) == DrainPop(c) /\ Ring!Pop

\* The steps that leave the ring alone.
OtherStep ==
  \/ \E s \in Submitter, e \in Event : SubmitCall(s, e)
  \/ \E s \in Submitter : BlockAttempt(s) \/ BlockWait(s) \/ CheckRoom(s) \/ SignalWorker(s)
  \/ AnchorQuit
  \/ LoopStep
  \/ \E c \in Consumer : DrainCheck(c) \/ ProcessHeld(c)
  \/ StopHTTP
  \/ ShutdownStep
  \/ Terminated

WorkerRingNext ==
  \/ \E s \in Submitter : PushToRing(s)
  \/ \E c \in Consumer : PopFromRing(c)
  \/ OtherStep /\ UNCHANGED ring

WorkerRingSpec == WorkerRingInit /\ [][WorkerRingNext]_<<vars, ring>>

-----------------------------------------------------------------------------

(* The slots from head on hold the events that were pushed and not yet     *)
(* popped, in the order of the pushes, whichever goroutines pushed and     *)
(* popped them: the checks of IsFull and IsEmpty that Submit and the drain *)
(* loops make between two calls (worker.go:244, 409) see what module       *)
(* Worker says they see.                                                   *)
RingHoldsBuffer ==
  /\ Ring!Queued = buffer
  /\ Ring!IsFull <=> IsFull

(* Every Push and every Pop of the worker has the effect and the result    *)
(* that it has on a bounded first-in first-out queue, across every         *)
(* wrap-around of head and tail (buffer.go:42-83).                         *)
ImplementsFifo == Ring!ImplementsFifo
=============================================================================
