----------------------------- MODULE WorkerProofs -----------------------------
(***************************************************************************)
(* Proofs of the safety properties of Worker, for every set of events and  *)
(* handlers, every capacity and every loop bound.  WorkerInv is inductive; *)
(* there is one lemma for each action of Next.                             *)
(***************************************************************************)
EXTENDS WorkerRing, SequenceTheorems, FiniteSetTheorems, TLAPS

USE DEF bufferVars, submitVars, loopVars, channelVars, stopVars, metricVars,
        historyVars, Running

(* One event is a sequence of events. *)
LEMMA OneEventSeq ==
  ASSUME NEW e \in Event
  PROVE  <<e>> \in Seq(Event)
  OBVIOUS

LEMMA AppendToConcat ==
  ASSUME NEW p \in Seq(Event), NEW b \in Seq(Event), NEW e \in Event
  PROVE  Append(p \o b, e) = p \o Append(b, e)
  <1>1. p \o b \in Seq(Event) /\ <<e>> \in Seq(Event)
    BY ConcatProperties
  <1>2. Append(p \o b, e) = (p \o b) \o <<e>> /\ Append(b, e) = b \o <<e>>
    BY <1>1, AppendIsConcat, Zenon
  <1>3. (p \o b) \o <<e>> = p \o (b \o <<e>>)
    BY <1>1, ConcatAssociative
  <1> QED
    BY <1>2, <1>3

LEMMA PopMovesFirst ==
  ASSUME NEW h \in Seq(Event), NEW b \in Seq(Event), b # <<>>
  PROVE  h \o b = Append(h, Head(b)) \o Tail(b)
  <1>1. /\ Head(b) \in Event /\ <<Head(b)>> \in Seq(Event) /\ Tail(b) \in Seq(Event)
        /\ b = <<Head(b)>> \o Tail(b)
    BY HeadTailProperties
  <1>2. h \o (<<Head(b)>> \o Tail(b)) = (h \o <<Head(b)>>) \o Tail(b)
    BY <1>1, ConcatAssociative
  <1>3. h \o <<Head(b)>> = Append(h, Head(b))
    BY <1>1, AppendIsConcat
  <1> QED
    BY <1>1, <1>2, <1>3

(* Counters grow within their types.                                       *)
LEMMA CounterGrows ==
  /\ \A n \in Nat : n + 1 \in Nat
  /\ \A d \in Nat : \A n \in 0 .. d : n < d => n + 1 \in 0 .. d
  OBVIOUS

(* The iterations left to a drain loop after an event is taken, and after  *)
(* it is processed.                                                        *)
LEMMA IterationsLeft ==
  ASSUME NEW n \in Nat, NEW k \in Nat, NEW d \in Nat
  PROVE  /\ n <= d - k => n - 1 < d - k
         /\ n < d - k => n <= d - (k + 1)
  OBVIOUS

LEMMA ReturnTypes ==
  ASSUME GoroutineTypes, NEW s \in Submitter, Return(s), UNCHANGED <<point, count, held>>
  PROVE  GoroutineTypes'
  BY WorkerAssumption DEF GoroutineTypes, Return

LEMMA InitInv == Init => WorkerInv
  <1> SUFFICES ASSUME Init PROVE WorkerInv
    OBVIOUS
  <1> USE WorkerAssumption DEF Init
  <1>1. FlagTypes
    BY Zenon DEF FlagTypes
  <1>2. DataTypes
    BY EmptySeq DEF DataTypes
  <1>3. GoroutineTypes
    BY DEF GoroutineTypes
  <1>4. FlagPhase /\ StopPhase /\ SubmitterHolds /\ ConsumerHolds
    BY DEF FlagPhase, StopPhase, BothStopped, SubmitterHolds, ConsumerHolds, Consumer
  <1>5. WakeupCovered /\ DrainCovered
    BY DEF WakeupCovered, DrainCovered, EnoughIterations, Consumer
  <1>6. HandledInOrder
    BY EmptySeq, ConcatEmptySeq DEF HandledInOrder, InHand, Consumer
  <1> QED
    BY <1>1, <1>2, <1>3, <1>4, <1>5, <1>6 DEF WorkerInv, TypeOK, PhaseInv

LEMMA SubmitCallInv ==
  ASSUME WorkerInv, NEW s \in Submitter, NEW e \in Event, SubmitCall(s, e)
  PROVE  WorkerInv'
  <1> USE WorkerAssumption DEF WorkerInv, TypeOK, PhaseInv, SubmitCall, DropEvent, Return
  <1>1. FlagTypes'
    BY DEF FlagTypes
  <1>2. DataTypes'
    BY CounterGrows, Zenon DEF DataTypes
  <1>3. GoroutineTypes'
    BY DEF GoroutineTypes
  <1>4. FlagPhase'
    BY DEF FlagPhase
  <1>5. StopPhase'
    BY Zenon DEF StopPhase, BothStopped, GoroutineTypes, Submitter
  <1>6. SubmitterHolds'
    BY DEF SubmitterHolds, GoroutineTypes
  <1>7. ConsumerHolds'
    BY DEF ConsumerHolds
  <1>8. WakeupCovered' /\ DrainCovered'
    BY DEF WakeupCovered, DrainCovered, EnoughIterations, GoroutineTypes
  <1>9. HandledInOrder'
    BY Zenon DEF HandledInOrder, InHand
  <1> QED
    BY <1>1, <1>2, <1>3, <1>4, <1>5, <1>6, <1>7, <1>8, <1>9

LEMMA PushEventInv ==
  ASSUME WorkerInv, NEW s \in Submitter, PushEvent(s)
  PROVE  WorkerInv'
  <1> USE WorkerAssumption DEF WorkerInv, TypeOK, PhaseInv, PushEvent, Return, IsFull
  <1>0. arg[s] \in Event
    BY Zenon DEF SubmitterHolds, GoroutineTypes
  <1>1. FlagTypes'
    BY DEF FlagTypes
  <1>2. DataTypes'
    <2>1. CASE IsFull
      BY <1>0, <2>1 DEF DataTypes
    <2>2. CASE ~IsFull
      <3>1. Append(buffer, arg[s]) \in Seq(Event) /\ Append(accepted, arg[s]) \in Seq(Event)
        BY <1>0, AppendProperties DEF DataTypes
      <3>2. Len(Append(buffer, arg[s])) <= Capacity
        BY <1>0, <2>2, AppendProperties DEF DataTypes
      <3> QED
        BY <2>2, <3>1, <3>2, Zenon DEF DataTypes
    <2> QED
      BY <2>1, <2>2
  <1>3. GoroutineTypes'
    <2>1. CASE IsFull
      <3>1. UNCHANGED <<point, count, held>>
        OBVIOUS
      <3>2. Return(s)
        BY <2>1
      <3> QED
        BY <3>1, <3>2, ReturnTypes, Zenon
    <2>2. CASE ~IsFull
      BY <2>2, Zenon DEF GoroutineTypes
    <2> QED
      BY <2>1, <2>2
  <1>4. FlagPhase'
    BY DEF FlagPhase
  <1>5. StopPhase'
    BY DEF StopPhase, BothStopped, GoroutineTypes, Submitter
  <1>6. SubmitterHolds'
    <2>1. PICK l \in {"idle", "signal"}, a \in {0, attempt[s]} :
            /\ spc' = [spc EXCEPT ![s] = l] /\ arg' = [arg EXCEPT ![s] = NoEvent]
            /\ attempt' = [attempt EXCEPT ![s] = a]
      <3>1. attempt = [attempt EXCEPT ![s] = attempt[s]]
        BY Zenon DEF GoroutineTypes
      <3> QED BY <3>1, Zenon
    <2> QED BY <2>1 DEF SubmitterHolds, GoroutineTypes
  <1>7. ConsumerHolds'
    BY DEF ConsumerHolds
  <1>8. WakeupCovered' /\ DrainCovered'
    BY Zenon DEF StopPhase, SubmitterHolds, WakeupCovered, DrainCovered, EnoughIterations,
           GoroutineTypes, Submitter, BothStopped
  <1>9. HandledInOrder'
    <2> DEFINE p == handled \o InHand("loop") \o InHand("drain")
    <2>1. p \in Seq(Event)
      BY ConcatProperties DEF DataTypes, GoroutineTypes, InHand, Consumer
    <2>2. p' = p
      BY DEF InHand
    <2>3. p \o Append(buffer, arg[s]) = Append(p \o buffer, arg[s])
      <3>1. buffer \in Seq(Event)
        BY Zenon DEF DataTypes
      <3> HIDE DEF p
      <3> QED BY <1>0, <2>1, <3>1, AppendToConcat, Zenon
    <2> HIDE DEF p
    <2>4. ~waitTimedOut => accepted' = p \o buffer'
      BY <2>3, Zenon DEF HandledInOrder, p
    <2> QED
      BY <2>2, <2>4, Zenon DEF HandledInOrder, p
  <1> QED
    BY <1>1, <1>2, <1>3, <1>4, <1>5, <1>6, <1>7, <1>8, <1>9

LEMMA MoveInv ==
  ASSUME WorkerInv, NEW s \in Submitter,
         NEW l \in {"idle", "attempt", "blocked", "room", "push"},
         spc[s] \in {"attempt", "blocked", "room"},
         spc' = [spc EXCEPT ![s] = l],
         UNCHANGED <<mode, bufferVars, loopVars, channelVars, stopVars, historyVars>>,
         FlagTypes', DataTypes', GoroutineTypes', SubmitterHolds'
  PROVE  WorkerInv'
  <1> USE DEF WorkerInv, TypeOK, PhaseInv
  <1>1. FlagPhase'
    BY DEF FlagPhase
  <1>2. StopPhase'
    BY DEF StopPhase, BothStopped, GoroutineTypes, Submitter
  <1>3. ConsumerHolds'
    BY DEF ConsumerHolds
  <1>4. WakeupCovered' /\ DrainCovered'
    BY DEF WakeupCovered, DrainCovered, EnoughIterations, GoroutineTypes
  <1>5. HandledInOrder'
    BY Zenon DEF HandledInOrder, InHand
  <1> QED
    BY <1>1, <1>2, <1>3, <1>4, <1>5

LEMMA BlockAttemptInv ==
  ASSUME WorkerInv, NEW s \in Submitter, BlockAttempt(s)
  PROVE  WorkerInv'
  <1> USE WorkerAssumption DEF WorkerInv, TypeOK, PhaseInv, BlockAttempt, GoTo
  <1>1. FlagTypes' /\ DataTypes'
    BY DEF FlagTypes, DataTypes
  <1>2. GoroutineTypes'
    BY Zenon DEF GoroutineTypes
  <1>3. SubmitterHolds'
    BY Zenon DEF SubmitterHolds, GoroutineTypes
  <1> QED
    BY <1>1, <1>2, <1>3, MoveInv

LEMMA BlockWaitInv ==
  ASSUME WorkerInv, NEW s \in Submitter, BlockWait(s)
  PROVE  WorkerInv'
  <1> USE WorkerAssumption DEF WorkerInv, TypeOK, PhaseInv, BlockWait, DropEvent
  <1>1. FlagTypes' /\ DataTypes'
    <2>1. FlagTypes'
      BY Zenon DEF FlagTypes
    <2>2. DataTypes'
      BY CounterGrows, Zenon DEF DataTypes
    <2> QED BY <2>1, <2>2, Zenon
  <1>2. GoroutineTypes'
    <2>1. CASE closing
      BY <2>1, ReturnTypes
    <2>2. CASE ~closing
      <3>1. attempt[s] + 1 \in 0 .. MaxBlockAttempts
        <4>1. attempt[s] \in 0 .. MaxBlockAttempts /\ attempt[s] < MaxBlockAttempts
          BY Zenon DEF SubmitterHolds, GoroutineTypes
        <4> QED BY <4>1, CounterGrows, Zenon
      <3> QED
        BY <2>2, <3>1 DEF GoroutineTypes
    <2> QED
      BY <2>1, <2>2
  <1>3. SubmitterHolds'
    BY DEF SubmitterHolds, GoroutineTypes, Return
  <1> QED
    BY <1>1, <1>2, <1>3, MoveInv, Zenon DEF Return

LEMMA CheckRoomInv ==
  ASSUME WorkerInv, NEW s \in Submitter, CheckRoom(s)
  PROVE  WorkerInv'
  <1> USE WorkerAssumption DEF WorkerInv, TypeOK, PhaseInv, CheckRoom, DropEvent, GoTo
  <1>1. FlagTypes' /\ DataTypes'
    <2>1. FlagTypes'
      BY Zenon DEF FlagTypes
    <2>2. DataTypes'
      BY CounterGrows, Zenon DEF DataTypes
    <2> QED BY <2>1, <2>2, Zenon
  <1>2. GoroutineTypes'
    BY ReturnTypes, Zenon DEF GoroutineTypes
  <1>3. SubmitterHolds'
    BY DEF SubmitterHolds, GoroutineTypes, Return
  <1> QED
    BY <1>1, <1>2, <1>3, MoveInv, Zenon DEF Return

LEMMA SignalWorkerInv ==
  ASSUME WorkerInv, NEW s \in Submitter, SignalWorker(s)
  PROVE  WorkerInv'
  <1> USE WorkerAssumption DEF WorkerInv, TypeOK, PhaseInv, SignalWorker
  <1>1. FlagTypes'
    BY DEF FlagTypes
  <1>2. DataTypes'
    BY DEF DataTypes
  <1>3. GoroutineTypes'
    BY ReturnTypes, Zenon
  <1>4. FlagPhase'
    BY Zenon DEF FlagPhase
  <1>5. StopPhase'
    BY Zenon DEF StopPhase, BothStopped, GoroutineTypes, Submitter, Return
  <1>6. SubmitterHolds'
    BY DEF SubmitterHolds, GoroutineTypes, Return
  <1>7. ConsumerHolds'
    BY Zenon DEF ConsumerHolds
  <1>8. WakeupCovered'
    BY Zenon DEF WakeupCovered
  <1>9. DrainCovered'
    BY Zenon DEF DrainCovered, EnoughIterations
  <1>10. HandledInOrder'
    BY Zenon DEF HandledInOrder, InHand
  <1> QED
    BY <1>1, <1>2, <1>3, <1>4, <1>5, <1>6, <1>7, <1>8, <1>9, <1>10

LEMMA AnchorQuitInv ==
  ASSUME WorkerInv, AnchorQuit
  PROVE  WorkerInv'
  <1> USE WorkerAssumption DEF WorkerInv, TypeOK, PhaseInv, AnchorQuit, GoTo
  <1>1. FlagTypes' /\ DataTypes'
    <2>1. FlagTypes'
      BY Zenon DEF FlagTypes
    <2>2. DataTypes'
      BY Zenon DEF DataTypes
    <2> QED BY <2>1, <2>2, Zenon
  <1>2. GoroutineTypes'
    BY Zenon DEF GoroutineTypes, Submitter
  <1>3. FlagPhase' /\ ConsumerHolds'
    BY Zenon DEF FlagPhase, ConsumerHolds
  <1>4. StopPhase'
    BY Zenon DEF StopPhase, BothStopped, GoroutineTypes, Submitter
  <1>5. SubmitterHolds'
    BY Zenon DEF SubmitterHolds, GoroutineTypes
  <1>6. WakeupCovered' /\ DrainCovered'
    BY Zenon DEF WakeupCovered, DrainCovered, EnoughIterations, GoroutineTypes
  <1>7. HandledInOrder'
    BY Zenon DEF HandledInOrder, InHand
  <1> QED
    BY <1>1, <1>2, <1>3, <1>4, <1>5, <1>6, <1>7, Zenon

LEMMA LoopReceiveInv ==
  ASSUME WorkerInv, LoopReceive
  PROVE  WorkerInv'
  <1> USE WorkerAssumption DEF WorkerInv, TypeOK, PhaseInv, LoopReceive, StartDrain
  <1>1. FlagTypes'
    BY Zenon DEF FlagTypes
  <1>2. DataTypes'
    BY CounterGrows, Zenon DEF DataTypes
  <1>a. \/ UNCHANGED <<point, count, held>> /\ crashed'
        \/ /\ Capacity <= MaxDrain /\ UNCHANGED <<held, crashed>>
           /\ point' = [point EXCEPT !["loop"] = "check"]
           /\ count' = [count EXCEPT !["loop"] = 0]
    BY Zenon
  <1>b. "loop" \in Consumer /\ 0 \in 0 .. MaxDrain
    BY SMT DEF Consumer
  <1>3. GoroutineTypes'
    <2>1. UNCHANGED <<submitVars, held>>
      BY Zenon
    <2>2. point' \in [Consumer -> {"rest", "check", "pop", "process"}]
      <3>1. point' = point \/ point' = [point EXCEPT !["loop"] = "check"]
        BY Zenon
      <3> QED BY <3>1, Zenon DEF GoroutineTypes
    <2>3. count' \in [Consumer -> 0 .. MaxDrain]
      <3>1. count' = count \/ count' = [count EXCEPT !["loop"] = 0]
        BY Zenon
      <3>2. count \in [Consumer -> 0 .. MaxDrain]
        BY Zenon DEF GoroutineTypes
      <3> HIDE DEF WorkerInv, TypeOK, PhaseInv, LoopReceive, StartDrain
      <3> QED BY <1>b, <3>1, <3>2, Zenon
    <2> QED BY <2>1, <2>2, <2>3, Zenon DEF GoroutineTypes
  <1>4. FlagPhase' /\ SubmitterHolds'
    BY Zenon DEF FlagPhase, SubmitterHolds
  <1>5. StopPhase'
    BY DEF StopPhase, BothStopped, GoroutineTypes, Consumer
  <1>6. ConsumerHolds'
    <2>1. held["loop"] = NoEvent
      BY <1>b, Zenon DEF ConsumerHolds
    <2>2. held' = held
      BY Zenon
    <2>3. \/ UNCHANGED <<point, count>>
          \/ /\ point'["loop"] = "check"
             /\ \A c \in Consumer : c # "loop" => point'[c] = point[c] /\ count'[c] = count[c]
      BY <1>a, <1>b, Zenon DEF GoroutineTypes
    <2> QED BY <2>1, <2>2, <2>3, Zenon DEF ConsumerHolds
  <1>7. WakeupCovered'
    <2> SUFFICES ASSUME ~crashed' PROVE EnoughIterations("loop")'
      BY Zenon DEF WakeupCovered
    <2>1. /\ Capacity <= MaxDrain /\ buffer' = buffer
          /\ point'["loop"] = "check" /\ count'["loop"] = 0
      BY <1>a, <1>b, Zenon DEF GoroutineTypes
    <2>2. buffer \in Seq(Event) /\ Len(buffer) <= Capacity
      BY Zenon DEF DataTypes
    <2>3. Len(buffer) \in Nat
      BY <2>2, LenProperties, Zenon
    <2> HIDE DEF WorkerInv, TypeOK, PhaseInv, LoopReceive, StartDrain
    <2>4. Len(buffer) <= MaxDrain - 0
      BY <2>1, <2>2, <2>3, SMT
    <2> QED BY <2>1, <2>4, Zenon DEF EnoughIterations
  <1>8. DrainCovered'
    BY Zenon DEF DrainCovered, EnoughIterations, GoroutineTypes, Consumer
  <1>9. HandledInOrder'
    BY Zenon DEF HandledInOrder, InHand
  <1> QED
    BY <1>1, <1>2, <1>3, <1>4, <1>5, <1>6, <1>7, <1>8, <1>9, Zenon

LEMMA LoopEndsInv ==
  ASSUME WorkerInv, LoopExit \/ LoopExhausted
  PROVE  WorkerInv'
  <1> USE WorkerAssumption DEF WorkerInv, TypeOK, PhaseInv, LoopExit, LoopExhausted
  <1>1. FlagTypes'
    BY Zenon DEF FlagTypes
  <1>2. DataTypes' /\ GoroutineTypes'
    <2>1. UNCHANGED <<mode, bufferVars, submitVars, point, count, held, batch, shut, http,
                      metricVars, historyVars>>
      BY Zenon
    <2> QED BY <2>1, Zenon DEF DataTypes, GoroutineTypes
  <1>3. FlagPhase' /\ SubmitterHolds' /\ ConsumerHolds'
    <2>1. UNCHANGED <<submitVars, point, count, held, closing, quitClosed, signalClosed, dbOpen,
                      shut>>
      BY Zenon
    <2>2. FlagPhase'
      BY <2>1, Zenon DEF FlagPhase
    <2>3. SubmitterHolds' /\ ConsumerHolds'
      BY <2>1, Zenon DEF SubmitterHolds, ConsumerHolds
    <2> QED BY <2>2, <2>3, Zenon
  <1>4. StopPhase'
    <2>1. CASE LoopExit
      <3>1. /\ UNCHANGED <<shut, point, spc, http, waitTimedOut, signalClosed>>
            /\ point["loop"] = "rest" /\ ~loopExited /\ signalClosed
        BY <2>1, Zenon
      <3>2. ~BothStopped
        BY <3>1, Zenon DEF BothStopped
      <3> QED BY <3>1, <3>2, Zenon DEF StopPhase
    <2>2. CASE LoopExhausted
      <3>1. UNCHANGED <<shut, point, spc, http, waitTimedOut, signalClosed, loopExited>>
        BY <2>2, Zenon
      <3> QED BY <3>1, Zenon DEF StopPhase, BothStopped
    <2> QED BY <2>1, <2>2, Zenon
  <1>5. WakeupCovered' /\ DrainCovered'
    BY Zenon DEF WakeupCovered, DrainCovered, EnoughIterations
  <1>6. HandledInOrder'
    BY ZenonT(40) DEF HandledInOrder, InHand
  <1> QED
    BY <1>1, <1>2, <1>3, <1>4, <1>5, <1>6, Zenon

LEMMA DrainCheckInv ==
  ASSUME WorkerInv, NEW c \in Consumer, DrainCheck(c)
  PROVE  WorkerInv'
  <1> USE WorkerAssumption DEF WorkerInv, TypeOK, PhaseInv, DrainCheck
  <1>1. FlagTypes' /\ DataTypes'
    <2>1. FlagTypes'
      BY Zenon DEF FlagTypes
    <2>2. DataTypes'
      BY Zenon DEF DataTypes
    <2> QED BY <2>1, <2>2, Zenon
  <1>2. GoroutineTypes'
    BY Zenon DEF GoroutineTypes
  <1>3. FlagPhase' /\ SubmitterHolds'
    BY Zenon DEF FlagPhase, SubmitterHolds
  <1>4. StopPhase'
    BY Zenon DEF StopPhase, BothStopped, GoroutineTypes, Consumer
  <1>5. ConsumerHolds'
    BY Zenon DEF ConsumerHolds, GoroutineTypes
  <1>6. EnoughIterations(c) => EnoughIterations(c)'
    <2>1. buffer \in Seq(Event) /\ count \in [Consumer -> 0 .. MaxDrain] /\ UNCHANGED <<buffer, count>>
      BY Zenon DEF DataTypes, GoroutineTypes
    <2>2. Len(buffer) \in Nat /\ (Len(buffer) = 0 => buffer = <<>>)
      BY <2>1, LenProperties, EmptySeq, Zenon
    <2>3. /\ point[c] = "check"
          /\ point'[c] = IF count[c] < MaxDrain /\ buffer # <<>> THEN "pop" ELSE "rest"
      BY Zenon DEF GoroutineTypes
    <2>4. count[c] \in 0 .. MaxDrain /\ count'[c] = count[c]
      BY <2>1, Zenon
    <2> HIDE DEF WorkerInv, TypeOK, PhaseInv, DrainCheck
    <2> QED
      BY <2>1, <2>2, <2>3, <2>4, SMT DEF EnoughIterations
  <1>7. ASSUME NEW d \in Consumer, d # c PROVE EnoughIterations(d)' = EnoughIterations(d)
    BY <1>7, Zenon DEF EnoughIterations, GoroutineTypes
  <1>8. WakeupCovered' /\ DrainCovered'
    BY <1>6, <1>7, Zenon DEF WakeupCovered, DrainCovered, Consumer
  <1>9. HandledInOrder'
    BY Zenon DEF HandledInOrder, InHand
  <1> QED
    BY <1>1, <1>2, <1>3, <1>4, <1>5, <1>8, <1>9, Zenon

\* While one consumer works and waitForStop has not timed out, the other rests.
LEMMA OtherRests ==
  ASSUME WorkerInv, NEW c \in Consumer, NEW d \in Consumer, d # c, point[c] # "rest",
         ~waitTimedOut
  PROVE  point[d] = "rest" /\ held[d] = NoEvent
  BY DEF WorkerInv, PhaseInv, StopPhase, BothStopped, ConsumerHolds, Consumer

LEMMA DrainPopInv ==
  ASSUME WorkerInv, NEW c \in Consumer, DrainPop(c)
  PROVE  WorkerInv'
  <1> USE WorkerAssumption DEF WorkerInv, TypeOK, PhaseInv, DrainPop
  <1>0. buffer # <<>> => /\ Head(buffer) \in Event /\ Tail(buffer) \in Seq(Event)
                         /\ Len(Tail(buffer)) = Len(buffer) - 1
    BY HeadTailProperties, Zenon DEF DataTypes
  <1>1. FlagTypes'
    BY Zenon DEF FlagTypes
  <1>2. DataTypes'
    <2>1. CASE buffer # <<>>
      <3>1. Len(Tail(buffer)) <= Capacity
        BY <1>0, <2>1 DEF DataTypes
      <3> QED
        BY <1>0, <2>1, <3>1, Zenon DEF DataTypes
    <2>2. CASE buffer = <<>>
      BY <2>2, Zenon DEF DataTypes
    <2> QED
      BY <2>1, <2>2, Zenon
  <1>3. GoroutineTypes'
    <2>1. held' \in [Consumer -> Event \cup {NoEvent}]
      BY <1>0, Zenon DEF GoroutineTypes
    <2>2. point' \in [Consumer -> {"rest", "check", "pop", "process"}]
      <3>1. PICK p \in {"process", "rest"} : point' = [point EXCEPT ![c] = p]
        BY Zenon
      <3> QED BY <3>1, Zenon DEF GoroutineTypes
    <2> QED BY <2>1, <2>2, Zenon DEF GoroutineTypes
  <1>4. FlagPhase' /\ SubmitterHolds'
    BY Zenon DEF FlagPhase, SubmitterHolds
  <1>5. StopPhase'
    BY Zenon DEF StopPhase, BothStopped, GoroutineTypes, Consumer
  <1>6. ConsumerHolds'
    <2>1. point[c] = "pop" /\ held[c] = NoEvent /\ count[c] < MaxDrain
      BY Zenon DEF ConsumerHolds
    <2>2. /\ count' = count
          /\ \/ point' = [point EXCEPT ![c] = "rest"] /\ held' = held
             \/ /\ point' = [point EXCEPT ![c] = "process"]
                /\ held' = [held EXCEPT ![c] = Head(buffer)] /\ Head(buffer) # NoEvent
      BY <1>0, Zenon
    <2>3. DOMAIN point = Consumer /\ DOMAIN held = Consumer /\ ConsumerHolds
      BY Zenon DEF GoroutineTypes
    <2> HIDE DEF WorkerInv, TypeOK, PhaseInv, DrainPop
    <2>4. \A d \in Consumer : d # c => point'[d] = point[d] /\ held'[d] = held[d]
      BY <2>2, <2>3, Zenon
    <2>5. \/ point'[c] = "rest" /\ held'[c] = NoEvent
          \/ point'[c] = "process" /\ held'[c] # NoEvent
      BY <2>1, <2>2, <2>3, Zenon
    <2>6. count' = count
      BY <2>2, Zenon
    <2> QED BY <2>1, <2>3, <2>4, <2>5, <2>6, Zenon DEF ConsumerHolds
  <1>7. EnoughIterations(c) => EnoughIterations(c)'
    <2>1. CASE buffer = <<>>
      <3>1. point'[c] = "rest" /\ buffer' = buffer
        BY <2>1, Zenon DEF GoroutineTypes
      <3> QED BY <2>1, <3>1, Zenon DEF EnoughIterations
    <2>2. CASE buffer # <<>>
      <3>1. buffer \in Seq(Event) /\ count[c] \in 0 .. MaxDrain
        BY Zenon DEF DataTypes, GoroutineTypes
      <3>2. /\ point[c] = "pop" /\ point'[c] = "process"
            /\ buffer' = Tail(buffer) /\ count' = count
        BY <2>2, Zenon DEF GoroutineTypes
      <3>3. Len(buffer) \in Nat /\ Len(Tail(buffer)) = Len(buffer) - 1
        BY <2>2, <3>1, HeadTailProperties, LenProperties, Zenon
      <3> HIDE DEF WorkerInv, TypeOK, PhaseInv, DrainPop
      <3>4. count[c] \in Nat /\ MaxDrain \in Nat
        BY <3>1, SMT
      <3>5. Len(buffer) <= MaxDrain - count[c] => Len(buffer) - 1 < MaxDrain - count[c]
        BY <3>3, <3>4, IterationsLeft, Zenon
      <3> QED BY <3>2, <3>3, <3>5, Zenon DEF EnoughIterations
    <2> QED BY <2>1, <2>2, Zenon
  <1>8. WakeupCovered'
    BY <1>7, Zenon DEF WakeupCovered, Consumer, StopPhase, FlagPhase
  <1>9. DrainCovered'
    BY <1>7, Zenon DEF DrainCovered, Consumer, StopPhase, BothStopped
  <1>10. HandledInOrder'
    <2> SUFFICES ASSUME ~waitTimedOut, buffer # <<>>
                 PROVE  accepted' = (handled \o InHand("loop") \o InHand("drain") \o buffer)'
      BY Zenon DEF HandledInOrder, InHand
    <2>1. handled \in Seq(Event) /\ buffer \in Seq(Event)
      BY Zenon DEF DataTypes
    <2>2. held = [d \in Consumer |-> NoEvent]
      BY OtherRests, Zenon DEF ConsumerHolds, GoroutineTypes
    <2>3. accepted = handled \o buffer
      BY <2>1, <2>2, ConcatEmptySeq, Zenon DEF HandledInOrder, InHand, Consumer
    <2>4. Append(handled, Head(buffer)) = handled \o <<Head(buffer)>>
      BY <1>0, <2>1, AppendIsConcat, Zenon
    <2>5. <<Head(buffer)>> \in Seq(Event) /\ handled \o <<Head(buffer)>> \in Seq(Event)
      <3>1. <<Head(buffer)>> \in Seq(Event)
        BY <1>0, OneEventSeq, Zenon
      <3> QED BY <2>1, <3>1, ConcatProperties, Zenon
    <2>6. (handled \o InHand("loop") \o InHand("drain"))' = handled \o <<Head(buffer)>>
      <3>1. Head(buffer) # NoEvent
        BY <1>0, Zenon
      <3>2. CASE c = "loop"
        <4>1. InHand("loop")' = <<Head(buffer)>> /\ InHand("drain")' = <<>>
          BY <2>2, <3>1, <3>2 DEF InHand, Consumer
        <4> QED
          BY <2>1, <2>5, <4>1, ConcatEmptySeq, Zenon
      <3>3. CASE c = "drain"
        <4>1. InHand("loop")' = <<>> /\ InHand("drain")' = <<Head(buffer)>>
          BY <2>2, <3>1, <3>3, Zenon DEF InHand, Consumer
        <4> QED
          BY <2>1, <2>5, <4>1, ConcatEmptySeq, Zenon
      <3> QED
        BY <3>2, <3>3, Zenon DEF Consumer
    <2>7. accepted = (handled \o <<Head(buffer)>>) \o Tail(buffer)
      BY <2>1, <2>3, <2>4, PopMovesFirst, Zenon
    <2>8. accepted' = accepted /\ buffer' = Tail(buffer)
      BY Zenon
    <2> QED
      BY <2>6, <2>7, <2>8, Zenon
  <1> QED
    BY <1>1, <1>2, <1>3, <1>4, <1>5, <1>6, <1>8, <1>9, <1>10, Zenon

LEMMA ProcessHeldInv ==
  ASSUME WorkerInv, NEW c \in Consumer, ProcessHeld(c)
  PROVE  WorkerInv'
  <1> USE WorkerAssumption DEF WorkerInv, TypeOK, PhaseInv
  <1> DEFINE Panics == /\ crashed' = TRUE
                       /\ UNCHANGED <<point, count, held, handled, failed, isUnhealthy,
                                      processedEvents>>
             Returns == /\ crashed' = crashed
                        /\ isUnhealthy' \in BOOLEAN
                        /\ failed' \subseteq failed \cup {held[c]}
                        /\ processedEvents' = processedEvents + 1
                        /\ handled' = Append(handled, held[c])
                        /\ held' = [held EXCEPT ![c] = NoEvent]
                        /\ count' = [count EXCEPT ![c] = @ + 1]
                        /\ point' = [point EXCEPT ![c] = "check"]
  <1>a. Panics \/ Returns
    BY Zenon DEF ProcessHeld
  <1>b. /\ point[c] = "process" /\ ~crashed
        /\ UNCHANGED <<mode, bufferVars, submitVars, loopExited, batch, channelVars,
                       shut, http, waitTimedOut, droppedEvents, blockedSubmits,
                       submitted, accepted, lost>>
    BY Zenon DEF ProcessHeld
  <1>0. held[c] \in Event /\ count[c] + 1 \in 0 .. MaxDrain
    <2>1. held[c] \in Event \cup {NoEvent} /\ count[c] \in 0 .. MaxDrain
      BY Zenon DEF GoroutineTypes
    <2>2. held[c] # NoEvent /\ count[c] < MaxDrain
      BY <1>b, Zenon DEF ConsumerHolds
    <2> HIDE DEF WorkerInv, TypeOK, PhaseInv, ProcessHeld
    <2> QED BY <2>1, <2>2, SMT
  <1> USE <1>b
  <1>1. FlagTypes'
    BY <1>a, Zenon DEF FlagTypes
  <1>2. DataTypes'
    <2>1. CASE Panics
      BY <2>1, SMTT(30) DEF DataTypes
    <2>2. CASE Returns
      <3>1. handled' \in Seq(Event)
        BY <1>0, <2>2, AppendProperties, Zenon DEF DataTypes
      <3>2. failed \subseteq Event /\ processedEvents \in Nat
        BY Zenon DEF DataTypes
      <3>3. failed' \subseteq Event
        BY <1>0, <2>2, <3>2, Zenon
      <3>4. processedEvents' \in Nat
        BY <2>2, <3>2, CounterGrows, Zenon
      <3> QED
        BY <2>2, <3>1, <3>3, <3>4, Zenon DEF DataTypes
    <2> QED
      BY <1>a, <2>1, <2>2, Zenon
  <1>3. GoroutineTypes'
    <2>1. CASE Panics
      BY <2>1 DEF GoroutineTypes
    <2>2. CASE Returns
      BY <1>0, <2>2, Zenon DEF GoroutineTypes
    <2> QED
      BY <1>a, <2>1, <2>2, Zenon
  <1>4. FlagPhase' /\ SubmitterHolds'
    BY Zenon DEF FlagPhase, SubmitterHolds
  <1>5. StopPhase'
    BY <1>a, Zenon DEF StopPhase, BothStopped, GoroutineTypes, Consumer
  <1>6. ConsumerHolds'
    <2>1. CASE Panics
      BY <2>1, Zenon DEF ConsumerHolds
    <2>2. CASE Returns
      <3>1. \A d \in Consumer : d # c =>
              point'[d] = point[d] /\ held'[d] = held[d] /\ count'[d] = count[d]
        BY <2>2, Zenon DEF GoroutineTypes
      <3>2. point'[c] = "check" /\ held'[c] = NoEvent
        BY <2>2, Zenon DEF GoroutineTypes
      <3> QED BY <3>1, <3>2, Zenon DEF ConsumerHolds
    <2> QED BY <1>a, <2>1, <2>2, Zenon
  <1>7. EnoughIterations(c) /\ ~crashed' => EnoughIterations(c)'
    <2>1. CASE Panics
      BY <2>1, Zenon
    <2>2. CASE Returns
      <3>1. buffer \in Seq(Event) /\ count[c] \in 0 .. MaxDrain
        BY Zenon DEF DataTypes, GoroutineTypes
      <3>2. point'[c] = "check" /\ count'[c] = count[c] + 1 /\ buffer' = buffer
        BY <2>2, Zenon DEF GoroutineTypes
      <3>3. Len(buffer) \in Nat
        BY <3>1, LenProperties, Zenon
      <3> HIDE DEF WorkerInv, TypeOK, PhaseInv, ProcessHeld
      <3>4. count[c] \in Nat /\ MaxDrain \in Nat
        BY <3>1, SMT
      <3>5. Len(buffer) < MaxDrain - count[c] => Len(buffer) <= MaxDrain - (count[c] + 1)
        BY <3>3, <3>4, IterationsLeft, Zenon
      <3> QED BY <1>b, <3>2, <3>5, Zenon DEF EnoughIterations
    <2> QED BY <1>a, <2>1, <2>2, Zenon
  <1>8. WakeupCovered'
    BY <1>7, <1>a, Zenon DEF WakeupCovered, Consumer, StopPhase, FlagPhase
  <1>9. DrainCovered'
    BY <1>7, <1>a, Zenon DEF DrainCovered, Consumer, StopPhase, BothStopped
  <1>10. HandledInOrder'
    <2>1. CASE Panics
      BY <2>1, Zenon DEF HandledInOrder, InHand
    <2>2. CASE Returns
      <3> SUFFICES ASSUME ~waitTimedOut
                   PROVE  accepted' = (handled \o InHand("loop") \o InHand("drain") \o buffer)'
        BY Zenon DEF HandledInOrder
      <3>1. handled \in Seq(Event) /\ <<held[c]>> \in Seq(Event)
        <4>1. handled \in Seq(Event)
          BY Zenon DEF DataTypes
        <4> QED BY <1>0, <4>1, OneEventSeq, Zenon
      <3>2. handled' = handled \o <<held[c]>> /\ handled' \in Seq(Event)
        <4>1. Append(handled, held[c]) = handled \o <<held[c]>>
          BY <1>0, <3>1, AppendIsConcat, Zenon
        <4>2. Append(handled, held[c]) \in Seq(Event)
          BY <1>0, <3>1, AppendProperties
        <4> QED
          BY <2>2, <4>1, <4>2, SMTT(30)
      <3>3. \A d \in Consumer : held'[d] = NoEvent
        BY <2>2, OtherRests, Zenon DEF GoroutineTypes
      <3>4. (handled \o InHand("loop") \o InHand("drain"))' = handled'
        <4>1. InHand("loop")' = <<>> /\ InHand("drain")' = <<>>
          BY <3>3 DEF InHand, Consumer
        <4> QED
          BY <3>2, <4>1, ConcatEmptySeq
      <3>5. handled \o InHand("loop") \o InHand("drain") = handled \o <<held[c]>>
        <4>1. CASE c = "loop"
          <5>1. InHand("loop") = <<held[c]>> /\ InHand("drain") = <<>>
            BY <1>0, <4>1, OtherRests, Zenon DEF InHand, Consumer
          <5>2. handled \o <<held[c]>> \in Seq(Event)
            BY <3>2
          <5> QED
            BY <5>1, <5>2, ConcatEmptySeq, Zenon
        <4>2. CASE c = "drain"
          <5>1. InHand("loop") = <<>> /\ InHand("drain") = <<held[c]>>
            BY <1>0, <4>2, OtherRests DEF InHand, Consumer
          <5> QED
            BY <3>1, <5>1, ConcatEmptySeq, Zenon
        <4> QED
          BY <4>1, <4>2, Zenon DEF Consumer
      <3>6. accepted' = accepted /\ buffer' = buffer
        OBVIOUS
      <3> QED
        BY <3>2, <3>4, <3>5, <3>6, Zenon DEF HandledInOrder
    <2> QED
      BY <1>a, <2>1, <2>2, Zenon
  <1> QED
    BY <1>1, <1>2, <1>3, <1>4, <1>5, <1>6, <1>8, <1>9, <1>10, Zenon

LEMMA CloseStepInv ==
  ASSUME WorkerInv, StopHTTP \/ SetClosing \/ CloseQuit \/ CloseSignal \/ CloseDB \/ Exit
  PROVE  WorkerInv'
  <1> USE DEF WorkerInv, TypeOK, PhaseInv
  <1>1. UNCHANGED <<mode, bufferVars, submitVars, loopVars, waitTimedOut, crashed, metricVars,
                    historyVars>>
    BY Zenon DEF StopHTTP, SetClosing, CloseQuit, CloseSignal, CloseDB, Exit
  <1>2. FlagTypes'
    <2>1. CASE StopHTTP
      BY <2>1, Zenon DEF StopHTTP, FlagTypes
    <2>2. CASE SetClosing
      BY <2>2, Zenon DEF SetClosing, FlagTypes
    <2>3. CASE CloseQuit
      BY <2>3, Zenon DEF CloseQuit, FlagTypes
    <2>4. CASE CloseSignal
      BY <2>4 DEF CloseSignal, FlagTypes
    <2>5. CASE CloseDB
      BY <2>5, Zenon DEF CloseDB, FlagTypes
    <2>6. CASE Exit
      BY <2>6, Zenon DEF Exit, FlagTypes
    <2> QED
      BY <2>1, <2>2, <2>3, <2>4, <2>5, <2>6, Zenon
  <1>3. FlagPhase'
    <2>1. CASE StopHTTP
      BY <2>1, Zenon DEF StopHTTP, FlagPhase
    <2>2. CASE SetClosing
      BY <2>2, Zenon DEF SetClosing, FlagPhase
    <2>3. CASE CloseQuit
      BY <2>3, Zenon DEF CloseQuit, FlagPhase
    <2>4. CASE CloseSignal
      BY <2>4, Zenon DEF CloseSignal, FlagPhase
    <2>5. CASE CloseDB
      BY <2>5, Zenon DEF CloseDB, FlagPhase
    <2>6. CASE Exit
      BY <2>6, Zenon DEF Exit, FlagPhase
    <2> QED
      BY <2>1, <2>2, <2>3, <2>4, <2>5, <2>6, Zenon
  <1>4. StopPhase'
    <2>1. CASE StopHTTP
      BY <2>1, Zenon DEF StopHTTP, StopPhase, BothStopped
    <2>2. CASE SetClosing
      BY <2>2, Zenon DEF SetClosing, StopPhase, BothStopped
    <2>3. CASE CloseQuit
      BY <2>3, Zenon DEF CloseQuit, StopPhase, BothStopped
    <2>4. CASE CloseSignal
      BY <2>4, Zenon DEF CloseSignal, StopPhase, BothStopped
    <2>5. CASE CloseDB
      BY <2>5, Zenon DEF CloseDB, StopPhase, BothStopped
    <2>6. CASE Exit
      BY <2>6, Zenon DEF Exit, StopPhase, BothStopped
    <2> QED
      BY <2>1, <2>2, <2>3, <2>4, <2>5, <2>6, Zenon
  <1>5. /\ shut' \in {"closing", "quit", "signal", "wait", "exit", "stopped"}
        /\ http' \in {http, "stopped", "timedOut"}
        /\ signalClosed => signalClosed'
        /\ shut' \in {"drain", "exit", "stopped"}
             => shut \in {"drain", "exit", "stopped"} /\ http' = http
    <2>1. CASE StopHTTP
      BY <2>1, Zenon DEF StopHTTP, FlagTypes
    <2>2. CASE SetClosing
      BY <2>2, Zenon DEF SetClosing, FlagTypes
    <2>3. CASE CloseQuit
      BY <2>3, Zenon DEF CloseQuit, FlagTypes
    <2>4. CASE CloseSignal
      BY <2>4, Zenon DEF CloseSignal, FlagTypes
    <2>5. CASE CloseDB
      BY <2>5, Zenon DEF CloseDB, FlagTypes
    <2>6. CASE Exit
      BY <2>6, Zenon DEF Exit, FlagTypes
    <2> QED
      BY <2>1, <2>2, <2>3, <2>4, <2>5, <2>6, Zenon
  <1>6. DataTypes'
    BY <1>1, <1>5, Zenon DEF DataTypes
  <1>7. GoroutineTypes' /\ SubmitterHolds' /\ ConsumerHolds'
    BY <1>1, Zenon DEF GoroutineTypes, SubmitterHolds, ConsumerHolds
  <1>8. WakeupCovered'
    BY <1>1, <1>5 DEF WakeupCovered, EnoughIterations
  <1>9. DrainCovered'
    BY <1>1, <1>5 DEF DrainCovered, EnoughIterations
  <1>10. HandledInOrder'
    BY <1>1, Zenon DEF HandledInOrder, InHand
  <1> QED
    BY <1>2, <1>3, <1>4, <1>6, <1>7, <1>8, <1>9, <1>10, Zenon

LEMMA WaitForStopInv ==
  ASSUME WorkerInv, WaitForStop
  PROVE  WorkerInv'
  <1> USE WorkerAssumption DEF WorkerInv, TypeOK, PhaseInv, WaitForStop, StartDrain
  <1>1. FlagTypes'
    BY ZenonT(40) DEF FlagTypes
  <1>2. DataTypes'
    BY Zenon DEF DataTypes
  <1>3. GoroutineTypes'
    <2>1. point' \in [Consumer -> {"rest", "check", "pop", "process"}]
      <3>1. point' = point \/ point' = [point EXCEPT !["drain"] = "check"]
        BY Zenon
      <3> QED BY <3>1, Zenon DEF GoroutineTypes
    <2>2. count' \in [Consumer -> 0 .. MaxDrain]
      <3>1. 0 \in 0 .. MaxDrain
        BY SMT
      <3>2. count' = count \/ count' = [count EXCEPT !["drain"] = 0]
        BY Zenon
      <3> QED BY <3>1, <3>2, Zenon DEF GoroutineTypes
    <2> QED BY <2>1, <2>2, Zenon DEF GoroutineTypes
  <1>4. FlagPhase' /\ SubmitterHolds'
    BY Zenon DEF FlagPhase, SubmitterHolds
  <1>5. StopPhase'
    BY Zenon DEF StopPhase, BothStopped, GoroutineTypes, Consumer
  <1>6. ConsumerHolds'
    <2>1. point["drain"] = "rest" /\ held' = held
      BY Zenon DEF StopPhase
    <2>2. held["drain"] = NoEvent
      BY <2>1, Zenon DEF ConsumerHolds, Consumer
    <2>3. \/ UNCHANGED <<point, count>>
          \/ /\ point'["drain"] = "check"
             /\ \A c \in Consumer : c # "drain" => point'[c] = point[c] /\ count'[c] = count[c]
      BY Zenon DEF GoroutineTypes, Consumer
    <2> QED BY <2>1, <2>2, <2>3, Zenon DEF ConsumerHolds
  <1>7. WakeupCovered'
    BY Zenon DEF WakeupCovered, FlagPhase
  <1>8. DrainCovered'
    <2> SUFFICES ASSUME ~crashed' PROVE EnoughIterations("drain")'
      BY Zenon DEF DrainCovered
    <2>1. /\ Capacity <= MaxDrain /\ buffer' = buffer
          /\ point'["drain"] = "check" /\ count'["drain"] = 0
      BY Zenon DEF GoroutineTypes, Consumer
    <2>2. buffer \in Seq(Event) /\ Len(buffer) <= Capacity
      BY Zenon DEF DataTypes
    <2>3. Len(buffer) \in Nat
      BY <2>2, LenProperties, Zenon
    <2> HIDE DEF WorkerInv, TypeOK, PhaseInv, WaitForStop, StartDrain
    <2> QED BY <2>1, <2>2, <2>3, SMT DEF EnoughIterations
  <1>9. HandledInOrder'
    <2>1. UNCHANGED <<held, accepted, handled, buffer>> /\ (~waitTimedOut' => ~waitTimedOut)
      OBVIOUS
    <2> QED
      BY <2>1, Zenon DEF HandledInOrder, InHand
  <1> QED
    BY <1>1, <1>2, <1>3, <1>4, <1>5, <1>6, <1>7, <1>8, <1>9, Zenon

LEMMA NextInv == WorkerInv /\ [Next]_vars => WorkerInv'
  <1> SUFFICES ASSUME WorkerInv, [Next]_vars PROVE WorkerInv'
    OBVIOUS
  <1>1. ASSUME NEW s \in Submitter, NEW e \in Event, SubmitCall(s, e) PROVE WorkerInv'
    BY <1>1, SubmitCallInv
  <1>2. ASSUME NEW s \in Submitter, SubmitStep(s) PROVE WorkerInv'
    BY <1>2, BlockAttemptInv, BlockWaitInv, CheckRoomInv, PushEventInv, SignalWorkerInv
       DEF SubmitStep
  <1>3. CASE AnchorQuit
    BY <1>3, AnchorQuitInv
  <1>4. CASE LoopStep
    BY <1>4, LoopReceiveInv, LoopEndsInv DEF LoopStep
  <1>5. ASSUME NEW c \in Consumer, DrainStep(c) PROVE WorkerInv'
    BY <1>5, DrainCheckInv, DrainPopInv, ProcessHeldInv DEF DrainStep
  <1>6. CASE StopHTTP \/ ShutdownStep
    BY <1>6, CloseStepInv, WaitForStopInv DEF ShutdownStep
  <1>7. CASE UNCHANGED vars
    <2>1. TypeOK'
      <3>1. FlagTypes'
        BY <1>7, Zenon DEF vars, WorkerInv, TypeOK, FlagTypes
      <3>2. DataTypes'
        BY <1>7, Zenon DEF vars, WorkerInv, TypeOK, DataTypes
      <3>3. GoroutineTypes'
        BY <1>7, Zenon DEF vars, WorkerInv, TypeOK, GoroutineTypes
      <3> QED BY <3>1, <3>2, <3>3, Zenon DEF TypeOK
    <2>2. PhaseInv'
      BY <1>7, ZenonT(40)
         DEF vars, WorkerInv, PhaseInv, FlagPhase, StopPhase, BothStopped,
                  SubmitterHolds, ConsumerHolds
    <2>3. WakeupCovered' /\ DrainCovered' /\ HandledInOrder'
      BY <1>7, Zenon
         DEF vars, WorkerInv, WakeupCovered, DrainCovered, EnoughIterations,
                  HandledInOrder, InHand
    <2> QED
      BY <2>1, <2>2, <2>3, SMTT(30) DEF WorkerInv
  <1> QED
    BY <1>1, <1>2, <1>3, <1>4, <1>5, <1>6, <1>7 DEF Next, Terminated

(* In every reachable state the goroutines of the worker (worker.go) are   *)
(* where the phase of the shutdown allows, and the drain loops have enough *)
(* iterations left for what is buffered.                                   *)
THEOREM WorkerInvariant == Spec => []WorkerInv
  BY InitInv, NextInv, PTL DEF Spec

(* The one-token signal channel never loses a wake-up (worker.go:275): for *)
(* every capacity, a waiting processor with a non-empty buffer has a token *)
(* or a submitter about to send one.                                       *)
THEOREM WakeupsAreNotLost == Spec => []NoLostWakeup
  <1>1. WorkerInv => NoLostWakeup
    BY DEF WorkerInv, WakeupCovered, EnoughIterations, NoLostWakeup
  <1> QED
    BY <1>1, WorkerInvariant, PTL

(* Unless waitForStop times out, accepted events go through ProcessEvent   *)
(* once and in the order in which Push accepted them.                      *)
THEOREM EventsAreHandledInOrder == Spec => []HandledInOrder
  <1>1. WorkerInv => HandledInOrder
    BY DEF WorkerInv
  <1> QED
    BY <1>1, WorkerInvariant, PTL

(* Unless waitForStop times out, processEvents and drainBuffer never use   *)
(* the EventProcessor at the same time, nor a closed database.             *)
THEOREM ProcessorHasOneUser == Spec => []OneConsumer
  <1>1. WorkerInv => OneConsumer
    BY Zenon DEF WorkerInv, PhaseInv, FlagPhase, StopPhase, BothStopped, Consumer, OneConsumer,
           TypeOK, DataTypes
  <1> QED
    BY <1>1, WorkerInvariant, PTL

(* A shutdown in which nothing timed out or crashed has processed every    *)
(* event that was submitted and not dropped (Shutdown, worker.go:333).     *)
THEOREM OrderlyShutdownLosesNothing == Spec => []OrderlyShutdownDrains
  <1>1. WorkerInv => OrderlyShutdownDrains
    <2> SUFFICES ASSUME WorkerInv, shut = "stopped", http = "stopped", ~waitTimedOut, ~crashed
                 PROVE  /\ buffer = <<>> /\ \A c \in Consumer : held[c] = NoEvent
                        /\ \A s \in Submitter : arg[s] = NoEvent
      BY DEF OrderlyShutdownDrains
    <2>1. \A c \in Consumer : point[c] = "rest"
      BY DEF WorkerInv, PhaseInv, StopPhase, BothStopped, Consumer
    <2>2. buffer = <<>>
      BY <2>1 DEF WorkerInv, DrainCovered, EnoughIterations, Consumer
    <2>3. \A c \in Consumer : held[c] = NoEvent
      BY <2>1, SMTT(30) DEF WorkerInv, PhaseInv, ConsumerHolds
    <2>4. \A s \in Submitter : arg[s] = NoEvent
      BY Zenon DEF WorkerInv, PhaseInv, StopPhase, BothStopped, SubmitterHolds, Submitter
    <2> QED
      BY <2>2, <2>3, <2>4
  <1> QED
    BY <1>1, WorkerInvariant, PTL

-----------------------------------------------------------------------------
\* The counters of Stats.

\* The submitters and the consumers with an event in their hands.
Holding == {s \in Submitter : arg[s] # NoEvent}
Taken   == {c \in Consumer : held[c] # NoEvent}

\* Each event in the hands of a submitter was submitted by it alone, and a lost
\* one is in nobody's hands: what UncountedAreRefused counts, it counts once.
CountedOnce ==
  /\ IsFiniteSet(submitted) /\ lost \subseteq submitted
  /\ IsFiniteSet(Holding)
  /\ \A s \in Submitter : arg[s] # NoEvent => arg[s] \in submitted /\ arg[s] \notin lost
  /\ \A s, t \in Submitter : arg[s] # NoEvent /\ arg[s] = arg[t] => s = t

Total(p, d, l, b, t, h) == p + d + l + b + t + h

Balance ==
  Cardinality(submitted) = Total(processedEvents, droppedEvents, Cardinality(lost),
                                 Len(buffer), Cardinality(Taken), Cardinality(Holding))

StatsInv == CountedOnce /\ Balance

(* The numbers that are added up are natural numbers.                      *)
LEMMA StatsTypes ==
  ASSUME WorkerInv, CountedOnce
  PROVE  /\ Cardinality(submitted) \in Nat /\ Cardinality(Holding) \in Nat
         /\ IsFiniteSet(lost) /\ Cardinality(lost) \in Nat
         /\ IsFiniteSet(Taken) /\ Cardinality(Taken) \in Nat
         /\ Len(buffer) \in Nat /\ processedEvents \in Nat /\ droppedEvents \in Nat
<1>1. Cardinality(submitted) \in Nat /\ Cardinality(Holding) \in Nat
  BY FS_CardinalityType, Zenon DEF CountedOnce
<1>2. IsFiniteSet(lost)
  BY FS_Subset, Zenon DEF CountedOnce
<1>3. IsFiniteSet(Consumer)
  <2>1. IsFiniteSet({"loop"})
    BY FS_Singleton, Zenon
  <2>2. IsFiniteSet({"loop"} \cup {"drain"})
    BY <2>1, FS_AddElement, Zenon
  <2>3. Consumer = {"loop"} \cup {"drain"}
    BY Zenon DEF Consumer
  <2> QED BY <2>2, <2>3, Zenon
<1>4. IsFiniteSet(Taken)
  <2>1. Taken \in SUBSET Consumer
    BY Zenon DEF Taken
  <2> QED BY <1>3, <2>1, FS_Subset, Zenon
<1>5. buffer \in Seq(Event) /\ processedEvents \in Nat /\ droppedEvents \in Nat
  BY Zenon DEF WorkerInv, TypeOK, DataTypes
<1>6. Len(buffer) \in Nat
  BY <1>5, LenProperties, Zenon
<1> QED BY <1>1, <1>2, <1>4, <1>5, <1>6, FS_CardinalityType, Zenon

(* A submitter whose event is dropped, lost or pushed.                     *)
LEMMA ReleaseEvent ==
  ASSUME WorkerInv, CountedOnce, NEW s \in Submitter, arg[s] # NoEvent,
         arg' = [arg EXCEPT ![s] = NoEvent], UNCHANGED submitted,
         lost' \in {lost, lost \cup {arg[s]}}
  PROVE  /\ CountedOnce'
         /\ Cardinality(Holding') = Cardinality(Holding) - 1
         /\ lost' # lost => Cardinality(lost') = Cardinality(lost) + 1
<1>1. /\ arg'[s] = NoEvent
      /\ \A t \in Submitter : t # s => arg'[t] = arg[t]
  BY Zenon DEF WorkerInv, TypeOK, GoroutineTypes
<1>2. Holding' = Holding \ {s} /\ s \in Holding
  BY <1>1, Zenon DEF Holding
<1>3. IsFiniteSet(Holding') /\ Cardinality(Holding') = Cardinality(Holding) - 1
  BY <1>2, FS_RemoveElement, Zenon DEF CountedOnce
<1>4. arg[s] \in submitted /\ arg[s] \notin lost
  BY Zenon DEF CountedOnce
<1>5. lost' \subseteq submitted'
  BY <1>4, Zenon DEF CountedOnce
<1>6. \A t \in Submitter : arg'[t] # NoEvent => arg'[t] \in submitted' /\ arg'[t] \notin lost'
  <2> SUFFICES ASSUME NEW t \in Submitter, arg'[t] # NoEvent
               PROVE  arg'[t] \in submitted' /\ arg'[t] \notin lost'
    BY Zenon
  <2>1. t # s /\ arg'[t] = arg[t]
    BY <1>1, Zenon
  <2>2. arg[t] # arg[s] /\ arg[t] \in submitted /\ arg[t] \notin lost
    BY <2>1, Zenon DEF CountedOnce
  <2>3. CASE lost' = lost
    BY <2>1, <2>2, <2>3, SMT
  <2>4. CASE lost' = lost \cup {arg[s]}
    BY <2>1, <2>2, <2>4, SMT
  <2> QED BY <2>3, <2>4, Zenon
<1>7. \A t, u \in Submitter : arg'[t] # NoEvent /\ arg'[t] = arg'[u] => t = u
  <2> SUFFICES ASSUME NEW t \in Submitter, NEW u \in Submitter,
                      arg'[t] # NoEvent, arg'[t] = arg'[u]
               PROVE  t = u
    BY Zenon
  <2>1. t # s /\ u # s
    BY <1>1, Zenon
  <2> QED BY <1>1, <2>1, Zenon DEF CountedOnce
<1>8. lost' # lost => Cardinality(lost') = Cardinality(lost) + 1
  BY <1>4, StatsTypes, FS_AddElement, Zenon
<1>9. IsFiniteSet(submitted')
  BY Zenon DEF CountedOnce
<1> QED BY <1>3, <1>5, <1>6, <1>7, <1>8, <1>9, Zenon DEF CountedOnce

(* A submitter that returns without an event, or goes on with the same.    *)
LEMMA NothingReleased ==
  ASSUME WorkerInv, StatsInv, UNCHANGED arg,
         UNCHANGED <<submitted, lost, processedEvents, droppedEvents, buffer, held>>
  PROVE  StatsInv'
BY Zenon DEF StatsInv, CountedOnce, Balance, Holding, Taken

(* What one event that changes its place does to the total.                *)
LEMMA TotalMoves ==
  ASSUME WorkerInv, CountedOnce
  PROVE  LET p == processedEvents
             d == droppedEvents
             l == Cardinality(lost)
             b == Len(buffer)
             t == Cardinality(Taken)
             h == Cardinality(Holding)
         IN  /\ Total(p, d, l, b, t, h) + 1 = Total(p, d + 1, l, b, t, h)
             /\ Total(p, d, l, b, t, h) + 1 = Total(p, d, l, b, t, h + 1)
             /\ Total(p, d, l, b, t, h) = Total(p, d + 1, l, b, t, h - 1)
             /\ Total(p, d, l, b, t, h) = Total(p, d, l + 1, b, t, h - 1)
             /\ Total(p, d, l, b, t, h) = Total(p, d, l, b + 1, t, h - 1)
             /\ Total(p, d, l, b, t, h) = Total(p, d, l, b - 1, t + 1, h)
             /\ Total(p, d, l, b, t, h) = Total(p + 1, d, l, b, t - 1, h)
<1> DEFINE p == processedEvents
           d == droppedEvents
           l == Cardinality(lost)
           b == Len(buffer)
           t == Cardinality(Taken)
           h == Cardinality(Holding)
<1>1. p \in Nat /\ d \in Nat /\ l \in Nat /\ b \in Nat /\ t \in Nat /\ h \in Nat
  BY StatsTypes, Zenon
<1> HIDE DEF p, d, l, b, t, h
<1>2. /\ Total(p, d, l, b, t, h) + 1 = Total(p, d + 1, l, b, t, h)
      /\ Total(p, d, l, b, t, h) + 1 = Total(p, d, l, b, t, h + 1)
      /\ Total(p, d, l, b, t, h) = Total(p, d + 1, l, b, t, h - 1)
      /\ Total(p, d, l, b, t, h) = Total(p, d, l + 1, b, t, h - 1)
      /\ Total(p, d, l, b, t, h) = Total(p, d, l, b + 1, t, h - 1)
      /\ Total(p, d, l, b, t, h) = Total(p, d, l, b - 1, t + 1, h)
      /\ Total(p, d, l, b, t, h) = Total(p + 1, d, l, b, t - 1, h)
  BY <1>1, SMT DEF Total
<1> QED BY <1>2, Zenon DEF p, d, l, b, t, h

LEMMA SubmitCallStats ==
  ASSUME WorkerInv, StatsInv, NEW s \in Submitter, NEW e \in Event, SubmitCall(s, e)
  PROVE  StatsInv'
<1>1. /\ spc[s] = "idle" /\ e \notin submitted /\ submitted' = submitted \cup {e}
      /\ UNCHANGED <<buffer, held, lost, processedEvents>>
  BY Zenon DEF SubmitCall, DropEvent
<1>2. arg[s] = NoEvent
  BY <1>1, Zenon DEF WorkerInv, PhaseInv, SubmitterHolds
<1>3. IsFiniteSet(submitted') /\ Cardinality(submitted') = Cardinality(submitted) + 1
  BY <1>1, FS_AddElement, Zenon DEF StatsInv, CountedOnce
<1>4. Taken' = Taken
  BY <1>1, Zenon DEF Taken
<1>5. CASE arg' = [arg EXCEPT ![s] = NoEvent] /\ droppedEvents' = droppedEvents + 1
  <2>1. arg' = arg
    BY <1>2, <1>5, Zenon DEF WorkerInv, TypeOK, GoroutineTypes
  <2>2. CountedOnce' /\ Holding' = Holding
    BY <1>1, <1>3, <2>1, Zenon DEF StatsInv, CountedOnce, Holding
  <2> QED BY <1>1, <1>3, <1>4, <1>5, <2>2, TotalMoves, Zenon DEF StatsInv, Balance
<1>6. CASE arg' = [arg EXCEPT ![s] = e] /\ UNCHANGED droppedEvents
  <2>1. arg'[s] = e /\ \A t \in Submitter : t # s => arg'[t] = arg[t]
    BY <1>6, Zenon DEF WorkerInv, TypeOK, GoroutineTypes
  <2>2. e # NoEvent
    BY WorkerAssumption, Zenon
  <2>3. Holding' = Holding \cup {s} /\ s \notin Holding
    <3>1. \A t \in Submitter : arg'[t] # NoEvent <=> t = s \/ arg[t] # NoEvent
      BY <2>1, <2>2, Zenon
    <3> QED BY <1>2, <3>1, Zenon DEF Holding
  <2>4. IsFiniteSet(Holding') /\ Cardinality(Holding') = Cardinality(Holding) + 1
    BY <2>3, FS_AddElement, Zenon DEF StatsInv, CountedOnce
  <2>5. \A t \in Submitter :
          arg'[t] # NoEvent => arg'[t] \in submitted' /\ arg'[t] \notin lost'
    BY <1>1, <2>1, Zenon DEF StatsInv, CountedOnce
  <2>6. \A t, u \in Submitter : arg'[t] # NoEvent /\ arg'[t] = arg'[u] => t = u
    BY <1>1, <2>1, <2>2, Zenon DEF StatsInv, CountedOnce
  <2>7. CountedOnce'
    BY <1>1, <1>3, <2>4, <2>5, <2>6, Zenon DEF StatsInv, CountedOnce
  <2> QED BY <1>1, <1>3, <1>4, <1>6, <2>4, <2>7, TotalMoves, Zenon DEF StatsInv, Balance
<1> QED BY <1>5, <1>6, Zenon DEF SubmitCall, DropEvent, Return

(* BlockWait and CheckRoom drop the event of their submitter, or keep it.  *)
LEMMA MoveStats ==
  ASSUME WorkerInv, StatsInv, NEW s \in Submitter,
         BlockAttempt(s) \/ BlockWait(s) \/ CheckRoom(s)
  PROVE  StatsInv'
<1>1. /\ spc[s] \in {"attempt", "blocked", "room"}
      /\ UNCHANGED <<submitted, lost, buffer, held, processedEvents>>
  BY Zenon DEF BlockAttempt, BlockWait, CheckRoom, DropEvent
<1>2. arg[s] # NoEvent
  BY <1>1, Zenon DEF WorkerInv, PhaseInv, SubmitterHolds
<1>3. CASE UNCHANGED <<arg, droppedEvents>>
  BY <1>1, <1>3, NothingReleased, Zenon
<1>4. CASE arg' = [arg EXCEPT ![s] = NoEvent] /\ droppedEvents' = droppedEvents + 1
  <2>1. CountedOnce' /\ Cardinality(Holding') = Cardinality(Holding) - 1
    BY <1>1, <1>2, <1>4, ReleaseEvent, Zenon DEF StatsInv
  <2>2. Taken' = Taken
    BY <1>1, Zenon DEF Taken
  <2> QED BY <1>1, <1>4, <2>1, <2>2, TotalMoves, Zenon DEF StatsInv, Balance
<1> QED BY <1>3, <1>4, Zenon
           DEF BlockAttempt, BlockWait, CheckRoom, DropEvent, Return, GoTo

LEMMA PushEventStats ==
  ASSUME WorkerInv, StatsInv, NEW s \in Submitter, PushEvent(s)
  PROVE  StatsInv'
<1>1. /\ spc[s] = "push" /\ arg' = [arg EXCEPT ![s] = NoEvent]
      /\ UNCHANGED <<submitted, held, processedEvents, droppedEvents>>
  BY Zenon DEF PushEvent, Return
<1>2. arg[s] # NoEvent /\ arg[s] \in Event
  BY <1>1, Zenon DEF WorkerInv, PhaseInv, SubmitterHolds, TypeOK, GoroutineTypes
<1>3. arg[s] \notin lost
  BY <1>2, Zenon DEF StatsInv, CountedOnce
<1>4. Taken' = Taken
  BY <1>1, Zenon DEF Taken
<1>5. CASE lost' = lost \cup {arg[s]} /\ UNCHANGED buffer
  <2>1. lost' # lost
    BY <1>3, <1>5, Zenon
  <2>2. /\ CountedOnce' /\ Cardinality(Holding') = Cardinality(Holding) - 1
        /\ Cardinality(lost') = Cardinality(lost) + 1
    BY <1>1, <1>2, <1>5, <2>1, ReleaseEvent, Zenon DEF StatsInv
  <2> QED BY <1>1, <1>4, <1>5, <2>2, TotalMoves, Zenon DEF StatsInv, Balance
<1>6. CASE buffer' = Append(buffer, arg[s]) /\ UNCHANGED lost
  <2>1. CountedOnce' /\ Cardinality(Holding') = Cardinality(Holding) - 1
    BY <1>1, <1>2, <1>6, ReleaseEvent, Zenon DEF StatsInv
  <2>2. buffer \in Seq(Event)
    BY Zenon DEF WorkerInv, TypeOK, DataTypes
  <2>3. Len(buffer') = Len(buffer) + 1
    BY <1>2, <1>6, <2>2, AppendProperties, Zenon
  <2> QED BY <1>1, <1>4, <1>6, <2>1, <2>3, TotalMoves, Zenon DEF StatsInv, Balance
<1> QED BY <1>5, <1>6, Zenon DEF PushEvent

LEMMA DrainPopStats ==
  ASSUME WorkerInv, StatsInv, NEW c \in Consumer, DrainPop(c)
  PROVE  StatsInv'
<1>1. /\ point[c] = "pop"
      /\ UNCHANGED <<arg, submitted, lost, processedEvents, droppedEvents>>
  BY Zenon DEF DrainPop
<1>2. buffer \in Seq(Event)
  BY Zenon DEF WorkerInv, TypeOK, DataTypes
<1>3. CASE buffer # <<>> /\ buffer' = Tail(buffer) /\ held' = [held EXCEPT ![c] = Head(buffer)]
  <2>1. Head(buffer) \in Event /\ Len(buffer') = Len(buffer) - 1
    BY <1>2, <1>3, HeadTailProperties, Zenon
  <2>2. Head(buffer) # NoEvent
    BY <2>1, WorkerAssumption, Zenon
  <2>3. held[c] = NoEvent
    BY <1>1, Zenon DEF WorkerInv, PhaseInv, ConsumerHolds
  <2>4. held'[c] = Head(buffer) /\ \A d \in Consumer : d # c => held'[d] = held[d]
    BY <1>3, Zenon DEF WorkerInv, TypeOK, GoroutineTypes
  <2>5. Taken' = Taken \cup {c} /\ c \notin Taken
    BY <2>2, <2>3, <2>4, Zenon DEF Taken
  <2>6. Cardinality(Taken') = Cardinality(Taken) + 1
    BY <2>5, StatsTypes, FS_AddElement, Zenon DEF StatsInv
  <2>7. CountedOnce' /\ Holding' = Holding
    BY <1>1, Zenon DEF StatsInv, CountedOnce, Holding
  <2> QED BY <1>1, <2>1, <2>6, <2>7, TotalMoves, Zenon DEF StatsInv, Balance
<1>4. CASE UNCHANGED <<buffer, held>>
  BY <1>1, <1>4, NothingReleased, Zenon
<1> QED BY <1>3, <1>4, Zenon DEF DrainPop

LEMMA ProcessHeldStats ==
  ASSUME WorkerInv, StatsInv, NEW c \in Consumer, ProcessHeld(c)
  PROVE  StatsInv'
<1>1. /\ point[c] = "process"
      /\ UNCHANGED <<arg, submitted, lost, buffer, droppedEvents>>
  BY Zenon DEF ProcessHeld
<1>2. CASE held' = [held EXCEPT ![c] = NoEvent] /\ processedEvents' = processedEvents + 1
  <2>1. held[c] # NoEvent
    BY <1>1, Zenon DEF WorkerInv, PhaseInv, ConsumerHolds
  <2>2. held'[c] = NoEvent /\ \A d \in Consumer : d # c => held'[d] = held[d]
    BY <1>2, Zenon DEF WorkerInv, TypeOK, GoroutineTypes
  <2>3. Taken' = Taken \ {c} /\ c \in Taken
    BY <2>1, <2>2, Zenon DEF Taken
  <2>4. Cardinality(Taken') = Cardinality(Taken) - 1
    BY <2>3, StatsTypes, FS_RemoveElement, Zenon DEF StatsInv
  <2>5. CountedOnce' /\ Holding' = Holding
    BY <1>1, Zenon DEF StatsInv, CountedOnce, Holding
  <2> QED BY <1>1, <1>2, <2>4, <2>5, TotalMoves, Zenon DEF StatsInv, Balance
<1>3. CASE UNCHANGED <<held, processedEvents>>
  BY <1>1, <1>3, NothingReleased, Zenon
<1> QED BY <1>2, <1>3, Zenon DEF ProcessHeld

LEMMA StatsStep ==
  ASSUME WorkerInv, StatsInv, [Next]_vars
  PROVE  StatsInv'
<1>1. ASSUME NEW s \in Submitter, SignalWorker(s) PROVE StatsInv'
  <2>1. /\ spc[s] = "signal" /\ arg' = [arg EXCEPT ![s] = NoEvent]
        /\ UNCHANGED <<submitted, lost, processedEvents, droppedEvents, buffer, held>>
    BY <1>1, Zenon DEF SignalWorker, Return
  <2>2. arg[s] = NoEvent
    BY <2>1, Zenon DEF WorkerInv, PhaseInv, SubmitterHolds
  <2>3. arg' = arg
    BY <2>1, <2>2, Zenon DEF WorkerInv, TypeOK, GoroutineTypes
  <2> QED BY <2>1, <2>3, NothingReleased, Zenon
<1>2. ASSUME NEW s \in Submitter, SubmitStep(s) PROVE StatsInv'
  BY <1>1, <1>2, MoveStats, PushEventStats, Zenon DEF SubmitStep
<1>3. CASE AnchorQuit \/ LoopStep \/ StopHTTP \/ ShutdownStep
            \/ (\E c \in Consumer : DrainCheck(c)) \/ UNCHANGED vars
  <2>1. UNCHANGED <<arg, submitted, lost, processedEvents, droppedEvents, buffer, held>>
    <3>1. CASE AnchorQuit \/ StopHTTP \/ (\E c \in Consumer : DrainCheck(c)) \/ UNCHANGED vars
      BY <3>1, Zenon DEF AnchorQuit, GoTo, StopHTTP, DrainCheck, vars
    <3>2. CASE LoopStep
      BY <3>2, Zenon DEF LoopStep, LoopReceive, LoopExit, LoopExhausted, StartDrain
    <3>3. CASE ShutdownStep
      BY <3>3, Zenon DEF ShutdownStep, SetClosing, CloseQuit, CloseSignal, WaitForStop,
         CloseDB, Exit, StartDrain
    <3> QED BY <1>3, <3>1, <3>2, <3>3, Zenon
  <2> QED BY <2>1, NothingReleased, Zenon
<1> QED BY <1>2, <1>3, SubmitCallStats, DrainPopStats, ProcessHeldStats, Zenon
           DEF Next, DrainStep, Terminated

(* The counters that Stats returns (worker.go:283) miss only the events    *)
(* that Push refused, in every interleaving of submitters and consumers:   *)
(* every other event is processed, dropped, buffered, or in the hands of   *)
(* one goroutine.                                                          *)
THEOREM UncountedWereRefused == Spec => []UncountedAreRefused
<1>1. Init => StatsInv
  <2> SUFFICES ASSUME Init PROVE StatsInv
    OBVIOUS
  <2>1. /\ submitted = {} /\ lost = {} /\ buffer = <<>>
        /\ processedEvents = 0 /\ droppedEvents = 0
        /\ arg = [s \in Submitter |-> NoEvent] /\ held = [c \in Consumer |-> NoEvent]
    BY Zenon DEF Init
  <2>2. Holding = {} /\ Taken = {}
    BY <2>1, Zenon DEF Holding, Taken
  <2>3. IsFiniteSet({}) /\ Cardinality({}) = 0
    BY FS_EmptySet, Zenon
  <2>4. CountedOnce
    BY <2>1, <2>2, <2>3, Zenon DEF CountedOnce
  <2>5. Len(buffer) = 0
    BY <2>1, EmptySeq
  <2>6. 0 = Total(0, 0, 0, 0, 0, 0)
    BY DEF Total
  <2> QED BY <2>1, <2>2, <2>3, <2>4, <2>5, <2>6, Zenon DEF StatsInv, Balance
<1>2. WorkerInv /\ StatsInv /\ [Next]_vars => StatsInv'
  BY StatsStep, Zenon
<1>3. StatsInv => UncountedAreRefused
  BY Zenon DEF StatsInv, Balance, Total, UncountedAreRefused, Holding, Taken
<1> QED BY <1>1, <1>2, <1>3, WorkerInvariant, PTL DEF Spec

\* The counter of processed events, and the failures that the health flag shows.
CountInv ==
  /\ processedEvents = Len(handled)
  /\ ~isUnhealthy => failed = {}

(* As long as isUnhealthy was not set (worker.go), the counter of          *)
(* processed events is the number of events that were written, whichever   *)
(* of processEvents and drainBuffer processed them.                        *)
THEOREM HealthyMeansWritten == Spec => []HealthyCountIsExact
<1>1. Init => CountInv
  BY EmptySeq DEF Init, CountInv
<1>2. ASSUME WorkerInv, CountInv, [Next]_vars PROVE CountInv'
  <2>1. ASSUME NEW c \in Consumer, ProcessHeld(c) PROVE CountInv'
    <3>1. point[c] = "process"
      BY <2>1, Zenon DEF ProcessHeld
    <3>2. held[c] \in Event /\ handled \in Seq(Event)
      BY <1>2, <3>1, Zenon DEF WorkerInv, PhaseInv, ConsumerHolds, TypeOK, GoroutineTypes, DataTypes
    <3>3. CASE UNCHANGED <<handled, failed, isUnhealthy, processedEvents>>
      BY <1>2, <3>3, Zenon DEF CountInv
    <3>4. CASE /\ isUnhealthy' \/ (~isUnhealthy /\ failed' = failed)
               /\ processedEvents' = processedEvents + 1
               /\ handled' = Append(handled, held[c])
      <4>1. Len(handled') = Len(handled) + 1
        BY <3>2, <3>4, AppendProperties, Zenon
      <4> QED BY <1>2, <3>4, <4>1, Zenon DEF CountInv
    <3>5. \/ UNCHANGED <<handled, failed, isUnhealthy, processedEvents>>
          \/ /\ isUnhealthy' \/ (~isUnhealthy /\ failed' = failed)
             /\ processedEvents' = processedEvents + 1
             /\ handled' = Append(handled, held[c])
      BY <2>1, Zenon DEF ProcessHeld
    <3> QED BY <3>3, <3>4, <3>5, Zenon
  <2>2. CASE ~ \E c \in Consumer : ProcessHeld(c)
    <3>1. UNCHANGED <<handled, failed, isUnhealthy, processedEvents>>
      <4>1. ASSUME NEW s \in Submitter, NEW e \in Event, SubmitCall(s, e)
            PROVE  UNCHANGED <<handled, failed, isUnhealthy, processedEvents>>
        BY <4>1, Zenon DEF SubmitCall, DropEvent
      <4>2. ASSUME NEW s \in Submitter, SubmitStep(s)
            PROVE  UNCHANGED <<handled, failed, isUnhealthy, processedEvents>>
        BY <4>2, Zenon DEF SubmitStep, BlockAttempt, BlockWait, CheckRoom, PushEvent,
           SignalWorker, DropEvent
      <4>3. ASSUME NEW c \in Consumer, DrainCheck(c) \/ DrainPop(c)
            PROVE  UNCHANGED <<handled, failed, isUnhealthy, processedEvents>>
        BY <4>3, Zenon DEF DrainCheck, DrainPop
      <4>4. CASE AnchorQuit \/ LoopStep \/ StopHTTP \/ UNCHANGED vars
        BY <4>4, Zenon DEF AnchorQuit, StopHTTP, LoopStep, LoopReceive, LoopExit,
           LoopExhausted, vars
      <4>5. CASE ShutdownStep
        BY <4>5, Zenon DEF ShutdownStep, SetClosing, CloseQuit, CloseSignal, WaitForStop,
           CloseDB, Exit
      <4> QED BY <1>2, <2>2, <4>1, <4>2, <4>3, <4>4, <4>5, Zenon DEF Next, DrainStep, Terminated
    <3> QED BY <1>2, <3>1, Zenon DEF CountInv
  <2> QED BY <2>1, <2>2, Zenon
<1>3. WorkerInv /\ CountInv => HealthyCountIsExact
  <2> SUFFICES ASSUME WorkerInv, CountInv, ~isUnhealthy
               PROVE  processedEvents = Len(handled) - Cardinality(failed)
    BY Zenon DEF HealthyCountIsExact
  <2>1. Cardinality(failed) = 0
    BY FS_EmptySet, Zenon DEF CountInv
  <2>2. processedEvents = Len(handled) /\ processedEvents \in Nat
    BY Zenon DEF CountInv, WorkerInv, TypeOK, DataTypes
  <2> QED BY <2>1, <2>2
<1> QED BY <1>1, <1>2, <1>3, WorkerInvariant, PTL DEF Spec

-----------------------------------------------------------------------------

(* The worker on the ring (worker.go:225-280, 392-426, 465-498 calling     *)
(* buffer.go) takes only steps that module Worker allows, so that all that *)
(* is proved above of Worker holds of it.                                  *)
THEOREM RingWorkerIsWorker == WorkerRingSpec => Spec
<1>1. WorkerRingInit => Init
  BY Zenon DEF WorkerRingInit
<1>2. ASSUME [WorkerRingNext]_<<vars, ring>> PROVE [Next]_vars
  <2>1. ASSUME NEW s \in Submitter, PushToRing(s) PROVE Next
    BY <2>1, Zenon DEF PushToRing, SubmitStep, Next
  <2>2. ASSUME NEW c \in Consumer, PopFromRing(c) PROVE Next
    BY <2>2, Zenon DEF PopFromRing, DrainStep, Next
  <2>3. OtherStep => Next
    BY Zenon DEF OtherStep, SubmitStep, DrainStep, Next
  <2>4. CASE UNCHANGED <<vars, ring>>
    BY <2>4
  <2> QED
    BY <1>2, <2>1, <2>2, <2>3, <2>4, Zenon DEF WorkerRingNext
<1> QED
  BY <1>1, <1>2, PTL DEF WorkerRingSpec, Spec

(* Of the ring the worker makes only calls of its methods (buffer.go), and *)
(* pushes only events (worker.go:269), so that the theorems about          *)
(* RingBuffer hold of the ring in the worker.                              *)
THEOREM WorkerUsesRing == WorkerRingSpec => Ring!Spec
<1>1. WorkerRingInit => Ring!New
  BY Zenon DEF WorkerRingInit
<1>2. ASSUME WorkerInv, [WorkerRingNext]_<<vars, ring>> PROVE [Ring!Next]_(Ring!vars)
  <2>1. ASSUME NEW s \in Submitter, PushToRing(s) PROVE Ring!Next
    <3>1. arg[s] \in Event
      BY <1>2, <2>1, Zenon DEF WorkerInv, TypeOK, GoroutineTypes, PhaseInv, SubmitterHolds,
         PushToRing, PushEvent
    <3> QED
      BY <2>1, <3>1, Zenon DEF PushToRing, Ring!Next
  <2>2. ASSUME NEW c \in Consumer, PopFromRing(c) PROVE Ring!Next
    BY <2>2, Zenon DEF PopFromRing, Ring!Next
  <2>3. CASE UNCHANGED ring
    BY <2>3, Zenon DEF ring, Ring!vars
  <2> QED
    BY <1>2, <2>1, <2>2, <2>3, Zenon DEF WorkerRingNext
<1> QED
  BY <1>1, <1>2, RingWorkerIsWorker, WorkerInvariant, PTL DEF WorkerRingSpec, Ring!Spec
=============================================================================
