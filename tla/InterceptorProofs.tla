-------------------------- MODULE InterceptorProofs --------------------------
(***************************************************************************)
(* Proofs about the interceptor, for any number of requests and buffers,   *)
(* any policies, bodies and reloads: a buffer in use belongs to one        *)
(* handler, every recorded event is about the message it was made for, and *)
(* the tag of a call follows one policy.                                   *)
(***************************************************************************)
EXTENDS Interceptor, SequenceTheorems, WellFoundedInduction, TLAPS

-----------------------------------------------------------------------------
\* Buffers and messages.

(* Nothing is read, parsed or recorded at the start.                       *)
LEMMA InterceptorStarts == InterceptorInit => InterceptorInv
<1> SUFFICES ASSUME InterceptorInit PROVE InterceptorInv
  OBVIOUS
<1> USE DEF InterceptorInit
<1>1. InterceptorTypeOK
  BY DEF InterceptorTypeOK
<1>2. CallOK
  BY DEF CallOK, NoCall, TaskId
<1>3. BufferExclusive /\ OwnBytes
  BY DEF BufferExclusive, OwnBytes, InUse, Handling
<1>4. RecordsOwnBody
  BY DEF RecordsOwnBody
<1> QED
  BY <1>1, <1>2, <1>3, <1>4 DEF InterceptorInv

(* Submit appends one event about the message in hand, or nothing.         *)
LEMMA SubmitRecordsOwn ==
  ASSUME InterceptorInv, NEW r \in Request, NEW id \in Message,
         call[r].of = id, Submit(r, id)
  PROVE  ledger' \in Seq(Event) /\ RecordsOwnBody'
<1> DEFINE e == [id |-> id, of |-> call[r].of, task |-> call[r].task,
                 parent |-> IF id[1] = "request" THEN parent[r] ELSE NoEvent]
<1>1. ledger \in Seq(Event) /\ RecordsOwnBody
  BY DEF InterceptorInv, CallOK
<1>2. call[r].task \in TaskId /\ parent[r] \in Request \cup {NoEvent}
  BY DEF InterceptorInv, CallOK, InterceptorTypeOK
<1>3. e \in Event /\ e.id = id /\ e.of = id
  BY <1>2 DEF Event
<1>4. ledger' = Append(ledger, e) \/ ledger' = ledger
  BY DEF Submit
<1> HIDE DEF e
<1> QED
  BY <1>1, <1>3, <1>4 DEF RecordsOwnBody

(* The parsed body of a request has a task or none.                        *)
LEMMA BodyTask == \A b \in Body \cup {NoBody} : b.task \in Task \cup {NoTask}
BY DEF Task, NoBody

(* A handler that ends early gives its buffer back (server.go:60-61).      *)
LEMMA GivesUpKeeps ==
  ASSUME InterceptorInv, NEW r \in Request, Handling(r), PutBuffer(r), Return(r),
         NEW w \in {"aborted", "forward"}, GoTo(r, w),
         UNCHANGED <<buf, taskVars, sharedVars, ledger>>
  PROVE  InterceptorInv'
<1> USE DEF InterceptorInv, GoTo, poolVars, taskVars, sharedVars
<1>1. NoMessage \notin Message
  BY InterceptorAssumption DEF Message, NoMessage
<1>2. UNCHANGED array /\ free' = free \cup {buf[r]} /\ InUse(r) /\ buf[r] \in Buffer
  BY Zenon DEF PutBuffer, BufferExclusive, InUse
<1>3. InterceptorTypeOK'
  BY <1>2 DEF InterceptorTypeOK
<1>4. CallOK' /\ RecordsOwnBody'
  BY ZenonT(40), <1>1 DEF CallOK, InterceptorTypeOK, RecordsOwnBody, Return, NoCall, TaskId
<1>5. BufferExclusive' /\ OwnBytes'
  BY <1>2 DEF BufferExclusive, OwnBytes, InUse, Handling, InterceptorTypeOK, Return, CallOK
<1> QED
  BY <1>3, <1>4, <1>5

(* A handler that goes on keeps its buffer.                                *)
LEMMA GoesOnKeeps ==
  ASSUME InterceptorInv, NEW r \in Request, Handling(r),
         NEW new, call' = [call EXCEPT ![r] = new],
         new.of = <<"request", r>>, new.task \in Task \cup {NoTask},
         NEW w \in {"evaluate", "submit", "parent"}, GoTo(r, w),
         w = "parent" => new.task # NoTask,
         UNCHANGED <<buf, body, array, free, taskVars, sharedVars, ledger>>
  PROVE  InterceptorInv'
<1> USE DEF InterceptorInv, GoTo, taskVars, sharedVars
<1>1. <<"request", r>> \in Message
  BY DEF Message
<1>2. InterceptorTypeOK'
  BY DEF InterceptorTypeOK
<1>3. CallOK' /\ RecordsOwnBody'
  BY <1>1, ZenonT(40) DEF CallOK, InterceptorTypeOK, RecordsOwnBody, TaskId
<1>4. BufferExclusive' /\ OwnBytes'
  BY DEF BufferExclusive, OwnBytes, InUse, Handling, InterceptorTypeOK, CallOK
<1> QED
  BY <1>2, <1>3, <1>4

(* A step of InterceptRequest keeps the invariant (server.go:51-239).      *)
LEMMA RequestKeeps ==
  ASSUME InterceptorInv, NEW r \in Request,
         SkipRequest(r) \/ ReadRequest(r) \/ InspectRequest(r) \/ EvaluateRule(r)
           \/ LoadParent(r) \/ StoreLast(r) \/ SubmitCall(r)
  PROVE  InterceptorInv'
<1> USE DEF InterceptorInv, GoTo, poolVars, taskVars, sharedVars
<1>0. <<"request", r>> \in Message /\ NoMessage \notin Message /\ NoBuffer \notin Buffer
  BY InterceptorAssumption DEF Message, NoMessage
<1>1. CASE SkipRequest(r)
  <2> USE <1>1, <1>0 DEF SkipRequest, ReadFails
  <2>1. InterceptorTypeOK'
    BY DEF InterceptorTypeOK
  <2>2. CallOK' /\ RecordsOwnBody'
    BY DEF CallOK, InterceptorTypeOK, RecordsOwnBody
  <2>3. BufferExclusive' /\ OwnBytes'
    BY DEF BufferExclusive, OwnBytes, InUse, Handling, InterceptorTypeOK
  <2> QED
    BY <2>1, <2>2, <2>3
<1>2. CASE ReadRequest(r)
  <2> USE <1>2, <1>0 DEF ReadRequest, ReadInto
  <2>1. InterceptorTypeOK'
    BY DEF InterceptorTypeOK
  <2>2. CallOK' /\ RecordsOwnBody'
    BY DEF CallOK, InterceptorTypeOK, RecordsOwnBody
  <2>3. BufferExclusive' /\ OwnBytes'
    BY SMTT(30) DEF BufferExclusive, OwnBytes, InUse, Handling, InterceptorTypeOK
  <2> QED
    BY <2>1, <2>2, <2>3
<1>3. CASE InspectRequest(r)
  <2> DEFINE b == body[array[buf[r]][2]]
             new == [of |-> array[buf[r]], task |-> b.task, policy |-> config, rule |-> 1]
  <2>1. array[buf[r]] = <<"request", r>> /\ b = body[r] /\ b.task \in Task \cup {NoTask}
    <3>1. array[buf[r]] = <<"request", r>>
      BY <1>3, Zenon DEF InspectRequest, OwnBytes, Handling
    <3>2. b = body[r] /\ body[r] \in Body \cup {NoBody}
      BY <3>1 DEF CallOK
    <3> HIDE DEF b
    <3> QED
      BY <3>1, <3>2, BodyTask, SMTT(30)
  <2>2. new.of = <<"request", r>> /\ new.task \in Task \cup {NoTask}
    BY <2>1, Zenon
  <2>3. Handling(r) /\ UNCHANGED <<buf, taskVars, sharedVars, ledger>>
    BY <1>3, Zenon DEF InspectRequest, Handling
  <2>4. \/ PutBuffer(r) /\ Return(r) /\ (GoTo(r, "aborted") \/ GoTo(r, "forward"))
        \/ call' = [call EXCEPT ![r] = new] /\ GoTo(r, "evaluate") /\ UNCHANGED <<body, array, free>>
    BY <1>3, Zenon DEF InspectRequest, Panic
  <2> HIDE DEF new, b
  <2>5. "evaluate" # "parent"
    OBVIOUS
  <2> QED
    BY <2>2, <2>3, <2>4, <2>5, GivesUpKeeps, GoesOnKeeps, Zenon
<1>6. CASE EvaluateRule(r)
  <2>1. Handling(r) /\ UNCHANGED <<buf, taskVars, sharedVars, ledger>> /\ pc[r] = "evaluate"
    BY <1>6, Zenon DEF EvaluateRule, EvaluateRuleOf, Handling
  <2>2. call[r].of = <<"request", r>> /\ call[r].task \in Task \cup {NoTask}
    BY <2>1, Zenon DEF CallOK, OwnBytes
  <2>3. /\ pc = [pc EXCEPT ![r] = "evaluate"] /\ call = [call EXCEPT ![r] = call[r]]
        /\ "evaluate" # "parent" /\ "submit" # "parent"
    BY <2>1 DEF CallOK, InterceptorTypeOK
  <2>4. \A i : AtRule(call[r], i).of = call[r].of /\ AtRule(call[r], i).task = call[r].task
    BY Zenon DEF AtRule
  <2>5. \/ PutBuffer(r) /\ Return(r) /\ GoTo(r, "aborted")
        \/ /\ (call' = call \/ \E i : call' = [call EXCEPT ![r] = AtRule(call[r], i)])
           /\ \/ UNCHANGED pc \/ GoTo(r, "submit")
              \/ call[r].task # NoTask /\ GoTo(r, "parent")
           /\ UNCHANGED <<body, array, free>>
    BY <1>6, ZenonT(40) DEF EvaluateRule, EvaluateRuleOf, Panic
  <2>6. CASE PutBuffer(r) /\ Return(r) /\ GoTo(r, "aborted")
    BY <2>1, <2>6, GivesUpKeeps, Zenon
  <2>7. ASSUME call' = call \/ \E i : call' = [call EXCEPT ![r] = AtRule(call[r], i)],
               \/ UNCHANGED pc \/ GoTo(r, "submit")
               \/ call[r].task # NoTask /\ GoTo(r, "parent"),
               UNCHANGED <<body, array, free>>
        PROVE  InterceptorInv'
    <3>1. PICK new : /\ call' = [call EXCEPT ![r] = new]
                     /\ new.of = call[r].of /\ new.task = call[r].task
      <4> DEFINE Sets(new) == call' = [call EXCEPT ![r] = new]
      <4>1. \/ Sets(call[r])
            \/ \E i : Sets(AtRule(call[r], i))
        BY <2>3, <2>7, Zenon
      <4> HIDE DEF Sets
      <4>2. \E new : Sets(new) /\ new.of = call[r].of /\ new.task = call[r].task
        BY <2>4, <4>1, Zenon
      <4> QED
        BY <4>2, Zenon DEF Sets
    <3>2. PICK w \in {"evaluate", "submit", "parent"} :
            GoTo(r, w) /\ (w = "parent" => call[r].task # NoTask)
      BY <2>3, <2>7, Zenon
    <3> QED
      BY <2>1, <2>2, <2>7, <3>1, <3>2, GoesOnKeeps, Zenon
  <2> QED
    BY <2>5, <2>6, <2>7, Zenon
<1>4. CASE LoadParent(r) \/ StoreLast(r)
  <2>1. \E w \in {"store", "submit"} : pc' = [pc EXCEPT ![r] = w]
    BY <1>4, Zenon DEF LoadParent, StoreLast
  <2>2. UNCHANGED <<buf, body, call, array, free, ledger>> /\ pc[r] \in {"parent", "store"}
    BY <1>4 DEF LoadParent, StoreLast
  <2>3. call[r].task \in Task
    BY <2>2 DEF CallOK
  <2>4. InterceptorTypeOK'
    BY <1>4, <2>1, <2>2, <2>3 DEF InterceptorTypeOK, LoadParent, StoreLast
  <2>5. CallOK' /\ RecordsOwnBody'
    BY <2>1, <2>2, <2>3 DEF CallOK, InterceptorTypeOK, RecordsOwnBody
  <2>6. BufferExclusive' /\ OwnBytes'
    BY <2>1, <2>2 DEF BufferExclusive, OwnBytes, InUse, Handling, InterceptorTypeOK
  <2> QED
    BY <2>4, <2>5, <2>6
<1>5. CASE SubmitCall(r)
  <2>1. call[r].of = <<"request", r>> /\ InUse(r) /\ buf[r] \in Buffer
    BY <1>5 DEF SubmitCall, OwnBytes, BufferExclusive, InUse, Handling
  <2>2. ledger' \in Seq(Event) /\ RecordsOwnBody'
    BY <1>5, <1>0, <2>1, SubmitRecordsOwn, Zenon DEF SubmitCall
  <2>3. \E w \in {"copy", "forward"} : pc' = [pc EXCEPT ![r] = w]
    BY <1>5, Zenon DEF SubmitCall
  <2>4. free' = free \cup {buf[r]} /\ UNCHANGED <<array, taskVars, sharedVars>> /\ Return(r)
    BY <1>5 DEF SubmitCall, PutBuffer
  <2>5. buf' = buf \/ buf' = [buf EXCEPT ![r] = NoBuffer]
    BY <1>5 DEF SubmitCall
  <2>6. InterceptorTypeOK'
    BY <2>1, <2>3, <2>4, <2>5, Zenon DEF InterceptorTypeOK
  <2>7. CallOK'
    BY <2>2, <2>3, <2>4, <1>0, Zenon
       DEF CallOK, InterceptorTypeOK, Return, NoCall, TaskId
  <2>8. BufferExclusive' /\ OwnBytes'
    BY <2>1, <2>3, <2>4, <2>5
       DEF BufferExclusive, OwnBytes, InUse, Handling, InterceptorTypeOK, Return, CallOK
  <2> QED
    BY <2>2, <2>6, <2>7, <2>8
<1> QED
  BY <1>1, <1>2, <1>3, <1>4, <1>5, <1>6

(* A step of the proxy or of InterceptResponse keeps the invariant         *)
(* (server.go:277-328).                                                    *)
LEMMA ResponseKeeps ==
  ASSUME InterceptorInv, NEW r \in Request,
         Forward(r) \/ ReadResponse(r) \/ InspectResponse(r) \/ SubmitResponse(r) \/ Deliver(r)
  PROVE  InterceptorInv'
<1> USE DEF InterceptorInv, GoTo, poolVars, taskVars, sharedVars
<1>0. <<"response", r>> \in Message /\ NoBuffer \notin Buffer
  BY InterceptorAssumption DEF Message
<1>1. CASE Forward(r) \/ Deliver(r)
  <2>1. \E w \in {"upstream", "failed", "done"} : pc' = [pc EXCEPT ![r] = w]
    BY <1>1 DEF Forward, Deliver
  <2>2. /\ ~InUse(r) /\ buf' = [buf EXCEPT ![r] = NoBuffer]
        /\ UNCHANGED <<body, call, array, free, parent, lastEvent, ledger>>
    BY <1>1 DEF Forward, Deliver, InUse, Handling
  <2>3. InterceptorTypeOK'
    BY <2>1, <2>2 DEF InterceptorTypeOK
  <2>4. CallOK' /\ RecordsOwnBody'
    BY <2>1, <2>2 DEF CallOK, InterceptorTypeOK, RecordsOwnBody
  <2>5. BufferExclusive' /\ OwnBytes'
    BY <2>1, <2>2 DEF BufferExclusive, OwnBytes, InUse, Handling, InterceptorTypeOK
  <2> QED
    BY <2>3, <2>4, <2>5
<1>2. CASE ReadResponse(r)
  <2> USE <1>2, <1>0 DEF ReadResponse, ReadInto, ReadFails
  <2>1. InterceptorTypeOK'
    BY DEF InterceptorTypeOK
  <2>2. CallOK' /\ RecordsOwnBody'
    BY Zenon DEF CallOK, InterceptorTypeOK, RecordsOwnBody
  <2>3. BufferExclusive' /\ OwnBytes'
    BY SMTT(30) DEF BufferExclusive, OwnBytes, InUse, Handling, InterceptorTypeOK
  <2> QED
    BY <2>1, <2>2, <2>3
<1>3. CASE InspectResponse(r)
  <2>1. /\ array[buf[r]] = <<"response", r>> /\ InUse(r) /\ buf[r] \in Buffer
        /\ UNCHANGED <<buf, body, parent, lastEvent, ledger, array>>
    BY <1>3, Zenon
       DEF InspectResponse, OwnBytes, BufferExclusive, InUse, PutBuffer
  <2>2. CASE PutBuffer(r) /\ GoTo(r, "deliver") /\ UNCHANGED <<call, activeTasks>>
    <3>1. InterceptorTypeOK'
      BY <2>1, <2>2 DEF InterceptorTypeOK, PutBuffer
    <3>2. CallOK' /\ RecordsOwnBody'
      BY <2>1, <2>2, SMTT(30) DEF CallOK, InterceptorTypeOK, RecordsOwnBody
    <3>3. BufferExclusive' /\ OwnBytes'
      BY <2>1, <2>2, ZenonT(40) DEF BufferExclusive, OwnBytes, InUse, Handling, InterceptorTypeOK, PutBuffer
    <3> QED
      BY <3>1, <3>2, <3>3
  <2>3. ASSUME NEW a \in Reply,
               call' = [call EXCEPT ![r] = [NoCall EXCEPT !.of = array[buf[r]], !.task = a.task]],
               GoTo(r, "record"), UNCHANGED poolVars
        PROVE  InterceptorInv'
    <3> DEFINE new == [NoCall EXCEPT !.of = array[buf[r]], !.task = a.task]
    <3>1. /\ call' = [call EXCEPT ![r] = new]
          /\ new.of = <<"response", r>> /\ new.task \in TaskId
      BY <2>1, <2>3 DEF NoCall, TaskId
    <3> HIDE DEF new
    <3>2. InterceptorTypeOK'
      BY <2>1, <2>3 DEF InterceptorTypeOK
    <3>3. CallOK' /\ RecordsOwnBody'
      BY <1>0, <2>1, <2>3, <3>1, Zenon
         DEF CallOK, InterceptorTypeOK, RecordsOwnBody
    <3>4. BufferExclusive' /\ OwnBytes'
      BY <2>1, <2>3, <3>1
         DEF BufferExclusive, OwnBytes, InUse, Handling, InterceptorTypeOK, CallOK
    <3> QED
      BY <3>2, <3>3, <3>4
  <2> QED
    BY <1>3, <2>2, <2>3, ZenonT(40) DEF InspectResponse
<1>4. CASE SubmitResponse(r)
  <2>1. call[r].of = <<"response", r>> /\ InUse(r) /\ buf[r] \in Buffer
    BY <1>4, Zenon DEF SubmitResponse, OwnBytes, BufferExclusive, InUse
  <2>2. ledger' \in Seq(Event) /\ RecordsOwnBody'
    BY <1>4, <1>0, <2>1, SubmitRecordsOwn DEF SubmitResponse
  <2>3. /\ pc' = [pc EXCEPT ![r] = "deliver"] /\ free' = free \cup {buf[r]}
        /\ UNCHANGED <<buf, array, parent, lastEvent>> /\ Return(r)
    BY <1>4 DEF SubmitResponse, PutBuffer
  <2>4. InterceptorTypeOK'
    BY <2>1, <2>3, Zenon DEF InterceptorTypeOK
  <2>5. CallOK'
    BY <2>2, <2>3, <1>0, Zenon
       DEF CallOK, InterceptorTypeOK, Return, NoCall, TaskId
  <2>6. BufferExclusive' /\ OwnBytes'
    BY <2>1, <2>3, ZenonT(40) DEF BufferExclusive, OwnBytes, InUse, Handling, InterceptorTypeOK, Return, CallOK
  <2> QED
    BY <2>2, <2>4, <2>5, <2>6
<1> QED
  BY <1>1, <1>2, <1>3, <1>4

(* Every step keeps the invariant; a reload and an unhealthy worker touch  *)
(* nothing that it speaks of.                                              *)
LEMMA InterceptorStepKeeps ==
  InterceptorInv /\ [InterceptorNext]_interceptorVars => InterceptorInv'
<1> SUFFICES ASSUME InterceptorInv, [InterceptorNext]_interceptorVars
             PROVE  InterceptorInv'
  OBVIOUS
<1>1. ASSUME NEW r \in Request, RequestStep(r)
      PROVE  InterceptorInv'
  BY <1>1, RequestKeeps, ResponseKeeps DEF RequestStep
<1>2. CASE UNCHANGED <<pc, buf, body, call, array, free, parent, lastEvent, ledger>>
  BY <1>2 DEF InterceptorInv, InterceptorTypeOK, CallOK, BufferExclusive, OwnBytes,
              RecordsOwnBody, InUse, Handling
<1>3. CASE UNCHANGED interceptorVars
  BY <1>2, <1>3 DEF interceptorVars, localVars, poolVars, taskVars
<1>4. ASSUME NEW p \in Policies, Reload(p)
      PROVE  InterceptorInv'
  BY <1>2, <1>4 DEF Reload, poolVars, taskVars
<1>5. CASE TurnUnhealthy
  BY <1>2, <1>5 DEF TurnUnhealthy, localVars, poolVars, taskVars
<1> QED
  BY <1>1, <1>3, <1>4, <1>5 DEF InterceptorNext

(* The inductive invariant of the interceptor (server.go:51-328).          *)
THEOREM InterceptorInvariant == InterceptorSpec => []InterceptorInv
BY InterceptorStarts, InterceptorStepKeeps, PTL DEF InterceptorSpec

(* No two handlers ever work on one buffer, nor on one that is in the pool *)
(* (pool.go:132-156).                                                      *)
THEOREM BuffersAreExclusive == InterceptorSpec => []BufferExclusive
<1>1. InterceptorInv => BufferExclusive
  BY DEF InterceptorInv
<1> QED
  BY <1>1, InterceptorInvariant, PTL

(* Every recorded event is about its own request or response, for every    *)
(* reuse of buffers (server.go:67-71, 212-218, 284-290).                   *)
THEOREM RecordsAreOwn == InterceptorSpec => []RecordsOwnBody
<1>1. InterceptorInv => RecordsOwnBody
  BY DEF InterceptorInv
<1> QED
  BY <1>1, InterceptorInvariant, PTL

-----------------------------------------------------------------------------
\* The evaluation of a policy.

\* A set of numbers has a least one, and a set with 0 and all successors is Nat.
LEMMA LeastNumber ==
  ASSUME NEW T \in SUBSET Nat, T # {}
  PROVE  \E n \in T : \A m \in T : ~(m < n)
<1> DEFINE R == OpToRel(<, Nat)
<1>1. IsWellFoundedOn(R, Nat)
  BY NatLessThanWellFounded, Zenon
<1>2. \A m, n \in Nat : m < n => <<m, n>> \in R
  BY SMT DEF OpToRel
<1> HIDE DEF R
<1>3. PICK n \in T : \A m \in T : ~(<<m, n>> \in R)
  BY <1>1, WFMin, Zenon
<1> QED BY <1>2, <1>3, Zenon

LEMMA Induction ==
  ASSUME NEW S \in SUBSET Nat, 0 \in S, \A n \in S : n + 1 \in S
  PROVE  S = Nat
<1> SUFFICES ASSUME Nat \ S # {} PROVE FALSE
  BY Zenon
<1>1. PICK n \in Nat \ S : \A m \in Nat \ S : ~(m < n)
  BY LeastNumber, Zenon
<1>2. n # 0 /\ n - 1 \in Nat /\ n - 1 < n /\ (n - 1) + 1 = n
  BY <1>1, SMT
<1> QED BY <1>1, <1>2, Zenon

\* The least of a set of positions; 0 for none.
Least(T) == IF T = {} THEN 0 ELSE CHOOSE i \in T : \A h \in T : i <= h

LEMMA LeastIs ==
  ASSUME NEW T \in SUBSET Nat
  PROVE  /\ T # {} => Least(T) \in T /\ \A h \in T : Least(T) <= h
         /\ \A i \in T : (\A h \in T : i <= h) => Least(T) = i
<1>1. ASSUME T # {} PROVE \E i \in T : \A h \in T : i <= h
  <2>1. PICK i \in T : \A h \in T : ~(h < i)
    BY <1>1, LeastNumber, Zenon
  <2>2. \A h \in T : i <= h
    BY <2>1, SMT
  <2> QED BY <2>2, Zenon
<1>2. T # {} => Least(T) \in T /\ \A h \in T : Least(T) <= h
  BY <1>1, Zenon DEF Least
<1>3. ASSUME NEW i \in T, \A h \in T : i <= h PROVE Least(T) = i
  <2>1. Least(T) \in T /\ Least(T) <= i /\ i <= Least(T)
    BY <1>2, <1>3, Zenon
  <2>2. Least(T) \in Nat /\ i \in Nat
    BY <2>1, Zenon
  <2> HIDE DEF Least
  <2> QED BY <2>1, <2>2, SMT
<1> QED BY <1>2, <1>3, Zenon

\* A sequence with a last element.
LEMMA LastOf ==
  ASSUME NEW A, NEW s \in Seq(A), s # <<>>
  PROVE  s = Append(SubSeq(s, 1, Len(s) - 1), s[Len(s)])
<1>1. Len(s) \in Nat /\ Len(s) # 0
  BY LenProperties, EmptySeq, Zenon
<1>2. 1 <= Len(s) /\ s[Len(s)] \in A
  BY <1>1, ElementOfSeq, SMT
<1>3. s = SubSeq(s, 1, Len(s))
  BY SubSeqFull, Zenon
<1> QED BY <1>1, <1>2, SMT

(* A pattern that matches is one that covers the method                    *)
(* (engine.go:188-207).                                                    *)
LEMMA MatchesWhatItCovers ==
  ASSUME NEW pattern \in Seq(STRING), NEW method \in Seq(STRING) \ {<<>>}
  PROVE  MatchPattern(pattern, method) <=> Covers(pattern, method)
<1>1. CASE pattern = <<>>
  <2>1. ASSUME NEW n \in 0..Len(method) PROVE pattern # Append(SubSeq(method, 1, n), "*")
    <3>1. SubSeq(method, 1, n) \in Seq(STRING)
      BY LenProperties, SMT
    <3>2. Append(SubSeq(method, 1, n), "*") # <<>>
      BY <3>1, SMT
    <3> QED BY <1>1, <3>2, Zenon
  <2> QED
    BY <1>1, <2>1, Zenon DEF MatchPattern, Covers
<1>2. CASE pattern # <<>>
  <2> DEFINE m == Len(pattern) - 1
             Wild == /\ pattern[Len(pattern)] = "*"
                     /\ m <= Len(method)
                     /\ SubSeq(method, 1, m) = SubSeq(pattern, 1, m)
  <2>1. m \in Nat /\ Len(method) \in Nat /\ m + 1 = Len(pattern)
    <3>1. Len(pattern) \in Nat /\ Len(pattern) # 0 /\ Len(method) \in Nat
      BY <1>2, LenProperties, EmptySeq, Zenon
    <3> QED BY <3>1, SMT
  <2>2. ASSUME Wild PROVE \E n \in 0..Len(method) : pattern = Append(SubSeq(method, 1, n), "*")
    <3>1. pattern = Append(SubSeq(pattern, 1, m), pattern[Len(pattern)])
      BY <1>2, LastOf, Zenon
    <3>2. m \in 0..Len(method)
      BY <2>1, <2>2, SMT
    <3> QED BY <2>2, <3>1, <3>2, Zenon
  <2>3. ASSUME NEW n \in 0..Len(method), pattern = Append(SubSeq(method, 1, n), "*") PROVE Wild
    <3> DEFINE s == SubSeq(method, 1, n)
    <3>1. s \in Seq(STRING) /\ Len(s) = n /\ \A i \in 1..n : s[i] = method[i]
      BY <2>1, SMT
    <3> HIDE DEF s
    <3>2. /\ Len(pattern) = n + 1 /\ pattern[n + 1] = "*"
          /\ \A i \in 1..n : pattern[i] = s[i]
      BY <2>3, <3>1, SMT DEF s
    <3>3. m = n /\ n <= Len(method)
      BY <2>1, <3>2, SMT
    <3>4. SubSeq(method, 1, n) = SubSeq(pattern, 1, n)
      BY <2>1, <3>1, <3>2, SMT
    <3> QED BY <3>2, <3>3, <3>4, Zenon
  <2> QED BY <1>2, <2>2, <2>3, Zenon DEF MatchPattern, Covers
<1> QED BY <1>1, <1>2, Zenon

LEMMA RuleMatches ==
  ASSUME NEW rule \in Rule, NEW method \in Seq(STRING) \ {<<>>}
  PROVE  \A j \in DOMAIN rule.methods :
           MatchPattern(rule.methods[j], method) <=> Covers(rule.methods[j], method)
<1>1. \A j \in DOMAIN rule.methods : rule.methods[j] \in Seq(STRING)
  <2>1. rule.methods \in Seq(Seq(STRING))
    BY Zenon DEF Rule
  <2> HIDE DEF Rule
  <2>2. DOMAIN rule.methods = 1..Len(rule.methods)
    BY <2>1, LenProperties, Zenon
  <2> QED BY <2>1, <2>2, ElementOfSeq, Zenon
<1> QED BY <1>1, MatchesWhatItCovers, Zenon

(* On numbers in plain notation eq compares numbers (engine.go:236-239).   *)
LEMMA EqComparesNumbers ==
  ASSUME NEW cond, cond.value \in Text, cond.value.form \in {"plain", "word"},
         NEW v \in Value, IF v.type = "number" THEN Small(v.n) ELSE v.form \in {"plain", "word"}
  PROVE  Holds(cond, v) <=> Means(cond, v)
<1>1. CASE ~(cond.operator = "eq" /\ IsFloat(v) /\ IsFloat(cond.value))
  BY <1>1, Zenon DEF Means
<1>2. CASE cond.operator = "eq" /\ IsFloat(v) /\ IsFloat(cond.value)
  <2>1. cond.value.form = "plain"
    BY <1>2, SMT DEF Text, IsFloat
  <2>2. Sprint(v).form = "plain" /\ Sprint(v).n = v.n
    <3>1. CASE v.type = "number"
      BY <3>1, SMT DEF Sprint, Plain, Spelled
    <3>2. CASE v.type # "number"
      <4>1. v \in Text /\ v.form = "plain"
        BY <1>2, <3>2, SMT DEF Value, IsFloat
      <4>2. v.type = "string"
        BY <4>1, SMT DEF Text
      <4> QED BY <4>1, <4>2, Zenon DEF Sprint
    <3> QED BY <3>1, <3>2, Zenon
  <2>3. Means(cond, v) <=> v.n = cond.value.n
    BY <1>2, Zenon DEF Means
  <2>4. Holds(cond, v) <=> SameText(Sprint(v), cond.value)
    BY <1>2, SMT DEF Holds
  <2> QED BY <2>1, <2>2, <2>3, <2>4, Zenon DEF SameText
<1> QED BY <1>1, <1>2, Zenon

\* A rule that spells every number plainly.
PlainRule(rule) == \A j \in DOMAIN rule.conditions : rule.conditions[j].value.form \in {"plain", "word"}

(* For such parameters and such a rule, the conditions hold when those of  *)
(* Applies do.                                                             *)
LEMMA ConditionsMean ==
  ASSUME NEW rule \in Rule, PlainRule(rule),
         NEW params, params # NoParams, Ordinary(params), \A k \in DOMAIN params : params[k] \in Value
  PROVE  CheckConditions(rule.conditions, params) <=>
           \A j \in DOMAIN rule.conditions :
             /\ params # NoParams /\ rule.conditions[j].key \in DOMAIN params
             /\ Means(rule.conditions[j], params[rule.conditions[j].key])
<1>1. ASSUME NEW j \in DOMAIN rule.conditions, rule.conditions[j].key \in DOMAIN params
      PROVE  Holds(rule.conditions[j], params[rule.conditions[j].key])
               <=> Means(rule.conditions[j], params[rule.conditions[j].key])
  <2> DEFINE cond == rule.conditions[j]
             v == params[cond.key]
  <2>1. cond.value \in Text
    <3>1. rule.conditions \in Seq([key : STRING, operator : STRING, value : Text])
      BY Zenon DEF Rule
    <3>2. cond \in [key : STRING, operator : STRING, value : Text]
      BY <1>1, <3>1, LenProperties, ElementOfSeq, Zenon
    <3> QED BY <3>2, Zenon
  <2>2. cond.value.form \in {"plain", "word"}
    BY <1>1, Zenon DEF PlainRule
  <2>3. v \in Value /\ IF v.type = "number" THEN Small(v.n) ELSE v.form \in {"plain", "word"}
    BY <1>1, Zenon DEF Ordinary
  <2> HIDE DEF cond, v
  <2>4. Holds(cond, v) <=> Means(cond, v)
    BY <2>1, <2>2, <2>3, EqComparesNumbers, Zenon
  <2> QED BY <2>4, Zenon DEF v, cond
<1> QED BY <1>1, Zenon DEF CheckConditions

(* A rule that is tried without a panic is selected when it applies to the *)
(* call (server.go:153-198).                                               *)
LEMMA SelectsWhatApplies ==
  ASSUME NEW rule \in Rule, NEW b, b.method \in Seq(STRING) \ {<<>>},
         b.params # NoParams => \A k \in DOMAIN b.params : b.params[k] \in Value,
         b.params = NoParams \/ Ordinary(b.params), PlainRule(rule),
         ~RulePanics(rule, b.method, b.params)
  PROVE  Selects(rule, b.method, b.params) <=> Applies(rule, b.method, b.params)
<1> DEFINE Meant == \A j \in DOMAIN rule.conditions :
                      /\ b.params # NoParams /\ rule.conditions[j].key \in DOMAIN b.params
                      /\ Means(rule.conditions[j], b.params[rule.conditions[j].key])
           Covered == \E j \in DOMAIN rule.methods : Covers(rule.methods[j], b.method)
<1>1. \A j \in DOMAIN rule.methods :
        MatchPattern(rule.methods[j], b.method) <=> Covers(rule.methods[j], b.method)
  BY RuleMatches, Zenon
<1>2. Selects(rule, b.method, b.params) <=> Covered /\ CheckConditions(rule.conditions, b.params)
  BY <1>1, Zenon DEF Selects
<1>3. Applies(rule, b.method, b.params) <=> Covered /\ Meant
  BY Zenon DEF Applies
<1>4. CASE ~Covered
  BY <1>2, <1>3, <1>4, Zenon
<1>5. CASE b.params # NoParams
  <2>1. CheckConditions(rule.conditions, b.params) <=> Meant
    BY <1>5, ConditionsMean, Zenon
  <2> QED BY <1>2, <1>3, <2>1, Zenon
<1>6. CASE Covered /\ b.params = NoParams
  <2>1. rule.conditions = <<>>
    BY <1>1, <1>6, Zenon DEF RulePanics
  <2>2. DOMAIN rule.conditions = {}
    BY <2>1, SMT
  <2>3. CheckConditions(rule.conditions, b.params) /\ Meant
    BY <2>2, Zenon DEF CheckConditions
  <2> QED BY <1>2, <1>3, <2>3, Zenon
<1> QED BY <1>4, <1>5, <1>6, Zenon

(* What a turn of the loop says of a rule.                                 *)
LEMMA VerdictsMean ==
  ASSUME NEW rule, NEW method, NEW params
  PROVE  /\ Verdict(rule, method, params) = "pass" =>
              ~RulePanics(rule, method, params) /\ ~Selects(rule, method, params)
         /\ Verdict(rule, method, params) = "select" =>
              ~RulePanics(rule, method, params) /\ Selects(rule, method, params)
<1>1. "pass" # "panic" /\ "select" # "panic" /\ "pass" # "select"
  OBVIOUS
<1> QED BY <1>1, Zenon DEF Verdict

(* The rule with which the loop ends is the first that applies.            *)
LEMMA EndsWithFirst ==
  ASSUME NEW c, c.policy \in Seq(Rule), NEW b, b.method \in Seq(STRING) \ {<<>>},
         b.params # NoParams => \A k \in DOMAIN b.params : b.params[k] \in Value,
         InPlainNotation(c.policy), b.params = NoParams \/ Ordinary(b.params),
         AfterLoop(c, b)
  PROVE  c.rule = FirstApplying(c.policy, b.method, b.params)
<1> DEFINE p == c.policy
           A == {i \in DOMAIN p : Applies(p[i], b.method, b.params)}
<1>1. FirstApplying(p, b.method, b.params) = Least(A)
  BY Zenon DEF FirstApplying, Least
<1>2. DOMAIN p = 1..Len(p) /\ Len(p) \in Nat /\ \A i \in DOMAIN p : p[i] \in Rule
  BY LenProperties, ElementOfSeq, Zenon
<1>3. \A i \in DOMAIN p : PlainRule(p[i])
  BY Zenon DEF InPlainNotation, PlainRule
<1> HIDE DEF p
<1>4. ASSUME NEW i \in DOMAIN p, Verdict(p[i], b.method, b.params) = "pass"
      PROVE  i \notin A
  <2>1. ~RulePanics(p[i], b.method, b.params) /\ ~Selects(p[i], b.method, b.params)
    BY <1>4, VerdictsMean, Zenon
  <2>2. ~Applies(p[i], b.method, b.params)
    BY <1>2, <1>3, <2>1, SelectsWhatApplies, Zenon
  <2> QED BY <2>2, Zenon
<1>5. ASSUME NEW i \in DOMAIN p, Verdict(p[i], b.method, b.params) = "select"
      PROVE  i \in A
  <2>1. ~RulePanics(p[i], b.method, b.params) /\ Selects(p[i], b.method, b.params)
    BY <1>5, VerdictsMean, Zenon
  <2>2. Applies(p[i], b.method, b.params)
    BY <1>2, <1>3, <2>1, SelectsWhatApplies, Zenon
  <2> QED BY <2>2, Zenon
<1>6. A \subseteq DOMAIN p /\ A \in SUBSET Nat
  <2>1. DOMAIN p \in SUBSET Nat
    BY <1>2, SMT
  <2> QED BY <2>1, Zenon
<1> HIDE DEF A
<1>7. CASE c.rule = 0 /\ \A h \in DOMAIN p : Verdict(p[h], b.method, b.params) = "pass"
  <2>1. A = {}
    BY <1>4, <1>6, <1>7, Zenon
  <2> QED BY <1>1, <1>7, <2>1, Zenon DEF Least, p
<1>8. CASE /\ c.rule \in DOMAIN p /\ Verdict(p[c.rule], b.method, b.params) = "select"
           /\ \A h \in 1 .. c.rule - 1 : Verdict(p[h], b.method, b.params) = "pass"
  <2> DEFINE n == c.rule
  <2>1. n \in DOMAIN p /\ n \in A /\ \A h \in 1 .. n - 1 : Verdict(p[h], b.method, b.params) = "pass"
    BY <1>5, <1>8, Zenon
  <2> HIDE DEF n
  <2>2. \A h \in DOMAIN p : h \in 1 .. n - 1 \/ n <= h
    BY <1>2, <2>1, SMT
  <2>3. \A h \in A : n <= h
    BY <1>4, <1>6, <2>1, <2>2, Zenon
  <2>4. Least(A) = n
    BY <1>6, <2>1, <2>3, LeastIs, Zenon
  <2> QED BY <1>1, <2>4, Zenon DEF n, p
<1> QED BY <1>7, <1>8, Zenon DEF AfterLoop, Passed, p

-----------------------------------------------------------------------------
\* The policy that was chosen for a call.

Chosen    == {"parent", "store", "submit"}
Evaluated == {"evaluate", "parent", "store", "submit"}

Kept(r) ==
  /\ pc[r] = "inspect" => config \in during[r]
  /\ pc[r] \in Evaluated => body[r].form = "call" /\ call[r].policy \in Policies \cap during[r]
  /\ pc[r] = "evaluate" => InLoop(call[r], body[r])
  /\ pc[r] \in Chosen => AfterLoop(call[r], body[r])

LEMMA KeptFacts ==
  PolicyKept <=> /\ config \in Policies /\ during = [r \in Request |-> during[r]]
                 /\ \A r \in Request : Kept(r)
BY Zenon DEF PolicyKept, Kept, Chosen, Evaluated

\* What a step leaves as it was for a request, or what it gives up.
LeavesCall(q) ==
  \/ pc'[q] \notin {"inspect"} \cup Evaluated
  \/ /\ UNCHANGED <<config, body[q], call[q], during[q]>>
     /\ pc'[q] = pc[q] \/ (pc[q] \in Chosen /\ pc'[q] \in Chosen)

LEMMA ChosenFacts ==
  /\ Chosen \subseteq Evaluated /\ "inspect" \notin Evaluated
  /\ "evaluate" \in Evaluated /\ "evaluate" \notin Chosen
BY DEF Chosen, Evaluated

LEMMA LeavesKept ==
  ASSUME NEW q \in Request, Kept(q), LeavesCall(q)
  PROVE  Kept(q)'
<1>1. CASE pc'[q] \notin {"inspect"} \cup Evaluated
  <2>1. pc'[q] # "inspect" /\ pc'[q] \notin Evaluated /\ pc'[q] # "evaluate" /\ pc'[q] \notin Chosen
    BY <1>1, ChosenFacts, Zenon
  <2> QED BY <2>1, Zenon DEF Kept
<1>2. CASE /\ UNCHANGED <<config, body[q], call[q], during[q]>>
           /\ pc'[q] = pc[q] \/ (pc[q] \in Chosen /\ pc'[q] \in Chosen)
  <2>1. config' = config /\ body'[q] = body[q] /\ call'[q] = call[q] /\ during'[q] = during[q]
    BY <1>2, Zenon
  <2>2. CASE pc'[q] = pc[q]
    BY <2>1, <2>2, Zenon DEF Kept, InLoop, AfterLoop, Passed
  <2>3. CASE pc[q] \in Chosen /\ pc'[q] \in Chosen
    <3>1. pc'[q] # "inspect" /\ pc'[q] # "evaluate" /\ pc[q] \in Evaluated
      BY <2>3, ChosenFacts, Zenon
    <3> QED BY <2>1, <2>3, <3>1, Zenon DEF Kept, AfterLoop, Passed
  <2> QED BY <1>2, <2>2, <2>3, Zenon
<1> QED BY <1>1, <1>2, Zenon DEF LeavesCall

\* The goroutine of r moves; the others are where they were.
Moves(r) ==
  /\ config' = config /\ during' = [q \in Request |-> during'[q]]
  /\ \A q \in Request : q # r =>
       pc'[q] = pc[q] /\ body'[q] = body[q] /\ call'[q] = call[q] /\ during'[q] = during[q]

LEMMA StepMoves ==
  ASSUME InterceptorInv, PolicyKept, NEW r \in Request, RequestStep(r)
  PROVE  Moves(r)
<1>1. /\ pc = [q \in Request |-> pc[q]] /\ body = [q \in Request |-> body[q]]
      /\ call = [q \in Request |-> call[q]] /\ during = [q \in Request |-> during[q]]
  <2>1. \A S : pc \in [Request -> S] => pc = [q \in Request |-> pc[q]]
    BY Zenon
  <2>2. pc = [q \in Request |-> pc[q]]
    BY <2>1, Zenon DEF InterceptorInv, InterceptorTypeOK
  <2>3. body = [q \in Request |-> body[q]]
    BY Zenon DEF InterceptorInv, CallOK
  <2> QED BY <2>2, <2>3, Zenon DEF InterceptorInv, CallOK, PolicyKept
<1>2. config' = config
  BY Zenon DEF RequestStep, SkipRequest, ReadRequest, InspectRequest, EvaluateRule, EvaluateRuleOf,
               Panic, LoadParent, StoreLast, SubmitCall, Forward, ReadResponse, InspectResponse, SubmitResponse, Deliver,
               sharedVars
<1>3. pc' = pc \/ \E w : pc' = [pc EXCEPT ![r] = w]
  BY Zenon DEF RequestStep, SkipRequest, ReadRequest, InspectRequest, EvaluateRule, EvaluateRuleOf,
               Panic, LoadParent, StoreLast, SubmitCall, Forward, ReadResponse, InspectResponse, SubmitResponse, Deliver, GoTo
<1>4. body' = body \/ \E w : body' = [body EXCEPT ![r] = w]
  BY Zenon DEF RequestStep, SkipRequest, ReadRequest, InspectRequest, EvaluateRule, EvaluateRuleOf,
               Panic, LoadParent, StoreLast, SubmitCall, Forward, ReadResponse, InspectResponse, SubmitResponse, Deliver, Return
<1>5. call' = call \/ \E w : call' = [call EXCEPT ![r] = w]
  BY Zenon DEF RequestStep, SkipRequest, ReadRequest, InspectRequest, EvaluateRule, EvaluateRuleOf,
               Panic, LoadParent, StoreLast, SubmitCall, Forward, ReadResponse, InspectResponse, SubmitResponse, Deliver, Return
<1>6. during' = during \/ \E w : during' = [during EXCEPT ![r] = w]
  BY Zenon DEF RequestStep, SkipRequest, ReadRequest, InspectRequest, EvaluateRule, EvaluateRuleOf,
               Panic, LoadParent, StoreLast, SubmitCall, Forward, ReadResponse, InspectResponse, SubmitResponse, Deliver, Return
<1>7. \A q \in Request : q # r => pc'[q] = pc[q]
  BY <1>1, <1>3, Zenon
<1>8. \A q \in Request : q # r => body'[q] = body[q]
  BY <1>1, <1>4, Zenon
<1>9. \A q \in Request : q # r => call'[q] = call[q]
  BY <1>1, <1>5, Zenon
<1>10. during' = [q \in Request |-> during'[q]] /\ \A q \in Request : q # r => during'[q] = during[q]
  BY <1>1, <1>6, Zenon
<1> QED BY <1>2, <1>7, <1>8, <1>9, <1>10, Zenon DEF Moves

LEMMA OthersKept ==
  ASSUME PolicyKept, NEW r \in Request, Moves(r), Kept(r)'
  PROVE  PolicyKept'
<1>1. ASSUME NEW q \in Request, q # r PROVE LeavesCall(q)
  BY <1>1, Zenon DEF Moves, LeavesCall
<1>2. \A q \in Request : Kept(q)
  BY KeptFacts, Zenon
<1>3. \A q \in Request : Kept(q)'
  BY <1>1, <1>2, LeavesKept, Zenon
<1>4. config' \in Policies /\ during' = [q \in Request |-> during'[q]]
  BY Zenon DEF Moves, PolicyKept
<1> QED BY <1>3, <1>4, Zenon DEF PolicyKept, Kept, Chosen, Evaluated

LEMMA RequestKeepsPolicy ==
  ASSUME InterceptorInv, PolicyKept, NEW r \in Request, RequestStep(r)
  PROVE  PolicyKept'
<1> SUFFICES Kept(r)'
  BY StepMoves, OthersKept, Zenon
<1>1. /\ \A w : pc' = [pc EXCEPT ![r] = w] => pc'[r] = w
      /\ \A w : call' = [call EXCEPT ![r] = w] => call'[r] = w
      /\ \A w : during' = [during EXCEPT ![r] = w] => during'[r] = w
  <2>1. \A S : pc \in [Request -> S] => (\A w : pc' = [pc EXCEPT ![r] = w] => pc'[r] = w)
    BY Zenon
  <2>2. \A w : pc' = [pc EXCEPT ![r] = w] => pc'[r] = w
    BY <2>1, Zenon DEF InterceptorInv, InterceptorTypeOK
  <2>3. call = [q \in Request |-> call[q]] /\ during = [q \in Request |-> during[q]]
    BY Zenon DEF InterceptorInv, CallOK, PolicyKept
  <2> QED BY <2>2, <2>3, Zenon
<1>2. Kept(r) /\ config \in Policies
  BY KeptFacts, Zenon
<1>3. ASSUME NEW w, pc' = [pc EXCEPT ![r] = w], w \notin {"inspect"} \cup Evaluated PROVE Kept(r)'
  BY <1>1, <1>2, <1>3, LeavesKept, Zenon DEF LeavesCall
<1>9. "aborted" \notin {"inspect"} \cup Evaluated /\ "forward" \notin {"inspect"} \cup Evaluated
  BY SMT DEF Evaluated
<1>4. CASE SkipRequest(r) \/ Forward(r) \/ ReadResponse(r) \/ InspectResponse(r)
             \/ SubmitResponse(r) \/ Deliver(r) \/ SubmitCall(r)
  <2>1. \E w \in {"forward", "failed", "upstream", "respond", "record", "deliver", "done", "copy"} :
          pc' = [pc EXCEPT ![r] = w]
    BY <1>4, Zenon DEF SkipRequest, SubmitCall, Forward, ReadResponse, InspectResponse,
                       SubmitResponse, Deliver, GoTo
  <2>2. \A w \in {"forward", "failed", "upstream", "respond", "record", "deliver", "done", "copy"} :
          w \notin {"inspect"} \cup Evaluated
    BY SMT DEF Evaluated
  <2> QED BY <1>3, <2>1, <2>2, Zenon
<1>5. CASE ReadRequest(r)
  <2>1. pc'[r] = "inspect" /\ during'[r] = {config} /\ config' = config
    BY <1>1, <1>5, Zenon DEF ReadRequest, GoTo, sharedVars
  <2>2. "inspect" \notin Chosen /\ "inspect" \notin Evaluated /\ "inspect" # "evaluate"
    BY SMT DEF Chosen, Evaluated
  <2> QED BY <2>1, <2>2, Zenon DEF Kept
<1>6. CASE LoadParent(r) \/ StoreLast(r)
  <2>1. /\ pc[r] \in {"parent", "store"} /\ pc'[r] \in {"store", "submit"}
        /\ UNCHANGED <<body, call, during, config>>
    BY <1>1, <1>6, Zenon DEF LoadParent, StoreLast, GoTo, sharedVars
  <2>2. pc[r] \in Chosen /\ pc'[r] \in Chosen
    BY <2>1, SMT DEF Chosen
  <2>3. LeavesCall(r)
    BY <2>1, <2>2, Zenon DEF LeavesCall
  <2> QED BY <1>2, <2>3, LeavesKept, Zenon
<1>7. CASE InspectRequest(r)
  <2> DEFINE b == body[array[buf[r]][2]]
  <2>1. pc[r] = "inspect" /\ b = body[r]
    <3>1. pc[r] = "inspect"
      BY <1>7, Zenon DEF InspectRequest
    <3>2. array[buf[r]] = <<"request", r>>
      BY <3>1, Zenon DEF InterceptorInv, OwnBytes, Handling
    <3>3. array[buf[r]][2] = r
      BY <3>2, SMT
    <3> QED BY <3>1, <3>3, Zenon
  <2> HIDE DEF b
  <2> DEFINE new == [of |-> array[buf[r]], task |-> b.task, policy |-> config, rule |-> 1]
  <2>2. \/ GoTo(r, "aborted") \/ GoTo(r, "forward")
        \/ /\ b.form = "call" /\ call' = [call EXCEPT ![r] = new] /\ GoTo(r, "evaluate")
           /\ UNCHANGED <<body, during, config>>
    BY <1>7, Zenon DEF InspectRequest, Panic, sharedVars, b
  <2>3. CASE GoTo(r, "aborted") \/ GoTo(r, "forward")
    BY <1>3, <1>9, <2>3, Zenon DEF GoTo
  <2>4. CASE /\ b.form = "call" /\ call' = [call EXCEPT ![r] = new] /\ GoTo(r, "evaluate")
             /\ UNCHANGED <<body, during, config>>
    <3>1. call'[r] = new /\ pc'[r] = "evaluate"
      BY <1>1, <2>4, Zenon DEF GoTo
    <3>2. new.policy = config /\ new.rule = 1
      BY SMT
    <3>3. config \in Policies \cap during'[r] /\ body'[r] = b
      BY <1>2, <2>1, <2>4, Zenon DEF Kept
    <3>4. Len(config) \in Nat
      BY <1>2, PolicyAssumption, LenProperties, Zenon DEF PolicyAssumption
    <3>5. 1 \in 1 .. Len(config) + 1 /\ 1 .. 1 - 1 = {} /\ "evaluate" # "inspect"
      BY <3>4, SMT
    <3> HIDE DEF new
    <3>6. InLoop(call'[r], body'[r])
      BY <3>1, <3>2, <3>5, Zenon DEF InLoop
    <3> QED BY <2>4, <3>1, <3>2, <3>3, <3>5, <3>6, ChosenFacts, Zenon DEF Kept
  <2> QED BY <2>2, <2>3, <2>4, Zenon
<1>8. CASE EvaluateRule(r)
  <2> DEFINE c == call[r]
             b == body[r]
             p == c.policy
             i == c.rule
             V(h) == Verdict(p[h], b.method, b.params)
             Leaves == pc'[r] \in Chosen /\ UNCHANGED <<body, during, config>>
  <2>1. pc[r] = "evaluate" /\ body[c.of[2]] = b
    <3>1. pc[r] = "evaluate"
      BY <1>8, Zenon DEF EvaluateRule, EvaluateRuleOf
    <3>2. c.of = <<"request", r>>
      BY <3>1, Zenon DEF InterceptorInv, OwnBytes
    <3>3. c.of[2] = r
      BY <3>2, SMT
    <3> QED BY <3>1, <3>3, Zenon
  <2>2. /\ b.form = "call" /\ p \in Policies \cap during[r]
        /\ i \in 1 .. Len(p) + 1 /\ \A h \in 1 .. i - 1 : V(h) = "pass"
    BY <1>2, <2>1, ChosenFacts, Zenon DEF Kept, InLoop, Passed
  <2>3. Len(p) \in Nat /\ DOMAIN p = 1 .. Len(p)
    BY <2>2, PolicyAssumption, LenProperties, Zenon DEF PolicyAssumption
  <2>4. \/ GoTo(r, "aborted")
        \/ i > Len(p) /\ call' = [call EXCEPT ![r] = AtRule(c, 0)] /\ Leaves
        \/ /\ i <= Len(p) /\ V(i) = "pass" /\ call' = [call EXCEPT ![r] = AtRule(c, i + 1)]
           /\ UNCHANGED <<pc, body, during, config>>
        \/ i <= Len(p) /\ V(i) = "select" /\ UNCHANGED call /\ Leaves
    <3>1. \A w \in {"submit", "parent"} : w \in Chosen
      BY SMT DEF Chosen
    <3>2. GoTo(r, IF c.task = NoTask THEN "submit" ELSE "parent") => pc'[r] \in Chosen
      BY <1>1, <3>1, Zenon DEF GoTo
    <3> QED BY <1>8, <2>1, <3>2, ZenonT(30) DEF EvaluateRule, EvaluateRuleOf, Panic, sharedVars
  <2>5. \A n : AtRule(c, n).policy = p /\ AtRule(c, n).rule = n
    BY SMT DEF AtRule
  <2> HIDE DEF V, p, i, b, c
  <2>6. ASSUME Leaves, call'[r].policy = p, AfterLoop(call'[r], b) PROVE Kept(r)'
    <3>1. pc'[r] \in Chosen /\ body'[r] = b /\ during'[r] = during[r]
      BY <2>6, Zenon DEF b
    <3>2. pc'[r] # "inspect" /\ pc'[r] # "evaluate"
      BY <3>1, ChosenFacts, Zenon
    <3> QED BY <2>2, <2>6, <3>1, <3>2, Zenon DEF Kept
  <2>7. CASE GoTo(r, "aborted")
    BY <1>3, <1>9, <2>7, Zenon DEF GoTo
  <2>8. CASE i > Len(p) /\ call' = [call EXCEPT ![r] = AtRule(c, 0)] /\ Leaves
    <3>1. call'[r] = AtRule(c, 0)
      BY <1>1, <2>8, Zenon
    <3>2. DOMAIN p = 1 .. i - 1
      BY <2>2, <2>3, <2>8, SMT
    <3>3. AfterLoop(call'[r], b)
      <4>1. call'[r].policy = p /\ call'[r].rule = 0
        BY <2>5, <3>1, Zenon
      <4> QED BY <2>2, <3>2, <4>1, Zenon DEF AfterLoop, Passed, V
    <3> QED BY <2>5, <2>6, <2>8, <3>1, <3>3, Zenon
  <2>9. CASE /\ i <= Len(p) /\ V(i) = "pass" /\ call' = [call EXCEPT ![r] = AtRule(c, i + 1)]
             /\ UNCHANGED <<pc, body, during, config>>
    <3>1. call'[r] = AtRule(c, i + 1)
      BY <1>1, <2>9, Zenon
    <3>2. /\ i + 1 \in 1 .. Len(p) + 1
          /\ \A h \in 1 .. (i + 1) - 1 : h \in 1 .. i - 1 \/ h = i
      BY <2>2, <2>3, <2>9, SMT
    <3>3. InLoop(call'[r], b)
      <4>1. call'[r].policy = p /\ call'[r].rule = i + 1
        BY <2>5, <3>1, Zenon
      <4>2. \A h \in 1 .. (i + 1) - 1 : V(h) = "pass"
        BY <2>2, <2>9, <3>2, Zenon
      <4> QED BY <3>2, <4>1, <4>2, Zenon DEF InLoop, Passed, V
    <3>4. /\ pc'[r] = "evaluate" /\ body'[r] = b /\ during'[r] = during[r]
          /\ call'[r].policy = p /\ "evaluate" # "inspect"
      BY <2>1, <2>5, <2>9, <3>1, Zenon DEF b
    <3> QED BY <2>2, <3>3, <3>4, ChosenFacts, Zenon DEF Kept
  <2>10. CASE i <= Len(p) /\ V(i) = "select" /\ UNCHANGED call /\ Leaves
    <3>1. call'[r] = c /\ c.policy = p /\ c.rule = i
      BY <2>10, Zenon DEF c, p, i
    <3>2. i \in DOMAIN p
      BY <2>2, <2>3, <2>10, SMT
    <3>3. AfterLoop(call'[r], b)
      BY <2>2, <2>10, <3>1, <3>2, Zenon DEF AfterLoop, Passed, V
    <3> QED BY <2>6, <2>10, <3>1, <3>3, Zenon
  <2> QED BY <2>4, <2>7, <2>8, <2>9, <2>10, Zenon
<1> QED BY <1>4, <1>5, <1>6, <1>7, <1>8, Zenon DEF RequestStep

LEMMA PolicyKeptStep ==
  InterceptorInv /\ PolicyKept /\ [InterceptorNext]_interceptorVars => PolicyKept'
<1> SUFFICES ASSUME InterceptorInv, PolicyKept, [InterceptorNext]_interceptorVars
             PROVE  PolicyKept'
  OBVIOUS
<1>1. ASSUME NEW p \in Policies, Reload(p) PROVE PolicyKept'
  <2>1. /\ config' = p /\ UNCHANGED <<pc, body, call>>
        /\ during' = [r \in Request |-> IF Handling(r) THEN during[r] \cup {p} ELSE during[r]]
    BY <1>1, Zenon DEF Reload
  <2>2. ASSUME NEW r \in Request PROVE Kept(r)'
    <3>1. Kept(r)
      BY KeptFacts, Zenon
    <3>2. during'[r] = IF Handling(r) THEN during[r] \cup {p} ELSE during[r]
      BY <2>1, Zenon
    <3>3. pc[r] = "inspect" => p \in during'[r]
      BY <3>2, Zenon DEF Handling
    <3>4. during[r] \subseteq during'[r]
      BY <3>2, Zenon
    <3> QED BY <2>1, <3>1, <3>3, <3>4, Zenon DEF Kept, InLoop, AfterLoop, Passed
  <2>3. during' = [r \in Request |-> during'[r]]
    BY <2>1, Zenon
  <2> QED BY <1>1, <2>1, <2>2, <2>3, Zenon DEF PolicyKept, Kept, Chosen, Evaluated
<1>2. CASE TurnUnhealthy \/ UNCHANGED interceptorVars
  <2>1. UNCHANGED <<pc, body, call, during, config>>
    BY <1>2, Zenon DEF TurnUnhealthy, interceptorVars, localVars, sharedVars
  <2> QED BY <2>1, Zenon DEF PolicyKept
<1> QED BY <1>1, <1>2, RequestKeepsPolicy, Zenon DEF InterceptorNext

LEMMA PolicyKeptInit == InterceptorInit => PolicyKept
<1> SUFFICES ASSUME InterceptorInit PROVE PolicyKept
  OBVIOUS
<1>1. config \in Policies /\ during = [r \in Request |-> {}] /\ pc = [r \in Request |-> "new"]
  BY Zenon DEF InterceptorInit
<1>2. \A r \in Request : pc[r] # "inspect" /\ pc[r] \notin {"evaluate", "parent", "store", "submit"}
  BY <1>1, SMT
<1>3. during = [r \in Request |-> during[r]]
  BY <1>1, Zenon
<1> QED BY <1>1, <1>2, <1>3, Zenon DEF PolicyKept

(* The policy of a call, and the rule that gives its event a tag, are      *)
(* chosen once, by the policy in force at that time                        *)
(* (server.go:153-198, engine.go:178-184).                                 *)
THEOREM PolicyIsKept == InterceptorSpec => []PolicyKept
BY PolicyKeptInit, PolicyKeptStep, InterceptorInvariant, PTL DEF InterceptorSpec

(* For any policies, bodies and reloads, the tag of a call is that of the  *)
(* first rule that applies to it in one policy in force while it was       *)
(* handled (server.go:153-198, engine.go:188-274).                         *)
THEOREM TagsFollowPolicy == InterceptorSpec => []TagFollowsPolicy
<1>1. ASSUME InterceptorInv, PolicyKept, NEW r \in Request, pc[r] \in Chosen
      PROVE  /\ call[r].policy \in during[r]
             /\ InPlainNotation(call[r].policy)
                  /\ (body[r].params = NoParams \/ Ordinary(body[r].params))
                => call[r].rule = FirstApplying(call[r].policy, body[r].method, body[r].params)
  <2> DEFINE b == body[r]
             p == call[r].policy
  <2>1. p \in Policies \cap during[r] /\ b.form = "call" /\ AfterLoop(call[r], b)
    BY <1>1, KeptFacts, ChosenFacts, Zenon DEF Kept
  <2>2. /\ b.method \in Seq(STRING) \ {<<>>}
        /\ b.params # NoParams => \A k \in DOMAIN b.params : b.params[k] \in Value
    <3>1. b \in Body \cup {NoBody}
      BY <1>1, Zenon DEF InterceptorInv, CallOK
    <3>2. NoBody.form # "call"
      BY SMT DEF NoBody
    <3> QED BY <2>1, <3>1, <3>2, PolicyAssumption, Zenon DEF PolicyAssumption
  <2>3. p \in Seq(Rule)
    BY <2>1, PolicyAssumption, Zenon DEF PolicyAssumption
  <2> HIDE DEF b
  <2>4. ASSUME InPlainNotation(p), b.params = NoParams \/ Ordinary(b.params)
        PROVE  call[r].rule = FirstApplying(p, b.method, b.params)
    BY <2>1, <2>2, <2>3, <2>4, EndsWithFirst, Zenon
  <2> QED BY <2>1, <2>4, Zenon DEF b
<1>2. InterceptorInv /\ PolicyKept => TagFollowsPolicy
  BY <1>1, Zenon DEF TagFollowsPolicy, Chosen
<1> QED BY <1>2, InterceptorInvariant, PolicyIsKept, PTL
=============================================================================
