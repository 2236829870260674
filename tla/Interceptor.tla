----------------------------- MODULE Interceptor -----------------------------
(***************************************************************************)
(* internal/interceptor/server.go with what it shares between concurrent   *)
(* requests: the buffer pool (internal/pool), the task maps of the core    *)
(* engine (internal/core), the policy in force and the worker, seen here   *)
(* as Submit, which appends an event to the ledger or loses it.  Around it *)
(* is the reverse proxy of main.go, which forwards a request after         *)
(* InterceptRequest and answers the client after InterceptResponse.        *)
(***************************************************************************)
EXTENDS Policy

CONSTANTS
  Request,   \* requests that are handled at the same time
  Buffer,    \* buffers of the pool, enough for one per request
  Body,      \* bodies of requests: how they parse, method, task, parameters
  Reply,     \* bodies of responses: that are JSON: task and state
  Policies,  \* configurations of the observer: lists of rules
  NoTask, NoBuffer, NoEvent

ASSUME InterceptorAssumption == NoBuffer \notin Buffer /\ NoEvent \notin Request

ASSUME PolicyAssumption ==
  /\ Policies \subseteq Seq(Rule)
  /\ \A b \in Body :
       /\ b.method \in Seq(STRING) /\ (b.form = "call" => b.method # <<>>)
       /\ b.params # NoParams => \A k \in DOMAIN b.params : b.params[k] \in Value

Task == {b.task : b \in Body} \ {NoTask}

VARIABLES
  pc,           \* where the goroutine of each request is
  buf,          \* the buffer of which its request or response body is a slice
  body,         \* the body that the client sent
  call,         \* what InterceptRequest or InterceptResponse made of the bytes
  array,        \* the message whose bytes are in each buffer
  free,         \* bufferPool
  config,       \* the policy in force
  during,       \* history: the policies in force while a request is handled
  parent,       \* ParentID of the event of each request
  lastEvent,    \* Core.LastEventByTask
  activeTasks,  \* Core.ActiveTasks
  healthy,      \* Worker.IsHealthy
  ledger        \* the events that Submit has recorded

poolVars   == <<array, free>>
localVars  == <<pc, buf, body, call, during>>
taskVars   == <<parent, lastEvent, activeTasks>>
sharedVars == <<config, healthy>>
interceptorVars == <<localVars, poolVars, taskVars, sharedVars, ledger>>

Message   == {"request", "response"} \X Request
NoMessage == <<"none", NoEvent>>

\* No bytes, which are not JSON.
NoBody == [form |-> "garbage", method |-> <<>>, task |-> NoTask, params |-> NoParams]

\* Nothing parsed: the message, the task, the policy that was loaded, and the
\* rule that its evaluation is at or ended with.
NoCall == [of |-> NoMessage, task |-> NoTask, policy |-> <<>>, rule |-> 0]

InterceptorInit ==
  /\ pc = [r \in Request |-> "new"]
  /\ buf = [r \in Request |-> NoBuffer] /\ body = [r \in Request |-> NoBody]
  /\ call = [r \in Request |-> NoCall] /\ during = [r \in Request |-> {}]
  /\ array = [b \in Buffer |-> NoMessage] /\ free = Buffer
  /\ parent = [r \in Request |-> NoEvent]
  /\ lastEvent = [t \in Task |-> NoEvent] /\ activeTasks = [t \in Task |-> "none"]
  /\ config \in Policies /\ healthy = TRUE /\ ledger = <<>>

GoTo(r, where) == pc' = [pc EXCEPT ![r] = where]

ReadIntoShared(r, m) ==
  \E b \in free :
    /\ array' = [array EXCEPT ![b] = m]
    /\ buf' = [buf EXCEPT ![r] = b]
    /\ UNCHANGED free

\* GetBuffer and ReadFrom: any buffer of the pool, or a new one, is filled
\* with the message.  A buffer that was never used stands for a new one.
ReadInto(r, m) ==
  \E b \in free :
    /\ free' = free \ {b}
    /\ array' = [array EXCEPT ![b] = m]
    /\ buf' = [buf EXCEPT ![r] = b]

\* A ReadFrom that fails leaves the bytes it got in a buffer that goes back.
ReadFails(m) ==
  /\ \E b \in free : array' = [array EXCEPT ![b] = m]
  /\ UNCHANGED <<buf, free>>

\* The deferred PutBuffer.  The body goes on being a slice of the buffer.
PutBuffer(r) == free' = free \cup {buf[r]} /\ UNCHANGED array

\* The locals of InterceptRequest and InterceptResponse are gone.
Return(r) ==
  /\ body' = [body EXCEPT ![r] = NoBody]
  /\ call' = [call EXCEPT ![r] = NoCall]
  /\ during' = [during EXCEPT ![r] = {}]

\* Worker.Submit: the event is in the ledger in the end, or lost.
Submit(r, id) ==
  \/ ledger' = Append(ledger, [id |-> id, of |-> call[r].of, task |-> call[r].task,
                               parent |-> IF id[1] = "request" THEN parent[r] ELSE NoEvent])
  \/ UNCHANGED ledger

-----------------------------------------------------------------------------
\* InterceptRequest.

\* Only the body of a POST is looked at; one that cannot be read is used up.
SkipRequest(r) ==
  /\ pc[r] = "new"
  /\ \/ GoTo(r, "forward") /\ UNCHANGED <<buf, poolVars>>
     \/ GoTo(r, "failed") /\ ReadFails(<<"request", r>>)
  /\ UNCHANGED <<body, call, during, taskVars, sharedVars, ledger>>

ReadRequest(r) ==
  /\ pc[r] = "new"
  /\ \E b \in Body : body' = [body EXCEPT ![r] = b]
  /\ ReadInto(r, <<"request", r>>)
  /\ during' = [during EXCEPT ![r] = {config}]
  /\ GoTo(r, "inspect")
  /\ UNCHANGED <<call, taskVars, sharedVars, ledger>>

\* A failed assertion is a panic, on which net/http aborts the connection.
\* Deferred calls are made all the same.
Panic(r) == PutBuffer(r) /\ Return(r) /\ GoTo(r, "aborted")

InspectRequestEarlyPut(r) ==
  LET b == body[array[buf[r]][2]]
  IN  /\ pc[r] = "inspect"
      /\ b.form = "call" /\ Len(config) <= maxPolicies
      /\ call' = [call EXCEPT ![r] = [of |-> array[buf[r]], task |-> b.task,
                                      policy |-> config, rule |-> 1]]
      /\ PutBuffer(r)
      /\ GoTo(r, "evaluate")
      /\ UNCHANGED <<buf, body, during, taskVars, sharedVars, ledger>>

\* extractTaskMetadata, and the load of the rules by evaluatePolicy: a slice
\* that Reload does not write to.  What is not JSON is forwarded without a
\* record.
InspectRequest(r) ==
  LET b == body[array[buf[r]][2]]
  IN  /\ pc[r] = "inspect"
      /\ \/ /\ b.form = "garbage"
            /\ PutBuffer(r) /\ Return(r)
            /\ GoTo(r, "forward")
         \/ /\ IF b.form = "call" THEN Len(config) > maxPolicies ELSE b.form = "rejected"
            /\ Panic(r)
         \/ /\ b.form = "call" /\ Len(config) <= maxPolicies
            /\ call' = [call EXCEPT ![r] = [of |-> array[buf[r]], task |-> b.task,
                                            policy |-> config, rule |-> 1]]
            /\ GoTo(r, "evaluate")
            /\ UNCHANGED <<body, during, poolVars>>
      /\ UNCHANGED <<buf, taskVars, sharedVars, ledger>>

AtRule(c, i) == [of |-> c.of, task |-> c.task, policy |-> c.policy, rule |-> i]

\* One turn of the loop over the rules of a policy.  The first rule that is
\* selected ends it.
EvaluateRuleOf(r, policy) ==
  LET b          == body[call[r].of[2]]
      i          == call[r].rule
      verdict    == Verdict(policy[i], b.method, b.params)
      LeavesLoop == /\ GoTo(r, IF call[r].task = NoTask THEN "submit" ELSE "parent")
                    /\ UNCHANGED <<body, during, poolVars>>
  IN  /\ pc[r] = "evaluate"
      /\ \/ /\ i > Len(policy)
            /\ call' = [call EXCEPT ![r] = AtRule(@, 0)]
            /\ LeavesLoop
         \/ /\ i <= Len(policy) /\ verdict = "pass"
            /\ call' = [call EXCEPT ![r] = AtRule(@, i + 1)]
            /\ UNCHANGED <<pc, body, during, poolVars>>
         \/ /\ i <= Len(policy) /\ verdict = "select"
            /\ LeavesLoop
            /\ UNCHANGED call
         \/ /\ i <= Len(policy) /\ verdict = "panic"
            /\ Panic(r)
      /\ UNCHANGED <<buf, taskVars, sharedVars, ledger>>

EvaluateRuleInForce(r) == EvaluateRuleOf(r, config)

EvaluateRule(r) == EvaluateRuleOf(r, call[r].policy)

LoadParentAfterStore(r) ==
  /\ pc[r] = "parent"
  /\ lastEvent' = [lastEvent EXCEPT ![call[r].task] = r]
  /\ parent' = [parent EXCEPT ![r] = lastEvent'[call[r].task]]
  /\ GoTo(r, "store")
  /\ UNCHANGED <<buf, body, call, during, poolVars, activeTasks, sharedVars, ledger>>

\* submitToolCallEvent: the last event of the task is loaded and replaced in
\* two steps.
LoadParent(r) ==
  /\ pc[r] = "parent"
  /\ parent' = [parent EXCEPT ![r] = lastEvent[call[r].task]]
  /\ GoTo(r, "store")
  /\ UNCHANGED <<buf, body, call, during, poolVars, lastEvent, activeTasks, sharedVars, ledger>>

StoreLast(r) ==
  /\ pc[r] = "store"
  /\ lastEvent' = [lastEvent EXCEPT ![call[r].task] = r]
  /\ GoTo(r, "submit")
  /\ UNCHANGED <<buf, body, call, during, poolVars, parent, activeTasks, sharedVars, ledger>>

\* applyRedactionAndSubmit: a redacted body is a copy of its own.
Redacts(r) == call[r].rule > 0 /\ call[r].policy[call[r].rule].redact # <<>>

SubmitCall(r) ==
  /\ pc[r] = "submit"
  /\ Submit(r, <<"request", r>>)
  /\ PutBuffer(r) /\ Return(r)
  /\ buf' = IF Redacts(r) THEN [buf EXCEPT ![r] = NoBuffer] ELSE buf
  /\ GoTo(r, IF Redacts(r) THEN "copy" ELSE "forward")
  /\ UNCHANGED <<taskVars, sharedVars>>

-----------------------------------------------------------------------------
\* The reverse proxy, and InterceptResponse as its ModifyResponse.

\* The body is the stream of the client, the bytes of the buffer or the
\* redacted copy.  The transport refuses a copy that does not have the
\* length that the request announces.
Forward(r) ==
  /\ \/ pc[r] = "forward" /\ GoTo(r, "upstream")
     \/ pc[r] = "copy" /\ (GoTo(r, "upstream") \/ GoTo(r, "failed"))
  /\ buf' = [buf EXCEPT ![r] = NoBuffer]
  /\ UNCHANGED <<body, call, during, poolVars, taskVars, sharedVars, ledger>>

\* A response that cannot be read is an error for the client.
ReadResponse(r) ==
  /\ pc[r] = "upstream"
  /\ \/ ReadInto(r, <<"response", r>>) /\ GoTo(r, "respond")
     \/ ReadFails(<<"response", r>>) /\ GoTo(r, "failed")
  /\ UNCHANGED <<body, call, during, taskVars, sharedVars, ledger>>

\* The response is parsed and recorded while the worker is healthy.
InspectResponse(r) ==
  /\ pc[r] = "respond"
  /\ \/ /\ PutBuffer(r)
        /\ GoTo(r, "deliver")
        /\ UNCHANGED <<call, activeTasks>>
     \/ \E a \in Reply :
          /\ healthy
          /\ call' = [call EXCEPT ![r] = [NoCall EXCEPT !.of = array[buf[r]], !.task = a.task]]
          /\ activeTasks' = IF a.task \in Task /\ a.state # "none"
                            THEN [activeTasks EXCEPT ![a.task] = a.state] ELSE activeTasks
          /\ GoTo(r, "record")
          /\ UNCHANGED poolVars
  /\ UNCHANGED <<buf, body, during, parent, lastEvent, sharedVars, ledger>>

SubmitResponse(r) ==
  /\ pc[r] = "record"
  /\ Submit(r, <<"response", r>>)
  /\ PutBuffer(r) /\ Return(r)
  /\ GoTo(r, "deliver")
  /\ UNCHANGED <<buf, taskVars, sharedVars>>

Deliver(r) ==
  /\ pc[r] = "deliver"
  /\ buf' = [buf EXCEPT ![r] = NoBuffer]
  /\ GoTo(r, "done")
  /\ UNCHANGED <<body, call, during, poolVars, taskVars, sharedVars, ledger>>

RequestStep(r) ==
  \/ SkipRequest(r) \/ ReadRequest(r) \/ InspectRequest(r) \/ EvaluateRule(r)
  \/ LoadParent(r) \/ StoreLast(r) \/ SubmitCall(r) \/ Forward(r)
  \/ ReadResponse(r) \/ InspectResponse(r) \/ SubmitResponse(r) \/ Deliver(r)

-----------------------------------------------------------------------------
\* Reload of the observer, and an event that the worker could not store.

Handling(r) == pc[r] \in {"inspect", "evaluate", "parent", "store", "submit"}

Reload(p) ==
  /\ config' = p
  /\ during' = [r \in Request |-> IF Handling(r) THEN during[r] \cup {p} ELSE during[r]]
  /\ UNCHANGED <<pc, buf, body, call, poolVars, taskVars, healthy, ledger>>

TurnUnhealthy ==
  /\ healthy' = FALSE
  /\ UNCHANGED <<localVars, poolVars, taskVars, config, ledger>>

InterceptorNext ==
  \/ \E r \in Request : RequestStep(r)
  \/ \E p \in Policies : Reload(p)
  \/ TurnUnhealthy

InterceptorSpec == InterceptorInit /\ [][InterceptorNext]_interceptorVars

-----------------------------------------------------------------------------

InterceptorTypeOK ==
  /\ pc \in [Request -> {"new", "inspect", "evaluate", "parent", "store", "submit", "copy",
                         "forward", "upstream", "respond", "record", "deliver", "done",
                         "failed", "aborted"}]
  /\ buf \in [Request -> Buffer \cup {NoBuffer}] /\ free \subseteq Buffer
  /\ array \in [Buffer -> Message \cup {NoMessage}]
  /\ parent \in [Request -> Request \cup {NoEvent}]
  /\ lastEvent \in [Task -> Request \cup {NoEvent}]

InUse(r) == Handling(r) \/ pc[r] \in {"respond", "record"}

(* From GetBuffer to the deferred PutBuffer a buffer belongs to one        *)
(* request: it is not in the pool and no other handler works on it         *)
(* (pool.go:132-156, server.go:60-61, 278-279).                            *)
BufferExclusive ==
  \A r \in Request : InUse(r) =>
    /\ buf[r] \in Buffer \ free
    /\ \A q \in Request : InUse(q) /\ buf[q] = buf[r] => q = r

(* However buffers are reused, a recorded event is about the request or    *)
(* the response it was made for (server.go:67-71, 212-218, 284-290).       *)
RecordsOwnBody == \A i \in DOMAIN ledger : ledger[i].of = ledger[i].id

TaskId == Task \cup {NoTask} \cup {a.task : a \in Reply}
Event  == [id : Message, of : Message \cup {NoMessage}, task : TaskId,
           parent : Request \cup {NoEvent}]

\* What was parsed is about a task, and about one with a last event while the
\* parent is looked up.
CallOK ==
  /\ body \in [Request -> Body \cup {NoBody}] /\ ledger \in Seq(Event)
  /\ call = [r \in Request |-> call[r]]
  /\ \A r \in Request :
       /\ call[r].of \in Message \cup {NoMessage} /\ call[r].task \in TaskId
       /\ pc[r] = "evaluate" => call[r].task \in Task \cup {NoTask}
       /\ pc[r] \in {"parent", "store"} => call[r].task \in Task

\* The bytes in a buffer in use, and what was parsed from them, are those of
\* its request or of its response.
OwnBytes ==
  \A r \in Request :
    /\ Handling(r) => array[buf[r]] = <<"request", r>>
    /\ pc[r] \in {"evaluate", "parent", "store", "submit"} => call[r].of = <<"request", r>>
    /\ pc[r] \in {"respond", "record"} => array[buf[r]] = <<"response", r>>
    /\ pc[r] = "record" => call[r].of = <<"response", r>>

(* The inductive invariant behind BufferExclusive and RecordsOwnBody: a    *)
(* buffer keeps its bytes as long as its handler works on it               *)
(* (pool.go:132-156, server.go:51-97, 277-328).                            *)
InterceptorInv ==
  InterceptorTypeOK /\ CallOK /\ BufferExclusive /\ OwnBytes /\ RecordsOwnBody

Passed(c, b, h) == Verdict(c.policy[h], b.method, b.params) = "pass"

\* Where the evaluation of a call is: at a rule, or at its end.
InLoop(c, b) == c.rule \in 1 .. Len(c.policy) + 1 /\ \A h \in 1 .. c.rule - 1 : Passed(c, b, h)

AfterLoop(c, b) ==
  \/ c.rule = 0 /\ \A h \in DOMAIN c.policy : Passed(c, b, h)
  \/ /\ c.rule \in DOMAIN c.policy
     /\ Verdict(c.policy[c.rule], b.method, b.params) = "select"
     /\ \A h \in 1 .. c.rule - 1 : Passed(c, b, h)

\* A call is evaluated against one policy, which was in force meanwhile.
PolicyKept ==
  /\ config \in Policies /\ during = [r \in Request |-> during[r]]
  /\ \A r \in Request :
       /\ pc[r] = "inspect" => config \in during[r]
       /\ pc[r] \in {"evaluate", "parent", "store", "submit"} =>
            body[r].form = "call" /\ call[r].policy \in Policies \cap during[r]
       /\ pc[r] = "evaluate" => InLoop(call[r], body[r])
       /\ pc[r] \in {"parent", "store", "submit"} => AfterLoop(call[r], body[r])

(* The event of a call carries the tag that one policy in force during its *)
(* handling gives it, whenever and however often the policy is reloaded    *)
(* between the turns of the loop over its rules: the first rule that       *)
(* covers the method and whose conditions hold (server.go:153-198,         *)
(* engine.go:188-274).  Of conditions on numbers this is said where every  *)
(* number is spelled plainly, as %v spells those of less than a million:   *)
(* eq compares texts (engine.go:239), so "1000.00" is not 1000 to it.      *)
TagFollowsPolicy ==
  \A r \in Request :
    LET b == body[r]
    IN  pc[r] \in {"parent", "store", "submit"} =>
          /\ call[r].policy \in during[r]
          /\ InPlainNotation(call[r].policy) /\ (b.params = NoParams \/ Ordinary(b.params))
               => call[r].rule = FirstApplying(call[r].policy, b.method, b.params)

-----------------------------------------------------------------------------
\* What the comments say of the interceptor, for the run that refutes it.

(* server.go:331: "Logryph now operates as a passive recorder".  The bytes *)
(* that are about to go to the tool server or to the client are those that *)
(* came from the other.                                                    *)
ForwardsOwnBody ==
  \A r \in Request : buf[r] # NoBuffer =>
    /\ pc[r] = "forward" => array[buf[r]] = <<"request", r>>
    /\ pc[r] = "deliver" => array[buf[r]] = <<"response", r>>
=============================================================================
