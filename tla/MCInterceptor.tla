---------------------------- MODULE MCInterceptor ----------------------------
(***************************************************************************)
(* Interceptor and Trace for TLC.  One policy has a rule with a condition  *)
(* before one that redacts, one an exact amount before a rule that breaks  *)
(* the loop, and one spells the exact amount in another notation.  The     *)
(* calls take the first, the second and no rule, one spells its amount     *)
(* like that policy, one has no parameters, and two bodies are no calls.   *)
(***************************************************************************)
EXTENDS Trace, TLC

CONSTANTS t1

Condition(operator, form, n) ==
  [key |-> "amount", operator |-> operator, value |-> Spelled(form, n)]

Large  == [methods |-> <<<<"pay:", "*">>>>, conditions |-> <<Condition("gt", "plain", 1000)>>,
           redact  |-> <<>>, id |-> 8, riskLevel |-> 4]
Secret == [Large EXCEPT !.methods = <<<<"ops:", "*">>, <<"pay:", "send">>>>,
                        !.conditions = <<>>, !.redact = <<"amount">>]
Exact  == [Large EXCEPT !.methods = <<<<"pay:", "send">>>>,
                        !.conditions = <<Condition("eq", "plain", 1000)>>]
Cents  == [Exact EXCEPT !.conditions = <<Condition("eq", "cents", 1000)>>]

\* The rule has no ID and an empty pattern.
Broken == [Large EXCEPT !.methods = <<<<"pay:", "list">>, <<>>>>, !.conditions = <<>>, !.id = 0]

MCPolicies == {<<Large, Secret>>, <<Exact, Broken>>, <<Cents>>}

Call(method, task, params) ==
  [form |-> "call", method |-> method, task |-> task, params |-> params]

Amount(v) == [amount |-> v]

NotACall(form) == [Call(<<>>, NoTask, NoParams) EXCEPT !.form = form]

MCBody ==
  { Call(<<"pay:", "send">>, t1, Amount(Number(1000))),
    Call(<<"pay:", "send">>, t1, Amount(Spelled("cents", 1000))),
    Call(<<"pay:", "list">>, t1, Amount(Number(1001))),
    Call(<<"pay:", "list">>, NoTask, Amount(Number(1000000))),
    Call(<<"pay:">>, NoTask, NoParams),
    NotACall("garbage"), NotACall("rejected") }

MCReply == {[task |-> t1, state |-> "working"], [task |-> NoTask, state |-> "completed"]}

RequestBufferSymmetry == Permutations(Request) \cup Permutations(Buffer)
=============================================================================
