-------------------------------- MODULE Policy --------------------------------
(***************************************************************************)
(* One rule of a policy against a call: the body of the loop over the      *)
(* rules in evaluatePolicy of interceptor/server.go, with MatchPattern and *)
(* CheckConditions of observer/engine.go, and the assertions that are made *)
(* of the rule that was chosen.  A method is a sequence of name parts, a   *)
(* pattern one that may end in "*".  A parameter is a JSON number or a     *)
(* string; a string is a word or a number with the notation that spells it.*)
(***************************************************************************)
EXTENDS Integers, Sequences, FiniteSets

CONSTANT NoParams  \* the parameters of a request that has none

Number(n)         == [type |-> "number", n |-> n]
Spelled(form, n)  == [type |-> "string", form |-> form, n |-> n]
Word(w)           == Spelled("word", w)

\* %v prints a number in one of two notations, which are "plain" and
\* "exponent".  A string may spell it in others ("1000.00", "+1000").
Plain(n)    == Spelled("plain", n)
Exponent(n) == Spelled("exponent", n)

Text  == [type : {"string"}, form : STRING \ {"word"}, n : Int]
           \cup [type : {"string"}, form : {"word"}, n : STRING]
Value == Text \cup [type : {"number"}, n : Int]

\* A rule of the policy file; of its ID and its risk level, the length.
Rule == [methods    : Seq(Seq(STRING)),
         conditions : Seq([key : STRING, operator : STRING, value : Text]),
         redact     : Seq(STRING),
         id         : Nat,
         riskLevel  : Nat]

maxPolicies   == 256
maxPatterns   == 128
maxConditions == 64
maxRedactKeys == 128
maxParams     == 256

-----------------------------------------------------------------------------

MatchPattern(pattern, method) ==
  LET prefix == Len(pattern) - 1
  IN  /\ pattern # <<>>
      /\ \/ pattern = method
         \/ /\ pattern[Len(pattern)] = "*"
            /\ prefix <= Len(method)
            /\ SubSeq(method, 1, prefix) = SubSeq(pattern, 1, prefix)

\* %v prints a float64 of a million and more in exponent notation.
Million  == 1000000
Small(n) == -Million < n /\ n < Million

Sprint(v) ==
  IF v.type = "string" THEN v
  ELSE IF Small(v.n) THEN Plain(v.n) ELSE Exponent(v.n)

\* Two spellings of one number are different texts.
SameText(a, b) == a.form = b.form /\ a.n = b.n

\* toFloat and ParseFloat: numbers, and strings that spell one.
IsFloat(v) == v.type = "number" \/ v.form # "word"

Holds(cond, v) ==
  LET both == IsFloat(v) /\ IsFloat(cond.value)
  IN  CASE cond.operator = "eq"  -> SameText(Sprint(v), cond.value)
        [] cond.operator = "gt"  -> both /\ v.n > cond.value.n
        [] cond.operator = "lt"  -> both /\ v.n < cond.value.n
        [] cond.operator = "gte" -> both /\ v.n >= cond.value.n
        [] cond.operator = "lte" -> both /\ v.n <= cond.value.n
        [] OTHER                 -> TRUE  \* unknown operators are skipped

CheckConditions(conditions, params) ==
  \A i \in DOMAIN conditions :
    LET cond == conditions[i]
    IN  cond.key \in DOMAIN params /\ Holds(cond, params[cond.key])

\* evaluatePolicy returns the rule: a pattern matches, the conditions hold.
Selects(rule, method, params) ==
  \E j \in DOMAIN rule.methods :
    MatchPattern(rule.methods[j], method) /\ CheckConditions(rule.conditions, params)

\* An assertion fails before that: the rule is too long, there are no
\* parameters to check conditions of, or an empty pattern is come upon.
RulePanics(rule, method, params) ==
  \/ Len(rule.methods) > maxPatterns \/ Len(rule.conditions) > maxConditions
  \/ /\ params = NoParams /\ rule.conditions # <<>>
     /\ \E j \in DOMAIN rule.methods : MatchPattern(rule.methods[j], method)
  \/ \E j \in DOMAIN rule.methods :
       /\ rule.methods[j] = <<>>
       /\ \A h \in 1 .. j - 1 :
            ~(/\ MatchPattern(rule.methods[h], method)
              /\ CheckConditions(rule.conditions, params))

\* The assertions of redactSensitiveData, policyIDOrEmpty and
\* riskLevelOrEmpty of the rule that was returned.
ApplyPanics(rule, params) ==
  \/ /\ rule.redact # <<>>
     /\ \/ Len(rule.redact) > maxRedactKeys
        \/ params # NoParams /\ Cardinality(DOMAIN params) > maxParams
  \/ rule.id \notin 1 .. 128
  \/ rule.riskLevel \notin 1 .. 32

\* How a turn of the loop over the rules ends, with what follows a return.
Verdict(rule, method, params) ==
  IF RulePanics(rule, method, params) THEN "panic"
  ELSE IF ~Selects(rule, method, params) THEN "pass"
  ELSE IF ApplyPanics(rule, params) THEN "panic"
  ELSE "select"

-----------------------------------------------------------------------------
\* What the policy file means, for the property about tags.

\* A wildcard stands for any rest of the name.
Covers(pattern, method) ==
  \/ pattern = method
  \/ \E n \in 0 .. Len(method) : pattern = Append(SubSeq(method, 1, n), "*")

\* Numbers of less than a million, and words and plainly spelled strings.
Ordinary(params) ==
  \A k \in DOMAIN params :
    IF params[k].type = "number" THEN Small(params[k].n)
    ELSE params[k].form \in {"plain", "word"}

\* A policy that spells every number plainly.
InPlainNotation(policies) ==
  \A i \in DOMAIN policies : \A j \in DOMAIN policies[i].conditions :
    policies[i].conditions[j].value.form \in {"plain", "word"}

\* eq compares numbers as numbers.
Means(cond, v) ==
  IF cond.operator = "eq" /\ IsFloat(v) /\ IsFloat(cond.value)
  THEN v.n = cond.value.n
  ELSE Holds(cond, v)

Applies(rule, method, params) ==
  /\ \E j \in DOMAIN rule.methods : Covers(rule.methods[j], method)
  /\ \A i \in DOMAIN rule.conditions :
       LET cond == rule.conditions[i]
       IN  /\ params # NoParams /\ cond.key \in DOMAIN params
           /\ Means(cond, params[cond.key])

FirstApplying(policies, method, params) ==
  LET all == {i \in DOMAIN policies : Applies(policies[i], method, params)}
  IN  IF all = {} THEN 0 ELSE CHOOSE i \in all : \A h \in all : i <= h
=============================================================================
