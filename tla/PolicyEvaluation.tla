--------------------------- MODULE PolicyEvaluation ---------------------------
(***************************************************************************)
(* What a policy says of a request: the patterns, conditions and context   *)
(* of internal/service/policy_service.go and context_resolver_service.go.  *)
(*                                                                         *)
(* A name matched by patterns is a sequence of segments, so that a prefix  *)
(* is a prefix; it is empty when trimming leaves nothing.  An attribute    *)
(* value is tagged with its JSON type; a text is its rank in the byte      *)
(* order, and the rank -r is a spelling with capitals of the text r (the   *)
(* capitals come first).  The sets of patterns, conditions and obligations *)
(* are lists in the code, whose order has no effect here.                  *)
(***************************************************************************)
EXTENDS Integers, Sequences, SequencesExt

Number(n) == [v |-> n, kind |-> "number"]
Text(r)   == [v |-> r, kind |-> "text"]
List(s)   == [v |-> s, kind |-> "list"]

\* strings.ToLower
Lower(text) == IF text.v < 0 THEN Text(-text.v) ELSE text

-----------------------------------------------------------------------------
(* Definitions *)

NonEmpty(s) == s # {}

Operators == {"eq", "neq", "gt", "gte", "lt", "lte", "in", "nin", "between"}

\* ValidatePolicy: the schema policy_v1.json.
ValidatePolicy(definition) ==
  /\ definition.default \in {"allow", "deny"}
  /\ definition.rules # <<>>
  /\ \A i \in DOMAIN definition.rules :
       LET rule == definition.rules[i]
       IN  /\ rule.effect \in {"allow", "deny"}
           /\ NonEmpty(rule.subjects) /\ NonEmpty(rule.resources) /\ NonEmpty(rule.actions)
           /\ \A c \in rule.conditions : c.operator \in Operators

-----------------------------------------------------------------------------
(* Patterns *)

\* An open pattern ends in an asterisk; the pattern "*" has an empty prefix.
MatchesPattern(pattern, value) ==
  \/ pattern.open /\ IsPrefix(pattern.text, value)
  \/ ~pattern.open /\ pattern.text = value

MatchesAny(patterns, value) == \E pattern \in patterns : MatchesPattern(pattern, value)

-----------------------------------------------------------------------------
(* Conditions *)

LooselyEqual(a, b) == a.kind = b.kind /\ a.v = b.v

\* Mutant of Comparable: a number is compared with a text.
Comparable_AnyScalars(a, b) == {a.kind, b.kind} \subseteq {"number", "text"}

Comparable(a, b) == a.kind = b.kind /\ a.kind \in {"number", "text"}

IsListed(list, a) == \E i \in DOMAIN list.v : LooselyEqual(a, list.v[i])

EvaluateCondition(actual, operator, expected) ==
  \/ operator = "eq"  /\ LooselyEqual(actual, expected)
  \/ operator = "neq" /\ ~LooselyEqual(actual, expected)
  \/ Comparable(actual, expected)
     /\ \/ operator = "gt"  /\ actual.v > expected.v
        \/ operator = "gte" /\ actual.v >= expected.v
        \/ operator = "lt"  /\ actual.v < expected.v
        \/ operator = "lte" /\ actual.v <= expected.v
  \/ expected.kind = "list"
     /\ \/ operator = "in"  /\ IsListed(expected, actual)
        \/ operator = "nin" /\ ~IsListed(expected, actual)
        \/ /\ operator = "between"
           /\ Len(expected.v) = 2
           /\ \A i \in 1..2 : Comparable(actual, expected.v[i])
           /\ expected.v[1].v <= actual.v /\ actual.v <= expected.v[2].v

\* Mutant of ConditionsMatch: a missing attribute is passed over.
ConditionsMatch_Lenient(conditions, attrs) ==
  \A c \in conditions : c.attribute \in DOMAIN attrs =>
                          EvaluateCondition(attrs[c.attribute], c.operator, c.value)

\* An attribute the request does not have satisfies no condition, neq and
\* nin included.
ConditionsMatch(conditions, attrs) ==
  \A c \in conditions : /\ c.attribute \in DOMAIN attrs
                        /\ EvaluateCondition(attrs[c.attribute], c.operator, c.value)

RuleMatches(rule, request, attrs) == /\ MatchesAny(rule.subjects, request.subject)
                                     /\ MatchesAny(rule.resources, request.resource)
                                     /\ MatchesAny(rule.actions, request.action)
                                     /\ ConditionsMatch(rule.conditions, attrs)

-----------------------------------------------------------------------------
(* Context *)

NoTime == -1   \* request_time is absent or not RFC 3339

\* The ranks of the names from thursday on, the weekday of the first day: friday
\* comes first in the byte order, then monday, saturday, sunday, thursday.
WeekdayRank == <<4, 0, 2, 3, 1, 5, 6>>

\* The three renderings of an instant, in the units the conditions compare;
\* a day has DayLength of them.
TimeAttributes(t, DayLength) ==
  [time |-> Text(t % DayLength),
   timestamp |-> Text(t),
   day_of_week |-> Text(WeekdayRank[((t \div DayLength) % 7) + 1])]

\* The fields of the request: absent ones are not in the domain.
FieldAttributes(fields) ==
  [f \in DOMAIN fields |-> IF f = "device_trust" THEN Lower(fields[f]) ELSE fields[f]]

\* Both maps, the upper one where they meet.
Over(upper, lower) ==
  [a \in DOMAIN upper \cup DOMAIN lower |-> IF a \in DOMAIN upper THEN upper[a] ELSE lower[a]]

\* Mutant of Resolve: the caller's attributes are laid over the context.
Resolve_CallerWins(request, now, DayLength) ==
  Over(request.attributes,
       Over(TimeAttributes(IF request.time = NoTime THEN now ELSE request.time, DayLength),
            FieldAttributes(request.fields)))

\* Mutant of Resolve: the clock is read again for the day of the week.
Resolve_TwoReadings(request, now, DayLength) ==
  LET at(n) == TimeAttributes(IF request.time = NoTime THEN n ELSE request.time, DayLength)
  IN  Over([at(now) EXCEPT !.day_of_week = at(now + 1).day_of_week],
           Over(FieldAttributes(request.fields), request.attributes))

\* The attributes the caller chose, under the fields, under the time.
Resolve(request, now, DayLength) ==
  Over(TimeAttributes(IF request.time = NoTime THEN now ELSE request.time, DayLength),
       Over(FieldAttributes(request.fields), request.attributes))
=============================================================================
