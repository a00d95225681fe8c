--------------------------- MODULE PolicyDecisions ---------------------------
(***************************************************************************)
(* PolicyService.EvaluatePolicy beside the life cycle of the policies.     *)
(* Only GetPolicy takes the lock: the policy is copied, and then edits,    *)
(* publications and rollbacks go on while the context is resolved (which   *)
(* may read the clock) and the rules of the copy are gone through.         *)
(***************************************************************************)
EXTENDS PolicyLifecycle, PolicyEvaluation

CONSTANTS Evaluations,  \* bound: the calls of EvaluatePolicy
          Requests,
          DayLength,    \* how many instants a day has
          MaxClock      \* bound: the clock is not advanced beyond it

ASSUME DefinitionsAssumption == \A d \in Definitions : ValidatePolicy(d)

ASSUME RulesAssumption == \A d \in Definitions : d.rules \in Seq(Range(d.rules))

ASSUME ClockAssumption == MaxClock \in Nat /\ DayLength \in Nat \ {0}

VARIABLES clock,
          evaluations   \* the local variables of each call

decisionVars == <<policies, versions, published, clock, evaluations>>

NotCalled == [stage |-> "idle"]

DecisionInit == /\ Init
                /\ clock = 0
                /\ evaluations = [e \in Evaluations |-> NotCalled]

-----------------------------------------------------------------------------
(* A call *)

\* GetPolicy.  An unknown policy, or a request without subject, resource or
\* action, is answered with an error and nothing happens.  The variables of
\* the loop have their first values.
StartEvaluation(e, p, request) ==
  /\ evaluations[e].stage = "idle"
  /\ p \in DOMAIN policies
  /\ <<>> \notin {request.subject, request.resource, request.action}
  /\ evaluations' = [evaluations EXCEPT ![e] =
       [stage |-> "copied", id |-> p, policy |-> policies[p], request |-> request,
        started |-> clock, attributes |-> EmptyStore, next |-> 1, hasAllow |-> FALSE,
        hasDeny |-> FALSE, obligations |-> {}, matched |-> {},
        decision |-> policies[p].definition.default]]

ResolveContext(e) ==
  /\ evaluations[e].stage = "copied"
  /\ evaluations' = [evaluations EXCEPT
       ![e].stage = "rules",
       ![e].attributes = Resolve(evaluations[e].request, clock, DayLength)]

\* Mutant of RulesOf: the rules are those the policy has now.
RulesOf_Current(e) == policies[evaluations[e].id].definition.rules

RulesOf(e) == evaluations[e].policy.definition.rules

\* One turn of the loop.  matched holds positions: a rule without identifier
\* is reported by its position.
EvaluateRule(e) ==
  LET v == evaluations[e]
      rule == RulesOf(e)[v.next]
  IN  /\ v.stage = "rules"
      /\ v.next <= Len(RulesOf(e))
      /\ evaluations' = [evaluations EXCEPT ![e] =
           IF RuleMatches(rule, v.request, v.attributes)
           THEN [v EXCEPT !.next = @ + 1,
                          !.hasAllow = @ \/ rule.effect = "allow",
                          !.hasDeny = @ \/ rule.effect = "deny",
                          !.obligations = @ \cup rule.obligations,
                          !.matched = @ \cup {v.next}]
           ELSE [v EXCEPT !.next = @ + 1]]

\* Mutant of DecisionOf: an allow rule overrides a deny rule.
DecisionOf_AllowFirst(v) == CASE v.hasAllow -> "allow"
                              [] v.hasDeny /\ ~v.hasAllow -> "deny"
                              [] OTHER -> v.decision

\* A deny rule overrides every allow rule, and no rule leaves the default.
DecisionOf(v) == CASE v.hasDeny -> "deny"
                   [] v.hasAllow /\ ~v.hasDeny -> "allow"
                   [] OTHER -> v.decision

Answer(e) ==
  /\ evaluations[e].stage = "rules"
  /\ evaluations[e].next > Len(RulesOf(e))
  /\ evaluations' = [evaluations EXCEPT ![e].stage = "answered",
                                        ![e].decision = DecisionOf(evaluations[e])]

EvaluationStep(e) == /\ ResolveContext(e) \/ EvaluateRule(e) \/ Answer(e)
                     /\ UNCHANGED <<vars, clock>>

Tick == /\ clock < MaxClock
        /\ clock' = clock + 1
        /\ UNCHANGED <<vars, evaluations>>

DecisionNext ==
  \/ Next /\ UNCHANGED <<clock, evaluations>>
  \/ \E e \in Evaluations, p \in Policies, request \in Requests :
       StartEvaluation(e, p, request) /\ UNCHANGED <<vars, clock>>
  \/ \E e \in Evaluations : EvaluationStep(e)
  \/ Tick

DecisionSpec == DecisionInit /\ [][DecisionNext]_decisionVars

-----------------------------------------------------------------------------
(* Correctness *)

Called(e) == evaluations[e].stage # "idle"

\* The local variables of a call are well formed: the loop stays within the
\* rules that were copied.
CallsTypeOK ==
  \A e \in Evaluations : Called(e) =>
    LET v == evaluations[e]
    IN  /\ v.stage \in {"copied", "rules", "answered"}
        /\ v.id \in DOMAIN policies
        /\ v.policy \in PolicyRecord
        /\ v.request \in Requests
        /\ v.started \in 0..clock
        /\ v.next \in 1..(Len(v.policy.definition.rules) + 1)
        /\ v.matched \subseteq 1..(v.next - 1)
        /\ v.decision \in {"allow", "deny"}

Answered(e) == evaluations[e].stage = "answered"

\* What a definition says of a request, without going through its rules in
\* an order.
Matching(definition, request, attrs) ==
  {i \in DOMAIN definition.rules : RuleMatches(definition.rules[i], request, attrs)}

Effects(definition, S) == {definition.rules[i].effect : i \in S}

Verdict(definition, S) == CASE "deny" \in Effects(definition, S) -> "deny"
                            [] Effects(definition, S) = {"allow"} -> "allow"
                            [] OTHER -> definition.default

\* "Evaluates access policies and returns deterministic authorization
\* decisions": every answer is what one version of the policy, whose number
\* the copy has, says of the request at one instant between call and answer,
\* in whatever way the policy was edited meanwhile; the version is in the
\* history for ever, so the answer can be explained.
AnswersAreExplained ==
  \A e \in Evaluations : Answered(e) =>
    LET v == evaluations[e]
        definition == versions[v.id][v.policy.version]
    IN  \E t \in v.started..clock :
          LET S == Matching(definition, v.request, Resolve(v.request, t, DayLength))
          IN  /\ v.matched = S
              /\ v.decision = Verdict(definition, S)
              /\ v.obligations = UNION {definition.rules[i].obligations : i \in S}

\* The attribute has the type that the condition c speaks of; neq and nin hold
\* of a value of any other type.
FitsType(a, c) ==
  /\ c.operator \in {"eq", "gt", "gte", "lt", "lte"} => a.kind = c.value.kind
  /\ c.operator = "in" => \E i \in DOMAIN c.value.v : a.kind = c.value.v[i].kind
  /\ c.operator = "between" => \A i \in 1..2 : a.kind = c.value.v[i].kind

\* Where the default is to deny, an answer that allows rests on an allow rule
\* each of whose conditions is about an attribute the request or the clock
\* supplies, with a value of the type the condition speaks of: leaving
\* attributes out, or sending them with another type, opens nothing that is
\* not open to everything but the values named.
AllowIsEarned ==
  \A e \in Evaluations :
    LET v == evaluations[e]
    IN  Answered(e) /\ v.decision = "allow" /\ v.policy.definition.default = "deny" =>
          \E i \in v.matched :
            LET rule == versions[v.id][v.policy.version].rules[i]
            IN  /\ rule.effect = "allow"
                /\ \A c \in rule.conditions : /\ c.attribute \in DOMAIN v.attributes
                                             /\ FitsType(v.attributes[c.attribute], c)

\* The time a decision goes by is one instant, the one the request names or
\* one during the call, whatever attributes the caller sends along.
ContextIsOneInstant ==
  \A e \in Evaluations : evaluations[e].stage \in {"rules", "answered"} =>
    LET v == evaluations[e]
    IN  \E t \in IF v.request.time = NoTime THEN v.started..clock ELSE {v.request.time} :
          \A a \in {"time", "timestamp", "day_of_week"} :
            v.attributes[a] = TimeAttributes(t, DayLength)[a]
=============================================================================
