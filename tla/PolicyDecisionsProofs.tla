------------------------ MODULE PolicyDecisionsProofs ------------------------
(***************************************************************************)
(* Safety of PolicyDecisions for any policies, definitions, requests and   *)
(* number of calls at a time: what a call answers is what one version of   *)
(* the policy says, whatever is edited while it runs.                      *)
(***************************************************************************)
EXTENDS PolicyDecisions, PolicyLifecycleProofs

\* The copy is a version of the policy, and the context is that of an instant
\* of the call.
CopyOK(v) ==
  /\ v.id \in DOMAIN policies
  /\ v.policy.version \in DOMAIN versions[v.id]
  /\ versions[v.id][v.policy.version] = v.policy.definition
  /\ v.started \in 0..clock
  /\ v.stage \in {"rules", "answered"} =>
       \E t \in v.started..clock : v.attributes = Resolve(v.request, t, DayLength)

\* The rules that match among those before the current one.
Seen(v) == {i \in Matching(v.policy.definition, v.request, v.attributes) : i < v.next}

\* A record with the local variables of a call.
Locals == {"stage", "id", "policy", "request", "started", "attributes", "next", "hasAllow",
           "hasDeny", "obligations", "matched", "decision"}

IsCall(v) == DOMAIN v = Locals /\ v = [f \in Locals |-> v[f]]

\* The invariant of the loop, and what its end leaves.
LoopOK(v) ==
  /\ IsCall(v)
  /\ v.stage \in {"copied", "rules", "answered"}
  /\ v.policy \in PolicyRecord
  /\ v.request \in Requests
  /\ v.next \in 1..(Len(v.policy.definition.rules) + 1)
  /\ v.stage = "copied" => v.next = 1
  /\ v.matched = Seen(v)
  /\ v.hasAllow \in BOOLEAN /\ v.hasDeny \in BOOLEAN
  /\ v.hasAllow <=> "allow" \in Effects(v.policy.definition, Seen(v))
  /\ v.hasDeny <=> "deny" \in Effects(v.policy.definition, Seen(v))
  /\ v.obligations = UNION {v.policy.definition.rules[i].obligations : i \in Seen(v)}
  /\ v.stage # "answered" => v.decision = v.policy.definition.default
  /\ v.stage = "answered" => /\ v.next = Len(v.policy.definition.rules) + 1
                             /\ v.decision = Verdict(v.policy.definition, Seen(v))

CallsOK == \A e \in Evaluations : Called(e) => CopyOK(evaluations[e]) /\ LoopOK(evaluations[e])

DInv == /\ IInv
        /\ clock \in Nat
        /\ DOMAIN evaluations = Evaluations
        /\ CallsOK

-----------------------------------------------------------------------------
(* Definitions *)

LEMMA RulesOfDefinition ==
  ASSUME NEW d \in Definitions
  PROVE  /\ Len(d.rules) \in Nat
         /\ DOMAIN d.rules = 1..Len(d.rules)
         /\ \A i \in DOMAIN d.rules : d.rules[i].effect \in {"allow", "deny"}
         /\ d.default \in {"allow", "deny"}
BY DefinitionsAssumption, RulesAssumption DEF ValidatePolicy

\* With no rule seen, there are no effects and no obligations.
LEMMA NothingSeen ==
  ASSUME NEW v, v.policy.definition \in Definitions, v.next = 1
  PROVE  Seen(v) = {}
BY RulesOfDefinition DEF Seen, Matching

-----------------------------------------------------------------------------
(* Steps of the policies and of the clock *)

LEMMA VersionsGrow ==
  ASSUME IInv, [Next]_vars
  PROVE  /\ DOMAIN policies \subseteq DOMAIN policies'
         /\ \A p \in DOMAIN policies :
              /\ DOMAIN versions[p] \subseteq DOMAIN versions'[p]
              /\ \A n \in DOMAIN versions[p] : versions'[p][n] = versions[p][n]
<1>0. TypeOK /\ DOMAIN versions = DOMAIN policies
  BY DEF IInv, TypeOK
<1>1. CASE UNCHANGED vars
  BY <1>1 DEF vars
<1>2. ASSUME NEW p \in Policies, NEW name \in Names, NEW definition \in Definitions,
             Creates(p, name, definition)
      PROVE  /\ DOMAIN policies \subseteq DOMAIN policies'
             /\ \A q \in DOMAIN policies : versions'[q] = versions[q]
  BY <1>0, <1>2 DEF Creates, Becomes
<1>3. ASSUME NEW p \in Policies, NEW name \in Names, NEW definition \in Definitions,
             NEW status \in {"draft", "published"}, Appends(p, name, definition, status)
      PROVE  /\ DOMAIN policies \subseteq DOMAIN policies'
             /\ \A q \in DOMAIN policies : DOMAIN versions[q] \subseteq DOMAIN versions'[q]
  BY <1>0, <1>3 DEF Appends, Becomes, Put
<1>4. ASSUME NEW p \in Policies, NEW record \in PolicyRecord, Keeps(p, record)
      PROVE  /\ DOMAIN policies \subseteq DOMAIN policies'
             /\ \A q \in DOMAIN policies : versions'[q] = versions[q]
  BY <1>0, <1>4 DEF Keeps, Becomes
<1>5. VersionsKept
  BY NextInv
<1> QED
  BY <1>0, <1>1, <1>2, <1>3, <1>4, <1>5, StepCases DEF VersionsKept

LEMMA LifecycleStep ==
  ASSUME DInv, [Next]_vars, clock' \in Nat, clock <= clock', UNCHANGED evaluations
  PROVE  DInv'
<1>1. IInv'
  BY NextInv DEF DInv
<1>2. ASSUME NEW e \in Evaluations, Called(e)
      PROVE  CopyOK(evaluations[e])'
  <2>1. CopyOK(evaluations[e]) /\ clock \in Nat
    BY <1>2 DEF DInv, CallsOK
  <2>2. 0..clock \subseteq 0..clock'
    BY <2>1
  <2>3. evaluations[e].started..clock \subseteq evaluations[e].started..clock'
    BY <2>1 DEF CopyOK
  <2> QED  BY <2>1, <2>2, <2>3, VersionsGrow DEF DInv, CopyOK
<1>3. ASSUME NEW e \in Evaluations, Called(e)
      PROVE  LoopOK(evaluations[e])'
  BY <1>3 DEF DInv, CallsOK
<1> QED  BY <1>1, <1>2, <1>3 DEF DInv, CallsOK, Called

-----------------------------------------------------------------------------
(* Steps of a call *)

\* One call has new local variables, and nothing else changes.
Goes(e, w) == /\ UNCHANGED <<vars, clock>>
              /\ evaluations' = [evaluations EXCEPT ![e] = w]

LEMMA GoesPreserves ==
  ASSUME DInv, NEW e \in Evaluations, NEW w, CopyOK(w), LoopOK(w), Goes(e, w)
  PROVE  DInv'
<1>1. IInv' /\ clock' = clock
  BY DEF DInv, Goes, IInv, vars, TypeOK, HistoryComplete, PublishedExists, PublishedIsCurrent
<1>2. /\ DOMAIN evaluations' = Evaluations
      /\ evaluations'[e] = w
      /\ \A f \in Evaluations \ {e} : evaluations'[f] = evaluations[f]
  BY DEF DInv, Goes
<1>3. policies' = policies /\ versions' = versions
  BY DEF Goes, vars
<1>4. ASSUME NEW f \in Evaluations, Called(f)'
      PROVE  CopyOK(evaluations[f])' /\ LoopOK(evaluations[f])'
  <2>1. CASE f = e
    BY <1>1, <1>2, <1>3, <2>1 DEF CopyOK
  <2>2. CASE f # e
    <3>1. Called(f) /\ CopyOK(evaluations[f]) /\ LoopOK(evaluations[f])
      BY <1>2, <1>4, <2>2 DEF DInv, CallsOK, Called
    <3> QED  BY <1>1, <1>2, <1>3, <2>2, <3>1 DEF CopyOK
  <2> QED  BY <2>1, <2>2
<1> QED  BY <1>1, <1>2, <1>4 DEF DInv, CallsOK

LEMMA StartStep ==
  ASSUME DInv, NEW e \in Evaluations, NEW p \in Policies, NEW request \in Requests,
         StartEvaluation(e, p, request), UNCHANGED <<vars, clock>>
  PROVE  DInv'
<1> DEFINE w == [stage |-> "copied", id |-> p, policy |-> policies[p], request |-> request,
                 started |-> clock, attributes |-> EmptyStore, next |-> 1, hasAllow |-> FALSE,
                 hasDeny |-> FALSE, obligations |-> {}, matched |-> {},
                 decision |-> policies[p].definition.default]
<1>1. p \in DOMAIN policies /\ Goes(e, w)
  BY DEF StartEvaluation, Goes
<1>2. policies[p] \in PolicyRecord /\ policies[p].definition \in Definitions
  BY <1>1 DEF DInv, IInv, TypeOK, IsStore, PolicyRecord
<1>3. /\ policies[p].version \in DOMAIN versions[p]
      /\ versions[p][policies[p].version] = policies[p].definition
  BY <1>1, <1>2 DEF DInv, IInv, HistoryComplete, PolicyRecord
<1>4. CopyOK(w)
  BY <1>1, <1>3 DEF CopyOK, DInv
<1>5. LoopOK(w)
  <2>1. Seen(w) = {}
    BY <1>2, NothingSeen
  <2>2. 1 \in 1..(Len(policies[p].definition.rules) + 1)
    BY <1>2, RulesOfDefinition
  <2> QED  BY <1>2, <2>1, <2>2 DEF LoopOK, Effects, IsCall, Locals
<1> HIDE DEF w
<1> QED  BY <1>1, <1>4, <1>5, GoesPreserves

LEMMA ResolveStep ==
  ASSUME DInv, NEW e \in Evaluations, ResolveContext(e), UNCHANGED <<vars, clock>>
  PROVE  DInv'
<1> DEFINE v == evaluations[e]
           w == [v EXCEPT !.stage = "rules",
                          !.attributes = Resolve(v.request, clock, DayLength)]
<1>1. v.stage = "copied" /\ CopyOK(v) /\ LoopOK(v) /\ clock \in Nat
  BY DEF ResolveContext, DInv, CallsOK, Called
<1>2. Goes(e, w)
  BY DEF ResolveContext, Goes, DInv
<1> HIDE DEF v
<1>3. /\ w.stage = "rules" /\ w.id = v.id /\ w.policy = v.policy /\ w.request = v.request
      /\ w.started = v.started /\ w.attributes = Resolve(v.request, clock, DayLength)
      /\ w.next = v.next /\ w.hasAllow = v.hasAllow /\ w.hasDeny = v.hasDeny
      /\ w.obligations = v.obligations /\ w.matched = v.matched
      /\ w.decision = v.decision /\ IsCall(w)
  BY <1>1 DEF LoopOK, IsCall, Locals
<1> HIDE DEF w
<1>4. CopyOK(w)
  <2>1. clock \in v.started..clock
    BY <1>1 DEF CopyOK
  <2> QED  BY <1>1, <1>3, <2>1 DEF CopyOK
<1>5. LoopOK(w)
  <2>1. v.policy.definition \in Definitions /\ v.next = 1 /\ w.next = 1
    BY <1>1, <1>3 DEF LoopOK, PolicyRecord
  <2>2. Seen(v) = {} /\ Seen(w) = {}
    BY <1>3, <2>1, NothingSeen
  <2> QED  BY <1>1, <1>3, <2>1, <2>2 DEF LoopOK, Effects
<1> QED  BY <1>2, <1>4, <1>5, GoesPreserves

LEMMA RuleStep ==
  ASSUME DInv, NEW e \in Evaluations, EvaluateRule(e), UNCHANGED <<vars, clock>>
  PROVE  DInv'
<1> DEFINE v == evaluations[e]
           d == v.policy.definition
           rule == d.rules[v.next]
           matches == RuleMatches(rule, v.request, v.attributes)
           w == IF matches
                THEN [v EXCEPT !.next = @ + 1,
                               !.hasAllow = @ \/ rule.effect = "allow",
                               !.hasDeny = @ \/ rule.effect = "deny",
                               !.obligations = @ \cup rule.obligations,
                               !.matched = @ \cup {v.next}]
                ELSE [v EXCEPT !.next = @ + 1]
<1>1. /\ v.stage = "rules" /\ v.next <= Len(d.rules)
      /\ CopyOK(v) /\ LoopOK(v)
  BY DEF EvaluateRule, RulesOf, DInv, CallsOK, Called
<1>2. Goes(e, w)
  BY DEF EvaluateRule, RulesOf, Goes, DInv
<1>3. d \in Definitions /\ v.next \in Nat /\ v.next \in DOMAIN d.rules
  BY <1>1, RulesOfDefinition DEF LoopOK, PolicyRecord
<1> HIDE DEF v, rule
<1>4. /\ w.stage = "rules" /\ w.id = v.id /\ w.policy = v.policy /\ w.request = v.request
      /\ w.started = v.started /\ w.attributes = v.attributes /\ w.decision = v.decision
      /\ w.next = v.next + 1
      /\ w.hasAllow = (v.hasAllow \/ (matches /\ rule.effect = "allow"))
      /\ w.hasDeny = (v.hasDeny \/ (matches /\ rule.effect = "deny"))
      /\ w.obligations = v.obligations \cup (IF matches THEN rule.obligations ELSE {})
      /\ w.matched = v.matched \cup (IF matches THEN {v.next} ELSE {})
      /\ IsCall(w)
  <2>1. IsCall(v) /\ v.hasAllow \in BOOLEAN /\ v.hasDeny \in BOOLEAN /\ v.stage = "rules"
    BY <1>1 DEF LoopOK
  <2> HIDE DEF matches
  <2>2. CASE matches
    BY <2>1, <2>2 DEF IsCall, Locals
  <2>3. CASE ~matches
    BY <2>1, <2>3 DEF IsCall, Locals
  <2> QED  BY <2>2, <2>3
<1> HIDE DEF w
<1>5. Seen(w) = Seen(v) \cup (IF matches THEN {v.next} ELSE {})
  <2>1. \A i \in DOMAIN d.rules : i < v.next + 1 <=> i < v.next \/ i = v.next
    BY <1>3, RulesOfDefinition
  <2> QED  BY <1>3, <1>4, <2>1 DEF Seen, Matching, rule
<1>6. CopyOK(w)
  BY <1>1, <1>4 DEF CopyOK
<1>7. LoopOK(w)
  <2>1. w.next \in 1..(Len(d.rules) + 1)
    BY <1>1, <1>3, <1>4, RulesOfDefinition
  <2>2. ASSUME NEW eff
        PROVE  eff \in Effects(d, Seen(w)) <=>
                 \/ eff \in Effects(d, Seen(v))
                 \/ matches /\ rule.effect = eff
    BY <1>5 DEF Effects, rule
  <2>3. w.obligations = UNION {d.rules[i].obligations : i \in Seen(w)}
    <3>1. v.obligations = UNION {d.rules[i].obligations : i \in Seen(v)}
      BY <1>1 DEF LoopOK
    <3>2. CASE matches
      <4>1. w.obligations = v.obligations \cup d.rules[v.next].obligations
        BY <1>4, <3>2 DEF rule
      <4>2. Seen(w) = Seen(v) \cup {v.next}
        BY <1>5, <3>2
      <4> QED  BY <3>1, <4>1, <4>2
    <3>3. CASE ~matches
      BY <1>4, <1>5, <3>1, <3>3
    <3> QED  BY <3>2, <3>3
  <2> QED  BY <1>1, <1>4, <1>5, <2>1, <2>2, <2>3 DEF LoopOK
<1> QED  BY <1>2, <1>6, <1>7, GoesPreserves

LEMMA AnswerStep ==
  ASSUME DInv, NEW e \in Evaluations, Answer(e), UNCHANGED <<vars, clock>>
  PROVE  DInv'
<1> DEFINE v == evaluations[e]
           d == v.policy.definition
           w == [v EXCEPT !.stage = "answered", !.decision = DecisionOf(v)]
<1>1. v.stage = "rules" /\ v.next > Len(d.rules) /\ CopyOK(v) /\ LoopOK(v)
  BY DEF Answer, RulesOf, DInv, CallsOK, Called
<1>2. Goes(e, w)
  BY DEF Answer, Goes, DInv
<1>3. d \in Definitions /\ v.next = Len(d.rules) + 1
  BY <1>1, RulesOfDefinition DEF LoopOK, PolicyRecord
<1> HIDE DEF v
<1>4. /\ w.stage = "answered" /\ w.id = v.id /\ w.policy = v.policy /\ w.request = v.request
      /\ w.started = v.started /\ w.attributes = v.attributes /\ w.next = v.next
      /\ w.hasAllow = v.hasAllow /\ w.hasDeny = v.hasDeny
      /\ w.obligations = v.obligations /\ w.matched = v.matched
      /\ w.decision = DecisionOf(v) /\ IsCall(w)
  BY <1>1 DEF LoopOK, IsCall, Locals
<1> HIDE DEF w
<1>5. Seen(w) = Seen(v)
  BY <1>4 DEF Seen
<1>6. DecisionOf(v) = Verdict(d, Seen(v))
  <2>1. Effects(d, Seen(v)) \subseteq {"allow", "deny"}
    BY <1>3, RulesOfDefinition DEF Effects, Seen, Matching
  <2>2. /\ v.hasAllow <=> "allow" \in Effects(d, Seen(v))
        /\ v.hasDeny <=> "deny" \in Effects(d, Seen(v))
        /\ v.decision = d.default
    BY <1>1 DEF LoopOK
  <2>3. CASE v.hasDeny
    BY <2>2, <2>3 DEF DecisionOf, Verdict
  <2>4. CASE v.hasAllow /\ ~v.hasDeny
    <3>1. Effects(d, Seen(v)) = {"allow"}
      BY <2>1, <2>2, <2>4
    <3> QED  BY <2>2, <2>4, <3>1 DEF DecisionOf, Verdict
  <2>5. CASE ~v.hasAllow /\ ~v.hasDeny
    BY <2>1, <2>2, <2>5 DEF DecisionOf, Verdict
  <2> QED  BY <2>3, <2>4, <2>5
<1>7. CopyOK(w)
  BY <1>1, <1>4 DEF CopyOK
<1>8. LoopOK(w)
  BY <1>1, <1>3, <1>4, <1>5, <1>6 DEF LoopOK
<1> QED  BY <1>2, <1>7, <1>8, GoesPreserves

-----------------------------------------------------------------------------
(* The theorems *)

LEMMA DInit == DecisionInit => DInv
BY InitInv DEF DecisionInit, DInv, CallsOK, Called, NotCalled

LEMMA DNext == DInv /\ [DecisionNext]_decisionVars => DInv'
<1> SUFFICES ASSUME DInv, [DecisionNext]_decisionVars PROVE DInv'
  OBVIOUS
<1>0. clock \in Nat
  BY DEF DInv
<1>1. CASE UNCHANGED decisionVars
  BY <1>0, <1>1, LifecycleStep DEF decisionVars, vars
<1>2. CASE Next /\ UNCHANGED <<clock, evaluations>>
  BY <1>0, <1>2, LifecycleStep
<1>3. ASSUME NEW e \in Evaluations, NEW p \in Policies, NEW request \in Requests,
             StartEvaluation(e, p, request), UNCHANGED <<vars, clock>>
      PROVE  DInv'
  BY <1>3, StartStep
<1>4. ASSUME NEW e \in Evaluations, EvaluationStep(e)
      PROVE  DInv'
  BY <1>4, ResolveStep, RuleStep, AnswerStep DEF EvaluationStep
<1>5. CASE Tick
  BY <1>0, <1>5, LifecycleStep DEF Tick, vars
<1> QED  BY <1>1, <1>2, <1>3, <1>4, <1>5 DEF DecisionNext

LEMMA DInvariance == DecisionSpec => []DInv
BY DInit, DNext, PTL DEF DecisionSpec

\* The loop stays within the rules that were copied.
THEOREM LoopWithinCopy == DecisionSpec => []CallsTypeOK
<1>1. DInv => CallsTypeOK
  <2> SUFFICES ASSUME DInv, NEW e \in Evaluations, Called(e)
               PROVE  LET v == evaluations[e]
                      IN  /\ v.stage \in {"copied", "rules", "answered"}
                          /\ v.id \in DOMAIN policies
                          /\ v.policy \in PolicyRecord
                          /\ v.request \in Requests
                          /\ v.started \in 0..clock
                          /\ v.next \in 1..(Len(v.policy.definition.rules) + 1)
                          /\ v.matched \subseteq 1..(v.next - 1)
                          /\ v.decision \in {"allow", "deny"}
    BY DEF CallsTypeOK
  <2> DEFINE v == evaluations[e]
  <2>1. CopyOK(v) /\ LoopOK(v)
    BY DEF DInv, CallsOK
  <2> HIDE DEF v
  <2>2. v.policy.definition \in Definitions
    BY <2>1 DEF LoopOK, PolicyRecord
  <2>3. v.matched \subseteq 1..(v.next - 1)
    BY <2>1, <2>2, RulesOfDefinition DEF LoopOK, Seen, Matching
  <2>4. v.decision \in {"allow", "deny"}
    BY <2>1, <2>2, RulesOfDefinition DEF LoopOK, Verdict
  <2> QED  BY <2>1, <2>3, <2>4 DEF CopyOK, LoopOK, v
<1> QED  BY <1>1, DInvariance, PTL

\* Every answer is what one version of the policy, kept in the history, says
\* of the request at one instant of the call.
THEOREM Explained == DecisionSpec => []AnswersAreExplained
<1>1. DInv => AnswersAreExplained
  <2> SUFFICES ASSUME DInv, NEW e \in Evaluations, Answered(e)
               PROVE  LET v == evaluations[e]
                          definition == versions[v.id][v.policy.version]
                      IN  \E t \in v.started..clock :
                            LET S == Matching(definition, v.request, Resolve(v.request, t, DayLength))
                            IN  /\ v.matched = S
                                /\ v.decision = Verdict(definition, S)
                                /\ v.obligations = UNION {definition.rules[i].obligations : i \in S}
    BY DEF AnswersAreExplained
  <2> DEFINE v == evaluations[e]
             d == v.policy.definition
  <2>1. CopyOK(v) /\ LoopOK(v) /\ v.stage = "answered"
    BY DEF DInv, CallsOK, Called, Answered
  <2> HIDE DEF v
  <2>2. PICK t \in v.started..clock : v.attributes = Resolve(v.request, t, DayLength)
    BY <2>1 DEF CopyOK
  <2>3. versions[v.id][v.policy.version] = d
    BY <2>1 DEF CopyOK
  <2>4. d \in Definitions /\ v.next = Len(d.rules) + 1
    BY <2>1 DEF LoopOK, PolicyRecord
  <2>5. Seen(v) = Matching(d, v.request, v.attributes)
    BY <2>4, RulesOfDefinition DEF Seen, Matching
  <2> QED  BY <2>1, <2>2, <2>3, <2>5 DEF LoopOK, v
<1> QED  BY <1>1, DInvariance, PTL

LEMMA HoldsOfItsType ==
  ASSUME NEW a, NEW c, EvaluateCondition(a, c.operator, c.value)
  PROVE  FitsType(a, c)
BY DEF EvaluateCondition, FitsType, LooselyEqual, Comparable, IsListed

\* Under the default to deny, what allows is an allow rule all of whose
\* conditions are about attributes there are, with values of their type.
THEOREM Earned == DecisionSpec => []AllowIsEarned
<1>1. DInv => AllowIsEarned
  <2> SUFFICES ASSUME DInv, NEW e \in Evaluations, Answered(e),
                      evaluations[e].decision = "allow",
                      evaluations[e].policy.definition.default = "deny"
               PROVE  LET v == evaluations[e]
                      IN  \E i \in v.matched :
                            LET rule == versions[v.id][v.policy.version].rules[i]
                            IN  /\ rule.effect = "allow"
                                /\ \A c \in rule.conditions :
                                     /\ c.attribute \in DOMAIN v.attributes
                                     /\ FitsType(v.attributes[c.attribute], c)
    BY DEF AllowIsEarned
  <2> DEFINE v == evaluations[e]
             d == v.policy.definition
  <2>1. CopyOK(v) /\ LoopOK(v) /\ v.stage = "answered"
    BY DEF DInv, CallsOK, Called, Answered
  <2>2. v.decision = "allow" /\ d.default = "deny"
    OBVIOUS
  <2> HIDE DEF v
  <2>3. Verdict(d, Seen(v)) = "allow"
    BY <2>1, <2>2 DEF LoopOK
  <2>4. "allow" \in Effects(d, Seen(v))
    BY <2>2, <2>3 DEF Verdict
  <2>5. PICK i \in Seen(v) : d.rules[i].effect = "allow"
    BY <2>4 DEF Effects
  <2>6. \A c \in d.rules[i].conditions : /\ c.attribute \in DOMAIN v.attributes
                                         /\ FitsType(v.attributes[c.attribute], c)
    BY HoldsOfItsType DEF Seen, Matching, RuleMatches, ConditionsMatch
  <2> QED  BY <2>1, <2>5, <2>6 DEF CopyOK, LoopOK, v
<1> QED  BY <1>1, DInvariance, PTL

\* The time a decision goes by is that of one instant, the one the request
\* names or one of the call.
THEOREM OneInstant == DecisionSpec => []ContextIsOneInstant
<1>1. DInv => ContextIsOneInstant
  <2> SUFFICES ASSUME DInv, NEW e \in Evaluations,
                      evaluations[e].stage \in {"rules", "answered"}
               PROVE  LET v == evaluations[e]
                      IN  \E t \in IF v.request.time = NoTime THEN v.started..clock
                                                             ELSE {v.request.time} :
                            \A a \in {"time", "timestamp", "day_of_week"} :
                              v.attributes[a] = TimeAttributes(t, DayLength)[a]
    BY DEF ContextIsOneInstant
  <2> DEFINE v == evaluations[e]
  <2>1. CopyOK(v) /\ v.stage \in {"rules", "answered"}
    BY DEF DInv, CallsOK, Called
  <2> HIDE DEF v
  <2>2. PICK now \in v.started..clock : v.attributes = Resolve(v.request, now, DayLength)
    BY <2>1 DEF CopyOK
  <2> DEFINE t == IF v.request.time = NoTime THEN now ELSE v.request.time
  <2>3. \A a \in {"time", "timestamp", "day_of_week"} :
          Resolve(v.request, now, DayLength)[a] = TimeAttributes(t, DayLength)[a]
    <3>1. {"time", "timestamp", "day_of_week"} = DOMAIN TimeAttributes(t, DayLength)
      BY DEF TimeAttributes
    <3> HIDE DEF t
    <3> QED  BY <3>1 DEF Resolve, Over, t
  <2> QED  BY <2>2, <2>3 DEF v
<1> QED  BY <1>1, DInvariance, PTL

\* Evaluation changes no policy: everything proved of the life cycle holds
\* while calls are being answered.
THEOREM EvaluationStaysApart == DecisionSpec => Spec
<1>1. DecisionInit => Init
  BY DEF DecisionInit
<1>2. [DecisionNext]_decisionVars => [Next]_vars
  BY DEF DecisionNext, EvaluationStep, Tick, decisionVars, vars
<1> QED  BY <1>1, <1>2, PTL DEF DecisionSpec, Spec

-----------------------------------------------------------------------------
(* What the answers depend on *)

\* Two calls ask the same of the same version, at a time of the request's own
\* or in the same context.
SameQuestion(v, w) == /\ v.id = w.id
                      /\ v.policy.version = w.policy.version
                      /\ v.request = w.request
                      /\ v.request.time # NoTime \/ v.attributes = w.attributes

SameAnswer(v, w) == /\ v.decision = w.decision
                    /\ v.matched = w.matched
                    /\ v.obligations = w.obligations

\* "Deterministic authorization decisions": what else goes on while two calls
\* are served, and how far apart they are, makes no difference.
AnswersAreDeterministic ==
  \A e, f \in Evaluations :
    Answered(e) /\ Answered(f) /\ SameQuestion(evaluations[e], evaluations[f])
      => SameAnswer(evaluations[e], evaluations[f])

\* Two calls for the same version of a policy and the same request are
\* answered alike.  A call that is answered keeps its answer, so the two may
\* be as far apart as one likes.
THEOREM Deterministic == DecisionSpec => []AnswersAreDeterministic
<1>1. DInv => AnswersAreDeterministic
  <2> SUFFICES ASSUME DInv, NEW e \in Evaluations, NEW f \in Evaluations,
                      Answered(e), Answered(f), SameQuestion(evaluations[e], evaluations[f])
               PROVE  SameAnswer(evaluations[e], evaluations[f])
    BY DEF AnswersAreDeterministic
  <2> DEFINE v == evaluations[e]
             w == evaluations[f]
             d == v.policy.definition
  <2>1. /\ CopyOK(v) /\ LoopOK(v) /\ v.stage = "answered"
        /\ CopyOK(w) /\ LoopOK(w) /\ w.stage = "answered"
    BY DEF DInv, CallsOK, Called, Answered
  <2>2. SameQuestion(v, w)
    OBVIOUS
  <2> HIDE DEF v, w
  <2>3. w.policy.definition = d
    BY <2>1, <2>2 DEF CopyOK, SameQuestion
  <2>4. d \in Definitions /\ v.next = Len(d.rules) + 1 /\ w.next = Len(d.rules) + 1
    BY <2>1, <2>3 DEF LoopOK, PolicyRecord
  <2>5. v.attributes = w.attributes
    <3>1. CASE v.attributes = w.attributes
      BY <3>1
    <3>2. CASE v.request.time # NoTime
      BY <2>1, <2>2, <3>2 DEF CopyOK, SameQuestion, Resolve
    <3> QED  BY <2>2, <3>1, <3>2 DEF SameQuestion
  <2>6. Seen(v) = Seen(w)
    BY <2>2, <2>3, <2>4, <2>5 DEF Seen, SameQuestion
  <2> QED  BY <2>1, <2>3, <2>6 DEF LoopOK, SameAnswer, v, w
<1> QED  BY <1>1, DInvariance, PTL

\* The rules that match, as rules and not as positions.
RulesMatching(d, request, attrs) ==
  {rule \in {d.rules[i] : i \in DOMAIN d.rules} : RuleMatches(rule, request, attrs)}

LEMMA MatchingRules ==
  ASSUME NEW d, NEW request, NEW attrs
  PROVE  /\ RulesMatching(d, request, attrs) = {d.rules[i] : i \in Matching(d, request, attrs)}
         /\ Effects(d, Matching(d, request, attrs))
              = {rule.effect : rule \in RulesMatching(d, request, attrs)}
BY DEF RulesMatching, Matching, Effects

Obligations(d, S) == UNION {d.rules[i].obligations : i \in S}

\* The verdict and the obligations depend on the set of rules, not on their
\* order or repetition; and a rule added to it revokes no denial by a rule.
THEOREM RulesDecideAsASet ==
  ASSUME NEW d \in Definitions, NEW e \in Definitions, NEW request, NEW attrs
  PROVE  LET S == Matching(d, request, attrs)
             T == Matching(e, request, attrs)
         IN  /\ Range(d.rules) = Range(e.rules) =>
                  /\ d.default = e.default => Verdict(d, S) = Verdict(e, T)
                  /\ Obligations(d, S) = Obligations(e, T)
             /\ Range(d.rules) \subseteq Range(e.rules) =>
                  /\ "deny" \in Effects(d, S) => Verdict(e, T) = "deny"
                  /\ Obligations(d, S) \subseteq Obligations(e, T)
<1> DEFINE S == Matching(d, request, attrs)
           T == Matching(e, request, attrs)
           M(f) == RulesMatching(f, request, attrs)
<1>1. /\ Effects(d, S) = {rule.effect : rule \in M(d)}
      /\ Effects(e, T) = {rule.effect : rule \in M(e)}
  BY MatchingRules
<1>2. /\ Obligations(d, S) = UNION {rule.obligations : rule \in M(d)}
      /\ Obligations(e, T) = UNION {rule.obligations : rule \in M(e)}
  BY DEF Obligations, RulesMatching, Matching
<1>3. /\ Range(d.rules) = Range(e.rules) => M(d) = M(e)
      /\ Range(d.rules) \subseteq Range(e.rules) => M(d) \subseteq M(e)
  BY DEF RulesMatching, Range
<1> HIDE DEF S, T, M
<1>4. ASSUME Range(d.rules) = Range(e.rules)
      PROVE  /\ d.default = e.default => Verdict(d, S) = Verdict(e, T)
             /\ Obligations(d, S) = Obligations(e, T)
  <2>1. Effects(d, S) = Effects(e, T)
    BY <1>1, <1>3, <1>4
  <2>2. Obligations(d, S) = Obligations(e, T)
    BY <1>2, <1>3, <1>4
  <2> QED  BY <2>1, <2>2 DEF Verdict
<1>5. ASSUME Range(d.rules) \subseteq Range(e.rules)
      PROVE  /\ "deny" \in Effects(d, S) => Verdict(e, T) = "deny"
             /\ Obligations(d, S) \subseteq Obligations(e, T)
  <2>1. Effects(d, S) \subseteq Effects(e, T)
    BY <1>1, <1>3, <1>5
  <2>2. Obligations(d, S) \subseteq Obligations(e, T)
    BY <1>2, <1>3, <1>5
  <2> QED  BY <2>1, <2>2 DEF Verdict
<1> QED  BY <1>4, <1>5 DEF S, T
=============================================================================
