-------------------------- MODULE MCPolicyDecisions --------------------------
(* A small instance of PolicyDecisions for TLC. *)
EXTENDS PolicyDecisions

CONSTANTS role, admin, guest, asset, ssh

Exactly(text) == [text |-> text, open |-> FALSE]
Star(text)    == [text |-> text, open |-> TRUE]

Condition(attribute, operator, value) ==
  [attribute |-> attribute, operator |-> operator, value |-> value]

Rule(effect, subjects, conditions, obligations) ==
  [effect |-> effect, subjects |-> subjects, resources |-> {Star(<<asset>>)},
   actions |-> {Exactly(<<ssh>>), Exactly(<<>>)}, conditions |-> conditions,
   obligations |-> obligations]

\* Admins may connect and are recorded.
AllowAdmin == Rule("allow", {Exactly(<<role, admin>>)}, {}, {"record"})
\* Anyone with a role may connect during the first half of the day from a
\* trusted device that is not in a list.
AllowHours == Rule("allow", {Star(<<role>>)},
                   {Condition("time", "between", List(<<Text(0), Text(0)>>)),
                    Condition("device_trust", "in", List(<<Text(1), Text(2)>>)),
                    Condition("device_id", "nin", List(<<Text(7)>>))}, {})
\* High risk is refused.
DenyRisk == Rule("deny", {Star(<<>>)}, {Condition("risk_score", "gte", Number(2))}, {"alert"})
\* Fridays and mondays after the first instant are allowed, unless the risk is
\* one or of the wrong type.
AllowLater == Rule("allow", {Star(<<>>)},
                   {Condition("timestamp", "gt", Text(0)), Condition("day_of_week", "lte", Text(1)),
                    Condition("risk_score", "lt", Number(2)), Condition("risk_score", "neq", Number(1))},
                   {"approve"})
DenyUnknown == Rule("deny", {Exactly(<<role, guest>>)},
                    {Condition("device_trust", "eq", Text(2))}, {})

Candidates ==
  {[rules |-> s, default |-> d] :
     s \in {<<>>, <<AllowAdmin>>, <<AllowAdmin, DenyRisk>>, <<AllowHours, DenyUnknown>>,
            <<AllowLater, AllowHours>>},
     d \in {"allow", "deny"}}

MCDefinitions == {d \in Candidates : ValidatePolicy(d)}

Request(subject, fields, attributes, time) ==
  [subject |-> subject, resource |-> <<asset, role>>, action |-> <<ssh>>,
   fields |-> fields, attributes |-> attributes, time |-> time]

\* Known and unknown risks, a spelling with capitals, a time of its own, and
\* times among the caller's attributes.
MCRequests ==
  {Request(<<role, admin>>, "risk_score" :> Number(2), <<>>, NoTime),
   Request(<<role, admin>>, <<>>, "risk_score" :> Text(1), 3),
   Request(<<role, guest>>, "device_trust" :> Text(-2), "device_id" :> Text(1), NoTime),
   Request(<<role, guest>>, "risk_score" :> Number(0),
           "time" :> Text(0) @@ "device_trust" :> Text(1) @@ "device_id" :> Text(3), NoTime),
   Request(<<>>, <<>>, <<>>, NoTime)}
=============================================================================
