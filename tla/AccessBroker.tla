---------------------------- MODULE AccessBroker ----------------------------
(***************************************************************************)
(* What the gateway promises about just-in-time access, without locks or   *)
(* requests in flight: a grant is asked for once and decided once, never   *)
(* approved past its deadline, and a session is opened in one step, either *)
(* freely or under a grant approved at that moment, for the scope of the   *)
(* grant.  GatewayAccess implements this specification.                    *)
(***************************************************************************)
EXTENDS Integers, Stores

CONSTANTS Scope, Grants, Sessions, NoGrant, TTLs

VARIABLES clock,
          asked,     \* the scope and the deadline of every grant asked for
          approved,  \* the grants approved
          denied,    \* the grants denied
          held,      \* the scope and the grant of every session
          closed     \* the sessions terminated

broker == <<clock, asked, approved, denied, held, closed>>

BrokerInit == /\ clock = 0
              /\ asked = EmptyStore
              /\ approved = {}
              /\ denied = {}
              /\ held = EmptyStore
              /\ closed = {}

Advance == /\ clock' = clock + 1
           /\ UNCHANGED <<asked, approved, denied, held, closed>>

Ask(g, scope, ttl) == /\ g \notin DOMAIN asked
                      /\ asked' = Put(asked, g, [scope |-> scope, until |-> clock + ttl])
                      /\ UNCHANGED <<clock, approved, denied, held, closed>>

Pending(g) == g \in DOMAIN asked \ (approved \cup denied)

Approve(g) == /\ Pending(g)
              /\ clock <= asked[g].until
              /\ approved' = approved \cup {g}
              /\ UNCHANGED <<clock, asked, denied, held, closed>>

Deny(g) == /\ Pending(g)
           /\ denied' = denied \cup {g}
           /\ UNCHANGED <<clock, asked, approved, held, closed>>

Hold(s, scope, g) == /\ s \notin DOMAIN held
                     /\ held' = Put(held, s, [scope |-> scope, grant |-> g])
                     /\ UNCHANGED <<clock, asked, approved, denied, closed>>

\* Check and opening are one step, which may come after the deadline: the
\* session a request opens may be stored late.
OpenUnder(g, s) == g \in approved /\ Hold(s, asked[g].scope, g)

\* Without a grant id nothing is checked.
OpenFreely(s, scope) == Hold(s, scope, NoGrant)

Close(s) == /\ s \in DOMAIN held \ closed
            /\ closed' = closed \cup {s}
            /\ UNCHANGED <<clock, asked, approved, denied, held>>

BrokerNext == \/ Advance
              \/ \E g \in Grants, scope \in Scope, ttl \in TTLs : Ask(g, scope, ttl)
              \/ \E g \in Grants : Approve(g) \/ Deny(g)
              \/ \E g \in Grants, s \in Sessions : OpenUnder(g, s)
              \/ \E s \in Sessions, scope \in Scope : OpenFreely(s, scope)
              \/ \E s \in Sessions : Close(s)

BrokerSpec == BrokerInit /\ [][BrokerNext]_broker
=============================================================================
