---------------------------- MODULE RotationBook ----------------------------
(***************************************************************************)
(* What the vault promises about leases and rotation policies, without     *)
(* locks, copies, sweeps or failures: every step is about one policy, or   *)
(* about leases.  A rotation leases for the terms the policy has at that   *)
(* moment and owes the policy one record; the record moves the due date    *)
(* and nothing else.  VaultRotation implements this specification.         *)
(***************************************************************************)
EXTENDS Integers, Stores

CONSTANTS Targets, Scope, Leases, Policies,
          Requests,  \* those who may owe a record, each at most one
          Never,     \* no revocation so far
          Intervals, MinSeconds, MaxSeconds

VARIABLES clock,
          leases,    \* scope, expiry and revocation of every lease
          policies,  \* scope, interval, ttl and due date of every policy
          owed       \* rotations not yet recorded: by whom, of what, since when

book == <<clock, leases, policies, owed>>

BookInit == /\ clock = 0
            /\ leases = EmptyStore
            /\ policies = EmptyStore
            /\ owed = {}

Advance == /\ clock' = clock + 1
           /\ UNCHANGED <<leases, policies, owed>>

\* A lease that begins at this instant, now or a moment ago.
Lease(l, scope, ttl, at) ==
  /\ l \notin DOMAIN leases
  /\ leases' = Put(leases, l, [scope |-> scope, revokedAt |-> Never, expires |-> at + ttl])
  /\ UNCHANGED <<clock, policies>>

LeaseDirectly(l, scope, ttl, at) == Lease(l, scope, ttl, at) /\ UNCHANGED owed

\* A lease is revoked once, alone or together with others.
Revoke(L, at) == /\ \A l \in L : l \in DOMAIN leases /\ leases[l].revokedAt = Never
                 /\ leases' = [l \in DOMAIN leases |->
                                 IF l \in L THEN [leases[l] EXCEPT !.revokedAt = at]
                                            ELSE leases[l]]
                 /\ UNCHANGED <<clock, policies, owed>>

\* A single lease is revoked at this instant, and all that are left of a
\* target together, at one instant.
RevokeOne(l) == Revoke({l}, clock)
RevokeTarget(target, at) == Revoke({l \in DOMAIN leases : /\ leases[l].scope.target = target
                                                          /\ leases[l].revokedAt = Never}, at)

\* A policy takes a scope that no other has.
Adopt(p, scope, interval, ttl, at) ==
  /\ p \notin DOMAIN policies
  /\ interval >= MinSeconds
  /\ \A q \in DOMAIN policies : policies[q].scope # scope
  /\ policies' = Put(policies, p, [scope |-> scope, interval |-> interval, ttl |-> ttl,
                                   next |-> at + interval])
  /\ UNCHANGED <<clock, leases, owed>>

Rotate(p, l, h, at) ==
  /\ Lease(l, policies[p].scope, policies[p].ttl, at)
  /\ \A e \in owed : e.by # h
  /\ owed' = owed \cup {[by |-> h, policy |-> p, since |-> clock]}

\* The due date is the only thing a rotation changes in its policy.
Record(e, at) ==
  /\ policies' = [policies EXCEPT ![e.policy].next = at + policies[e.policy].interval]
  /\ owed' = owed \ {e}
  /\ UNCHANGED <<clock, leases>>

BookNext ==
  \/ Advance
  \/ \E l \in Leases : RevokeOne(l)
  \/ \E target \in Targets, at \in 0..clock : RevokeTarget(target, at)
  \/ \E scope \in Scope, ttl \in MinSeconds..MaxSeconds, at \in 0..clock :
       \/ \E l \in Leases : LeaseDirectly(l, scope, ttl, at)
       \/ \E p \in Policies, interval \in Intervals : Adopt(p, scope, interval, ttl, at)
  \/ \E p \in DOMAIN policies, l \in Leases, h \in Requests, at \in 0..clock : Rotate(p, l, h, at)
  \/ \E e \in owed : \E at \in e.since..clock : Record(e, at)

BookSpec == BookInit /\ [][BookNext]_book
=============================================================================
