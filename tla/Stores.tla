------------------------------- MODULE Stores -------------------------------
(***************************************************************************)
(* The Go services keep their state in maps, map[string]T, each guarded by *)
(* the mutex of its service.  Here such a map is a function whose domain   *)
(* is the set of keys present.                                             *)
(***************************************************************************)
EXTENDS Functions

EmptyStore == [k \in {} |-> k]

\* m[k] = v
Put(m, k, v) == [x \in DOMAIN m \cup {k} |-> IF x = k THEN v ELSE m[x]]

\* delete(m, k) for every k in K; deleting an absent key does nothing
Without(m, K) == Restrict(m, DOMAIN m \ K)

\* m maps some of the keys K to values in V
IsStore(m, K, V) == DOMAIN m \subseteq K /\ m \in [DOMAIN m -> V]
=============================================================================
