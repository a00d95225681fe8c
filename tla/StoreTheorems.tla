---------------------------- MODULE StoreTheorems ----------------------------
(* What the operations on stores return. *)
EXTENDS Stores, TLAPS

\* Inserting under one key: the other keys keep their values.
LEMMA PutEffect ==
  ASSUME NEW m, NEW k, NEW v
  PROVE  /\ DOMAIN Put(m, k, v) = DOMAIN m \cup {k}
         /\ Put(m, k, v)[k] = v
         /\ \A x \in DOMAIN m : x # k => Put(m, k, v)[x] = m[x]
BY DEF Put

LEMMA PutStore ==
  ASSUME NEW K, NEW V, NEW m, IsStore(m, K, V), NEW k \in K, NEW v \in V
  PROVE  IsStore(Put(m, k, v), K, V)
BY DEF IsStore, Put

\* Deleting keys: the others keep their values.
LEMMA WithoutEffect ==
  ASSUME NEW m, NEW D
  PROVE  /\ DOMAIN Without(m, D) = DOMAIN m \ D
         /\ \A x \in DOMAIN m \ D : Without(m, D)[x] = m[x]
BY DEF Without, Restrict

LEMMA WithoutStore ==
  ASSUME NEW K, NEW V, NEW m, IsStore(m, K, V), NEW D
  PROVE  IsStore(Without(m, D), K, V)
BY DEF IsStore, Without, Restrict

LEMMA EmptyIsStore ==
  ASSUME NEW K, NEW V
  PROVE  IsStore(EmptyStore, K, V) /\ DOMAIN EmptyStore = {}
BY DEF IsStore, EmptyStore
=============================================================================
