--------------------------- MODULE MCVaultRotation ---------------------------
(* Small instances of VaultRotation for TLC. *)
EXTENDS VaultRotation, TLC

Symmetric == Permutations(Requests) \cup Permutations(Leases)
               \cup Permutations(Policies) \cup Permutations(Targets)
=============================================================================
