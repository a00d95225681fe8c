-------------------------- MODULE MCPolicyLifecycle --------------------------
(* Small instances of PolicyLifecycle for TLC. *)
EXTENDS PolicyLifecycle, TLC

Symmetric == Permutations(Policies) \cup Permutations(Names) \cup Permutations(Definitions)
=============================================================================
