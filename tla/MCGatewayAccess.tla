--------------------------- MODULE MCGatewayAccess ---------------------------
(* Small instances of GatewayAccess for TLC. *)
EXTENDS GatewayAccess, TLC

Symmetric == Permutations(Requests) \cup Permutations(Grants)
               \cup Permutations(Sessions) \cup Permutations(Assets)
=============================================================================
