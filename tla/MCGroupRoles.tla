---------------------------- MODULE MCGroupRoles ----------------------------
(* Small instances of GroupRoles for TLC. *)
EXTENDS GroupRoles, TLC

Symmetric == Permutations(Requests) \cup Permutations(RoleIds)
=============================================================================
