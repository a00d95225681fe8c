----------------------------- MODULE RoleNaming -----------------------------
(***************************************************************************)
(* Role names: what RoleService stores and users hold.                     *)
(***************************************************************************)
CONSTANTS RoleNames,     \* names as CreateRole stores them, in lower case
          SuperAdmin,    \* the role of the seed user, which has capitals
          superadmin     \* ... and what its name becomes in lower case

ASSUME RoleNamesAssumption == SuperAdmin \notin RoleNames /\ superadmin \in RoleNames

\* Mutant of ToLower: names are stored as they are spelled.
ToLower_Identity(name) == name

\* Of all names with capitals, SuperAdmin is the one that matters.
ToLower(name) == IF name = SuperAdmin THEN superadmin ELSE name
=============================================================================
