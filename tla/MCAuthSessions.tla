--------------------------- MODULE MCAuthSessions ---------------------------
(* Small instances of AuthSessions for TLC. *)
EXTENDS AuthSessions, TLC

\* Identifiers and requests are interchangeable.
Symmetric == Permutations(Requests) \cup Permutations(Challenges)
               \cup Permutations(Sessions) \cup Permutations(Tokens)
=============================================================================
