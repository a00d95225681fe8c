------------------------------- MODULE MCVault -------------------------------
(* Small instances of Vault for TLC. *)
EXTENDS Vault, TLC

CONSTANTS low, high, token, key

MCBits == {low, high}
MCKek == 0 :> {low} @@ 1 :> {low, high}
MCDataKeys == {0 :> {high} @@ 1 :> {high}}

Plain(w) == [word |-> w, capitals |-> FALSE, padded |-> FALSE]
Padded(w) == [Plain(w) EXCEPT !.padded = TRUE]
Capital(w) == [Plain(w) EXCEPT !.capitals = TRUE]

\* Two names, one of them in two spellings, and two values.
MCNames == {Padded(token), Capital(token), Plain(key), Padded(Blank)}
MCValues == {Plain(token), Padded(key), Padded(Blank)}
=============================================================================
