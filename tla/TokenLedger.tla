----------------------------- MODULE TokenLedger -----------------------------
(***************************************************************************)
(* What refresh-token rotation promises, without sessions, locks, clocks   *)
(* or expiry: a token is granted once, is usable until it is redeemed or   *)
(* cancelled, and a redeemed token is answered by at most one successor.   *)
(* AuthSessions implements this specification.                             *)
(***************************************************************************)
CONSTANT Tokens

VARIABLES granted,   \* every token ever handed out
          usable,    \* the tokens the service still accepts
          redeemed,  \* tokens accepted, whose successor is not yet handed out
          answered   \* tokens whose successor has been handed out

ledger == <<granted, usable, redeemed, answered>>

LedgerInit == /\ granted = {}
              /\ usable = {}
              /\ redeemed = {}
              /\ answered = {}

\* A login hands out a token nobody has seen.
Grant(t) == /\ t \notin granted
            /\ granted' = granted \cup {t}
            /\ usable' = usable \cup {t}
            /\ UNCHANGED <<redeemed, answered>>

\* A usable token is presented; from here on nobody else can present it.
Redeem(t) == /\ t \in usable
             /\ usable' = usable \ {t}
             /\ redeemed' = redeemed \cup {t}
             /\ UNCHANGED <<granted, answered>>

\* The holder of the redeemed token t receives its successor n.
Answer(t, n) == /\ t \in redeemed
                /\ n \notin granted
                /\ granted' = granted \cup {n}
                /\ usable' = usable \cup {n}
                /\ redeemed' = redeemed \ {t}
                /\ answered' = answered \cup {t}

\* The successor could not be produced: the token is lost for good.
Abandon(t) == /\ t \in redeemed
              /\ redeemed' = redeemed \ {t}
              /\ UNCHANGED <<granted, usable, answered>>

\* Expiry and revocation take tokens out of use.
Cancel(T) == /\ usable' = usable \ T
             /\ UNCHANGED <<granted, redeemed, answered>>

LedgerNext == \/ \E t \in Tokens : Grant(t) \/ Redeem(t) \/ Abandon(t)
              \/ \E t, n \in Tokens : Answer(t, n)
              \/ \E T \in SUBSET Tokens : Cancel(T)

LedgerSpec == LedgerInit /\ [][LedgerNext]_ledger
=============================================================================
