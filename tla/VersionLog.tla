----------------------------- MODULE VersionLog -----------------------------
(***************************************************************************)
(* What the policy life cycle promises: a policy is a log of definitions   *)
(* that only grows, one entry of it may be live, and the record that       *)
(* callers see is no state of its own but a view of the two.               *)
(* PolicyLifecycle implements this specification.                          *)
(***************************************************************************)
EXTENDS Integers, Sequences, Stores

CONSTANTS Policies, Definitions

VARIABLES log,    \* the definitions of every policy, oldest first
          live,   \* the number of the entry published last
          shown   \* the record of every policy

book == <<log, live, shown>>

\* The record shows the last entry, published exactly if it is the live one.
View(entries, current) ==
  [p \in DOMAIN entries |->
     [version |-> Len(entries[p]),
      definition |-> entries[p][Len(entries[p])],
      status |-> IF p \in DOMAIN current /\ current[p] = Len(entries[p])
                   THEN "published" ELSE "draft"]]

LogInit == /\ log = EmptyStore
           /\ live = EmptyStore
           /\ shown = EmptyStore

Start(p, definition) == /\ p \notin DOMAIN log
                        /\ log' = Put(log, p, <<definition>>)
                        /\ live' = live

Extend(p, definition) == log' = [log EXCEPT ![p] = Append(@, definition)]

\* A draft is added, and the live entry stays live.
Draft(p, definition) == Extend(p, definition) /\ live' = live

Publish(p) == /\ live' = Put(live, p, Len(log[p]))
              /\ log' = log

\* Entry v is added once more, and goes live.
Restore(p, v) == /\ Extend(p, log[p][v])
                 /\ live' = Put(live, p, Len(log[p]) + 1)

LogNext ==
  /\ \/ \E p \in Policies, definition \in Definitions : Start(p, definition)
     \/ \E p \in DOMAIN log : \/ \E definition \in Definitions : Draft(p, definition)
                              \/ Publish(p)
                              \/ \E v \in 1..Len(log[p]) : Restore(p, v)
  /\ shown' = View(log', live')

LogSpec == LogInit /\ [][LogNext]_book
=============================================================================
