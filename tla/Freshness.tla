------------------------------ MODULE Freshness ------------------------------
(***************************************************************************)
(* What the guarded net-worth refresh promises, whoever writes and whoever *)
(* refreshes: analytics may lag behind the raw tables, but then the system *)
(* owes a refresh, and it forgets the debt only once analytics caught up.  *)
(* NetWorthRefresh implements it.                                          *)
(***************************************************************************)
EXTENDS Naturals

VARIABLES
    raw,    \* how many raw changes have committed
    live,   \* the raw version the live marts show
    owed    \* a refresh is owed

vars == <<raw, live, owed>>

Init == raw = 0 /\ live = 0 /\ owed = FALSE

\* A raw change commits while a refresh is owed.
Write == owed /\ raw' = raw + 1 /\ UNCHANGED <<live, owed>>

\* Someone announces a write or asks for a refresh.
Owe == owed' = TRUE /\ UNCHANGED <<raw, live>>

\* A rebuild is published; it contains every committed change.
Publish == live' = raw /\ owed' \in BOOLEAN /\ UNCHANGED raw

\* The debt is forgotten, only with nothing left to show.
Settle == live = raw /\ owed' = FALSE /\ UNCHANGED <<raw, live>>

Next == Write \/ Owe \/ Publish \/ Settle

Spec == Init /\ [][Next]_vars
=============================================================================
