---------------------------- MODULE MCEventPages ----------------------------
(* Small instances of EventPages for TLC. *)
EXTENDS EventPages

\* The second event's gateway runs behind, the last one's ahead.
Stamps == [e \in Events |-> CASE e = 1 -> 0 [] e = 2 -> -1 [] OTHER -> 1]

\* Tabs and visits do not affect each other: one of them is away.
OneReader ==
    (\E t \in Tabs : tpc[t] # "away") # (\E v \in Visits : vpc[v] # "away")

MCInit == Init /\ OneReader

MCSpec == MCInit /\ [][Next]_vars /\ Fairness
=============================================================================
