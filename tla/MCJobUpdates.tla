---------------------------- MODULE MCJobUpdates ----------------------------
(***************************************************************************)
(* A job of engagement e1 is planned, claimed and ends, while the operator *)
(* may look at e1 or at e2.                                                *)
(***************************************************************************)
EXTENDS JobUpdates

CONSTANTS e1, e2, j1

MCOf == [j \in Jobs |-> e1]
MCCommits == [g \in 1 .. 3 |-> [j \in Jobs |-> IF g = 3 THEN 1 ELSE 2]]
=============================================================================
