------------------------------ MODULE MCBudget ------------------------------
(* Budget on small tables: a total of 5 has its warning at 4; and a         *)
(* subscription for every second day.                                       *)
EXTENDS Subscriptions, TLC

CONSTANTS r1, s1

MCAmounts == {1, 4}
MCTotals == {0, 4, 5}
MCRefs == {r1}
MCSubs == {s1}
=============================================================================
