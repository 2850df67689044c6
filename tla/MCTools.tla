------------------------------ MODULE MCTools ------------------------------
(* Two tasks, one free and one gated call, and a budget that is exhausted  *)
(* when both are paid.                                                     *)
EXTENDS Tools, TLC

CONSTANTS t1, t2, free, gated

MCTasks == {t1, t2}
MCCids == {free, gated}
MCGated == {gated}
MCEstimate == free :> 1 @@ gated :> 2
MCTotals == {3}
MCAmounts == {1}
=============================================================================
