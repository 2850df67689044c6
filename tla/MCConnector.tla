---------------------------- MODULE MCConnector ----------------------------
(* Two tasks, a low-risk idempotent call and a risky one, and a budget     *)
(* that is exhausted when both are paid.                                   *)
EXTENDS Connector, TLC

CONSTANTS t1, t2, low, risky

MCTasks == {t1, t2}
MCCids == {low, risky}
MCLowRisk == {low}
MCEstimate == low :> 1 @@ risky :> 2
MCTotals == {3}
MCAmounts == {1}
TaskSymmetry == Permutations(MCTasks)
=============================================================================
