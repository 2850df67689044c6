-------------------------------- MODULE Sums --------------------------------
(***************************************************************************)
(* SELECT COALESCE(SUM(amount_units), 0) over a table whose rows are kept  *)
(* in insertion order.  Every amount query of the cost engine is one of    *)
(* these.  The sum is a recursive function, so that BudgetProofs can prove *)
(* what it computes.                                                       *)
(***************************************************************************)
EXTENDS Integers, Sequences

\* a[1] + ... + a[n], and 0 for no rows (COALESCE).
SumTo(a, n) ==
    LET S[i \in 0 .. n] == IF i = 0 THEN 0 ELSE S[i - 1] + a[i]
    IN  S[n]
=============================================================================
