------------------------------- MODULE MCOrg -------------------------------
(* Three members: enough for a manager with a branch of two below it, for  *)
(* a chain of three, and for a repair that exceeds the limit of the CEO.   *)
EXTENDS Org, TLC

CONSTANTS m1, m2, m3

MCPool == {m1, m2, m3}
PoolSymmetry == Permutations(MCPool)
=============================================================================
