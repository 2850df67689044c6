------------------------------ MODULE MCAccess ------------------------------
(* Two people, who may both be admins and act on each other, and three     *)
(* tokens: one for the login of each and one for a rotation.               *)
EXTENDS Access, TLC

CONSTANTS u1, u2, t1, t2, t3

MCUser == {u1, u2}
MCToken == {t1, t2, t3}
Alike == Permutations(MCUser) \cup Permutations(MCToken)
=============================================================================
