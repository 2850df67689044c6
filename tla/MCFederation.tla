---------------------------- MODULE MCFederation ----------------------------
(* Two companies, two requests that close them, two links, one message     *)
(* that their scope allows and one that it does not.                       *)
EXTENDS Federation, TLC

CONSTANTS a, b, r1, r2, l1, l2

MCCompany == {a, b}
MCRequest == {r1, r2}
MCLink == {l1, l2}
Alike == Permutations(MCRequest) \cup Permutations(MCLink)
=============================================================================
