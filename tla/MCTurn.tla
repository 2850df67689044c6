------------------------------- MODULE MCTurn -------------------------------
(* An agent and the shared project with one file each, quotas that one      *)
(* file may fill, and a round of up to two tool calls.                      *)
EXTENDS Turn

CONSTANTS a1, f1

MCAgent == {a1}
MCOwner == {a1, Project}
MCFile == {f1}
MCQuotas == {1, 2}
=============================================================================
