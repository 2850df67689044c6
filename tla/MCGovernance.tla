---------------------------- MODULE MCGovernance ----------------------------
EXTENDS Governance, TLC

CONSTANTS q1, q2

MCRequests == {q1, q2}
MCKinds == {"external_action", "security_flag"}
MCTimeout == [k \in MCKinds |-> 1]
=============================================================================
