--------------------------- MODULE MCEfficiency -----------------------------
(* One subject, judged by any of the detectors, and an approval that waits *)
(* for it; a queue and a backlog that are too small for the log.           *)
EXTENDS Efficiency

CONSTANTS subject, approval

MCRoute == [a \in {approval} |-> subject]
=============================================================================
