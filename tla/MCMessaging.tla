---------------------------- MODULE MCMessaging ----------------------------
(* Two agents and as many messages as it takes to reorder a queue and to   *)
(* meet one correlation id again.                                          *)
EXTENDS Messaging, TLC

CONSTANTS a1, a2, c1

MCAgents == {a1, a2}
MCCorrelations == {c1}
=============================================================================
