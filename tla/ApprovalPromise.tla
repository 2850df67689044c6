--------------------------- MODULE ApprovalPromise --------------------------
(***************************************************************************)
(* What the approval queue promises its callers (tools, connector, Board): *)
(* a request is opened once, an action that needs the security pre-veto    *)
(* passes it before anyone can approve the request, and an outcome, once   *)
(* given, stands.                                                          *)
(***************************************************************************)
CONSTANT Requests

VARIABLE phase   \* of each request

Phases == {"none", "security", "main", "approved", "refused"}
Live == {"security", "main"}

\* Every request of S, all of them in a phase of From, moves to phase p.
Move(S, From, p) ==
    /\ \A r \in S : phase[r] \in From
    /\ phase' = [r \in Requests |-> IF r \in S THEN p ELSE phase[r]]

Open(r) == Move({r}, {"none"}, "security") \/ Move({r}, {"none"}, "main")
Clear(r) == Move({r}, {"security"}, "main")
Approve(r) == Move({r}, {"main"}, "approved")

\* A denial, a cancellation, or any number of requests timing out at once.
Refuse(S) == Move(S, Live, "refused")

Init == phase = [r \in Requests |-> "none"]

Next ==
    \/ \E r \in Requests : Open(r) \/ Clear(r) \/ Approve(r)
    \/ \E S \in SUBSET Requests : Refuse(S)

Spec == Init /\ [][Next]_phase
=============================================================================
