----------------------------- MODULE Governance -----------------------------
(***************************************************************************)
(* The approval queue with its two deciders: the security policy           *)
(* (modules/security_agent/policy.py, review_approval), which may await an *)
(* LLM reviewer between reading an approval and deciding it, and the       *)
(* Board's HTTP routes (modules/board_api/routes/approvals.py), whose      *)
(* inbox lists only what awaits the Board but whose decide route takes any *)
(* request id.                                                             *)
(*                                                                         *)
(* Nothing in the repository calls review_approval yet.  A review is given *)
(* what the module's docstring says, "a pending approval whose route       *)
(* requires a security pre-veto", as Security's inbox lists them.          *)
(***************************************************************************)
EXTENDS Approvals

CONSTANTS
    Security,    \* the security agent
    Board,       \* a Board user
    MaxReviews   \* bound on the reviews of one request that await the LLM

ASSUME GovernanceConstants ==
    /\ Security \in Deciders
    /\ Board \in Targets
    /\ Security # Board
    /\ MaxReviews \in Nat

VARIABLES
    awaiting,  \* per request, the reviews suspended in the LLM call
    vetoes     \* requests with a SECURITY_VETO event

govVars == <<vars, awaiting, vetoes>>

GovTypeOK ==
    /\ TypeOK
    /\ awaiting \in [Requests -> 0 .. MaxReviews]
    /\ vetoes \subseteq Requests

-----------------------------------------------------------------------------

\* A critical finding: the request is vetoed at once.
ReviewCritical(r) ==
    /\ r \in PendingForSecurity
    /\ Decide(r, Security, "deny")
    /\ vetoes' = vetoes \cup {r}
    /\ UNCHANGED awaiting

\* No finding above a warning: the security leg is cleared at once.
ReviewClear(r) ==
    /\ r \in PendingForSecurity
    /\ Decide(r, Security, "approve")
    /\ UNCHANGED <<awaiting, vetoes>>

\* A high finding: the review awaits the LLM; the approval stays in Security's
\* inbox and may be reviewed again meanwhile.
ReviewStart(r) ==
    /\ Idle
    /\ r \in PendingForSecurity
    /\ awaiting[r] < MaxReviews
    /\ awaiting' = [awaiting EXCEPT ![r] = @ + 1]
    /\ UNCHANGED <<vars, vetoes>>

\* The LLM answers: the decision goes to decide() on the row as it is by now.
\* A closed row with the same outcome is returned unchanged; the veto event
\* follows a denial either way.
SameOutcome(r, d) ==
    approvals[r].status = IF d = "approve" THEN "approved" ELSE "denied"

ReviewEnd(r, d) ==
    /\ Idle
    /\ awaiting[r] > 0
    /\ awaiting' = [awaiting EXCEPT ![r] = @ - 1]
    /\ \/ Decide(r, Security, d)
       \/ SameOutcome(r, d) /\ UNCHANGED vars
    /\ vetoes' = IF d = "deny" THEN vetoes \cup {r} ELSE vetoes

\* Mutant: a late veto is announced although decide() refused it.
ReviewConflictVetoes(r, d) ==
    /\ Idle
    /\ awaiting[r] > 0
    /\ ~ Pending(r)
    /\ ~ SameOutcome(r, d)
    /\ awaiting' = [awaiting EXCEPT ![r] = @ - 1]
    /\ vetoes' = IF d = "deny" THEN vetoes \cup {r} ELSE vetoes
    /\ UNCHANGED vars

\* The LLM answers too late: decide() raises ApprovalConflict out of the review.
ReviewConflict(r, d) ==
    /\ Idle
    /\ awaiting[r] > 0
    /\ ~ Pending(r)
    /\ ~ SameOutcome(r, d)
    /\ awaiting' = [awaiting EXCEPT ![r] = @ - 1]
    /\ UNCHANGED <<vars, vetoes>>

\* POST .../approvals/{request_id}/decide: any request the user can name.
BoardDecide(r, d) == Decide(r, Board, d) /\ UNCHANGED <<awaiting, vetoes>>

\* A restart forgets the suspended reviews.
Restart ==
    /\ unsent' = {}
    /\ lost' = (lost \/ ~ Idle)
    /\ awaiting' = [r \in Requests |-> 0]
    /\ UNCHANGED <<approvals, now, closings, vetoes>>

\* The queue's own operations: requests of the tools and the connector,
\* cancellations, the timeout loop, the event appends and the clock.
QueueStep ==
    /\ \/ \E r \in Requests, k \in Kinds, f \in BOOLEAN : Request(r, k, Board, f)
       \/ \E r \in Requests : Cancel(r, Board)
       \/ ProcessTimeouts
       \/ AppendEvent
       \/ Tick
    /\ UNCHANGED <<awaiting, vetoes>>

-----------------------------------------------------------------------------

GovInit ==
    /\ Init
    /\ awaiting = [r \in Requests |-> 0]
    /\ vetoes = {}

GovNext ==
    \/ QueueStep
    \/ \E r \in Requests : ReviewCritical(r) \/ ReviewClear(r) \/ ReviewStart(r)
    \/ \E r \in Requests, d \in Decision : ReviewEnd(r, d) \/ ReviewConflict(r, d)
    \/ \E r \in Requests, d \in Decision : BoardDecide(r, d)
    \/ Restart

GovSpec == GovInit /\ [][GovNext]_govVars

\* The timeout loop and the clock run on, and a started method finishes.
\* Nobody has to decide, and a review need not end.
GovFairness ==
    LET Undisturbed == UNCHANGED <<awaiting, vetoes>>
    IN /\ WF_govVars(ProcessTimeouts /\ Undisturbed)
       /\ WF_govVars(AppendEvent /\ Undisturbed)
       /\ WF_govVars(Tick /\ Undisturbed)

GovFairSpec == GovSpec /\ GovFairness

-----------------------------------------------------------------------------
(* Properties. *)

\* A SECURITY_VETO event is never contradicted: a vetoed request is never
\* approved, whenever the LLM's answer arrives.
VetoHolds ==
    \A r \in vetoes : approvals[r].status = "denied"

=============================================================================
