------------------------------ MODULE Approvals -----------------------------
(***************************************************************************)
(* The approval queue (modules/approvals/service.py): one row per request  *)
(* in the approvals table.  Every method is one transaction, followed      *)
(* after COMMIT by the appends to the event store; `unsent' holds the      *)
(* events not yet appended, and no method starts before they are (one      *)
(* event loop, no awaits).  A crash loses them.                            *)
(*                                                                         *)
(* Time is the time_provider's, in ticks of the timeout loop.              *)
(***************************************************************************)
EXTENDS Integers, FiniteSets

CONSTANTS
    Requests,       \* request ids
    Kinds,          \* approval kinds
    SecurityKinds,  \* kinds that require the security pre-veto
    AutoDenyKinds,  \* kinds that are denied, not lapsed, on expiry
    Deciders,       \* who calls decide and cancel
    Targets,        \* the deciders a route may name for the main leg
    Timeout,        \* ticks until a request of a kind expires
    Nobody,         \* decided_by IS NULL
    MaxTime         \* bound on time

ASSUME ApprovalConstants ==
    /\ SecurityKinds \subseteq Kinds
    /\ AutoDenyKinds \subseteq Kinds
    /\ Targets \subseteq Deciders
    /\ Timeout \in [Kinds -> Nat]
    /\ Nobody \notin Deciders
    /\ MaxTime \in Nat

VARIABLES
    approvals,  \* the approvals table; NoRow where there is no row
    now,        \* the current time
    unsent,     \* events of the running method that are not yet appended
    closings,   \* per request, the closing events in the event store
    lost        \* has a crash lost events?

vars == <<approvals, now, unsent, closings, lost>>

Status == {"pending", "approved", "denied", "timeout", "cancelled"}
Decision == {"approve", "deny"}

Row == [kind : Kinds, target : Targets, requireSecurity : BOOLEAN,
        status : Status, securityDecision : Decision \cup {"none"},
        decidedBy : Deciders \cup {Nobody},
        expiresAt : Nat]

NoRow == [status |-> "none"]

EventKinds == {"APPROVAL_REQUESTED", "APPROVAL_DECIDED", "APPROVAL_TIMEOUT"}

TypeOK ==
    /\ approvals \in [Requests -> Row \cup {NoRow}]
    /\ now \in 0 .. MaxTime
    /\ unsent \subseteq [kind : EventKinds, id : Requests]
    /\ closings \in [Requests -> Nat]
    /\ lost \in BOOLEAN

-----------------------------------------------------------------------------

Idle == unsent = {}
Exists(r) == approvals[r] # NoRow
Pending(r) == approvals[r].status = "pending"

\* The security leg is still to be decided.
InSecurityStep(r) ==
    approvals[r].requireSecurity /\ approvals[r].securityDecision = "none"

\* pending_for(SECURITY) and pending_for(target)
PendingForSecurity == {r \in Requests : Exists(r) /\ Pending(r) /\ InSecurityStep(r)}
PendingFor(t) == {r \in Requests : /\ Exists(r)
                                   /\ Pending(r)
                                   /\ approvals[r].target = t
                                   /\ ~ InSecurityStep(r)}

Emit(kind, S) == unsent' = {[kind |-> kind, id |-> r] : r \in S}

\* request; an existing row is returned as it is.
Request(r, kind, target, flag) ==
    /\ Idle
    /\ ~ Exists(r)
    /\ now + Timeout[kind] <= MaxTime
    /\ approvals' = [approvals EXCEPT ![r] =
          [kind |-> kind, target |-> target,
           requireSecurity |-> flag \/ kind \in SecurityKinds,
           status |-> "pending", securityDecision |-> "none",
           decidedBy |-> Nobody,
           expiresAt |-> now + Timeout[kind]]]
    /\ Emit("APPROVAL_REQUESTED", {r})
    /\ UNCHANGED <<now, closings, lost>>

\* Whoever is allowed to decide, decide() only looks at the row: it is open...
Decidable(r) == Idle /\ Exists(r) /\ Pending(r)

\* ... and in its security step a denial vetoes the request,
DecideVeto(r, who) ==
    /\ Decidable(r)
    /\ InSecurityStep(r)
    /\ approvals' = [approvals EXCEPT ![r] =
          [@ EXCEPT !.securityDecision = "deny",
                    !.status = "denied", !.decidedBy = who]]
    /\ Emit("APPROVAL_DECIDED", {r})
    /\ UNCHANGED <<now, closings, lost>>

\* Mutant: the approval of the security leg closes the request.
DecideClearCloses(r, who) ==
    /\ Decidable(r)
    /\ InSecurityStep(r)
    /\ approvals' = [approvals EXCEPT ![r] =
          [@ EXCEPT !.securityDecision = "approve", !.status = "approved"]]
    /\ UNCHANGED <<now, unsent, closings, lost>>

\* an approval clears the security leg and leaves the row pending, without event;
DecideClear(r, who) ==
    /\ Decidable(r)
    /\ InSecurityStep(r)
    /\ approvals' = [approvals EXCEPT ![r] =
          [@ EXCEPT !.securityDecision = "approve"]]
    /\ UNCHANGED <<now, unsent, closings, lost>>

\* Mutant: a final decision does not wait for the security leg.
DecideFinalEarly(r, who, d) ==
    /\ Decidable(r)
    /\ approvals' = [approvals EXCEPT ![r] =
          [@ EXCEPT !.status = IF d = "approve" THEN "approved" ELSE "denied",
                    !.decidedBy = who]]
    /\ Emit("APPROVAL_DECIDED", {r})
    /\ UNCHANGED <<now, closings, lost>>

\* otherwise the decision is final.
DecideFinal(r, who, d) ==
    /\ Decidable(r)
    /\ ~ InSecurityStep(r)
    /\ approvals' = [approvals EXCEPT ![r] =
          [@ EXCEPT !.status = IF d = "approve" THEN "approved" ELSE "denied",
                    !.decidedBy = who]]
    /\ Emit("APPROVAL_DECIDED", {r})
    /\ UNCHANGED <<now, closings, lost>>

\* decide; on a closed row it returns the row or raises ApprovalConflict, and
\* changes nothing.
Decide(r, who, d) ==
    \/ d = "deny" /\ DecideVeto(r, who)
    \/ d = "approve" /\ DecideClear(r, who)
    \/ DecideFinal(r, who, d)

\* cancel
Cancel(r, who) ==
    /\ Decidable(r)
    /\ approvals' = [approvals EXCEPT ![r] =
          [@ EXCEPT !.status = "cancelled", !.decidedBy = who]]
    /\ Emit("APPROVAL_DECIDED", {r})
    /\ UNCHANGED <<now, closings, lost>>

\* Mutant: the timeout query does not filter on the status.
ExpiredAgain == {r \in Requests : Exists(r) /\ approvals[r].expiresAt <= now}

\* Mutant: the timeout query skips what awaits Security.
ExpiredMainOnly == {r \in Requests : /\ Exists(r)
                                     /\ Pending(r)
                                     /\ ~ InSecurityStep(r)
                                     /\ approvals[r].expiresAt <= now}

\* process_timeouts: one transaction closes every expired row.
Expired == {r \in Requests : Exists(r) /\ Pending(r) /\ approvals[r].expiresAt <= now}

ProcessTimeouts ==
    /\ Idle
    /\ Expired # {}
    /\ approvals' = [r \in Requests |->
          IF r \notin Expired THEN approvals[r]
          ELSE [approvals[r] EXCEPT !.status =
                  IF approvals[r].kind \in AutoDenyKinds THEN "denied" ELSE "timeout"]]
    /\ Emit("APPROVAL_TIMEOUT", Expired)
    /\ UNCHANGED <<now, closings, lost>>

\* EventStore.append, in whatever order the rows were selected.
AppendEvent ==
    \E e \in unsent :
        /\ unsent' = unsent \ {e}
        /\ closings' = IF e.kind = "APPROVAL_REQUESTED" THEN closings
                       ELSE [closings EXCEPT ![e.id] = @ + 1]
        /\ UNCHANGED <<approvals, now, lost>>

\* The process dies after COMMIT, or an append raises out of the method.
Crash ==
    /\ ~ Idle
    /\ unsent' = {}
    /\ lost' = TRUE
    /\ UNCHANGED <<approvals, now, closings>>

Tick ==
    /\ Idle
    /\ now < MaxTime
    /\ now' = now + 1
    /\ UNCHANGED <<approvals, unsent, closings, lost>>

-----------------------------------------------------------------------------

Init ==
    /\ approvals = [r \in Requests |-> NoRow]
    /\ now = 0
    /\ unsent = {}
    /\ closings = [r \in Requests |-> 0]
    /\ lost = FALSE

Next ==
    \/ \E r \in Requests, k \in Kinds, t \in Targets, f \in BOOLEAN : Request(r, k, t, f)
    \/ \E r \in Requests, who \in Deciders, d \in Decision : Decide(r, who, d)
    \/ \E r \in Requests, who \in Deciders : Cancel(r, who)
    \/ ProcessTimeouts
    \/ AppendEvent
    \/ Crash
    \/ Tick

Spec == Init /\ [][Next]_vars

\* The timeout loop and the clock run on; a started method finishes.
Fairness ==
    /\ WF_vars(ProcessTimeouts)
    /\ WF_vars(AppendEvent)
    /\ WF_vars(Tick)

FairSpec == Spec /\ Fairness

-----------------------------------------------------------------------------
(* Properties. *)

\* A closed request never changes again, although decisions, cancellations
\* and the timeout loop race for it.
OutcomeIsFinal ==
    [][\A r \in Requests :
         Exists(r) /\ ~ Pending(r) => approvals'[r] = approvals[r]]_vars

\* The security pre-veto cannot be overridden, and it cannot be skipped: a
\* vetoed request stays denied, and one that requires security is approved only
\* once its security leg was approved in an earlier decision.
SecurityGate ==
    \A r \in Requests : Exists(r) =>
        /\ approvals[r].securityDecision = "deny" => approvals[r].status = "denied"
        /\ approvals[r].status = "approved" /\ approvals[r].requireSecurity
              => approvals[r].securityDecision = "approve"

\* The requests whose closing event is in the store or about to be appended.
ClosingEvents(r) ==
    closings[r] + Cardinality({e \in unsent : e.id = r /\ e.kind # "APPROVAL_REQUESTED"})

\* Each request is reported closed at most once, never while it is pending,
\* and (unless a crash lost the event) exactly once when it is closed.
ClosedOnceInLog ==
    \A r \in Requests :
        /\ ClosingEvents(r) <= 1
        /\ ClosingEvents(r) = 1 => Exists(r) /\ ~ Pending(r)
        /\ Exists(r) /\ ~ Pending(r) /\ ~ lost => ClosingEvents(r) = 1

\* While the timeout loop runs no request stays pending for ever.
EventuallyClosed == \A r \in Requests : Exists(r) ~> ~ Pending(r)

\* The phase of a request in the terms of ApprovalPromise.
PhaseOf(r) ==
    CASE ~ Exists(r) -> "none"
      [] Exists(r) /\ Pending(r) /\ InSecurityStep(r) -> "security"
      [] Exists(r) /\ Pending(r) /\ ~ InSecurityStep(r) -> "main"
      [] Exists(r) /\ approvals[r].status = "approved" -> "approved"
      [] OTHER -> "refused"

Promise == INSTANCE ApprovalPromise WITH phase <- [r \in Requests |-> PhaseOf(r)]

\* The queue implements what it promises its callers.
KeepsPromise == Promise!Spec

=============================================================================
