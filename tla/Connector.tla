------------------------------ MODULE Connector ------------------------------
(***************************************************************************)
(* Connector.call (modules/connector/connector.py): the gates, the rate    *)
(* limit, the approval, the reservation, the executor with its retries,    *)
(* the sanitizer, the commit, in this order.  Unlike Tools.invoke it asks  *)
(* for the approval before it reserves.                                    *)
(*                                                                         *)
(* The token bucket is left open: any call may find it empty.              *)
(***************************************************************************)
EXTENDS Calls

CONSTANTS
    LowRisk,         \* the calls of services whose risk is LOW
    Idempotent,      \* the calls of idempotent actions
    RetryableLimit   \* _RETRYABLE_LIMIT

ASSUME ConnectorConstants ==
    /\ LowRisk \subseteq Cids
    /\ Idempotent \subseteq Cids
    /\ RetryableLimit \in Nat \ {0}

VARIABLES
    allowed,   \* the calls whose action is on the allowlist
    under,     \* the calls whose estimate is within the auto-approve threshold
    tries,     \* attempts that the call of each task has made
    sent       \* the calls that reached their external service

connVars == <<allowed, under, tries, sent>>
allVars == <<vars, connVars>>

ConnTypeOK ==
    /\ CallsTypeOK
    /\ allowed \subseteq Cids /\ under \subseteq Cids
    /\ tries \in [Tasks -> 0 .. RetryableLimit]
    /\ sent \subseteq Cids
    /\ \A t \in Tasks : tries[t] > 0 <=> task[t].pc = "executing"

-----------------------------------------------------------------------------

\* Unknown service or action, not on the allowlist, wrong arguments.  (RateLimited is not
\* cached and changes nothing.)
ConnDeny(t, c) == Fail(t, c) /\ UNCHANGED connVars

\* Mutant: the threshold alone decides, whatever the risk of the service.
AutoApprovedAnyRisk(c) == c \in under

\* The auto-approve gate of _evaluate_approval.
AutoApproved(c) == c \in LowRisk /\ c \in under

\* Mutant: who has an approval is not asked for the allowlist.
ClearApproved(t, c) ==
    /\ MayStart(t, c)
    /\ (c \in allowed /\ AutoApproved(c)) \/ Verdict(c) = "approved"
    /\ task' = [task EXCEPT ![t] = [pc |-> "cleared", cid |-> c, res |-> 0]]
    /\ running' = t
    /\ UNCHANGED <<budgetVars, phase, cache, completed, abandoned, connVars>>

\* is_allowed, then _evaluate_approval says yes.
Clear(t, c) ==
    /\ MayStart(t, c)
    /\ c \in allowed
    /\ AutoApproved(c) \/ Verdict(c) = "approved"
    /\ task' = [task EXCEPT ![t] = [pc |-> "cleared", cid |-> c, res |-> 0]]
    /\ running' = t
    /\ UNCHANGED <<budgetVars, phase, cache, completed, abandoned, connVars>>

\* It opens or finds a pending request: the caller is to try again.
Pend(t, c) ==
    /\ MayStart(t, c)
    /\ c \in allowed
    /\ ~ AutoApproved(c)
    /\ Verdict(c) = "pending"
    /\ AskApproval(c)
    /\ UNCHANGED <<budgetVars, callVars, connVars>>

\* It finds a request that was refused.
Denied(t, c) ==
    /\ c \in allowed
    /\ ~ AutoApproved(c)
    /\ Verdict(c) = "denied"
    /\ Fail(t, c)
    /\ UNCHANGED connVars

\* The estimate is reserved.
ConnReserve(t) ==
    /\ At(t, "cleared")
    /\ LET c == task[t].cid
       IN /\ B!Reserve(Estimate[c], c)
          /\ task' = [task EXCEPT ![t] = [pc |-> "reserved", cid |-> c, res |-> Len(reservations')]]
    /\ UNCHANGED <<phase, running, cache, completed, abandoned, connVars>>

\* Over budget.
Refuse(t) ==
    /\ At(t, "cleared")
    /\ ~ B!Fits(Estimate[task[t].cid])
    /\ task' = [task EXCEPT ![t] = NoCall]
    /\ running' = None
    /\ cache' = [cache EXCEPT ![task[t].cid] = "failed"]
    /\ UNCHANGED <<budgetVars, phase, completed, abandoned, connVars>>

\* The first attempt; awaiting it gives up the loop.
Attempt(t) ==
    /\ At(t, "reserved")
    /\ B!Idle
    /\ Goto(t, "executing")
    /\ running' = None
    /\ sent' = sent \cup {task[t].cid}
    /\ tries' = [tries EXCEPT ![t] = 1]
    /\ UNCHANGED <<budgetVars, phase, cache, completed, abandoned, allowed, under>>

\* _execute_with_retry: how often an action may be attempted.
Attempts(c) == IF c \in Idempotent THEN RetryableLimit ELSE 1

\* An attempt raised ExternalServiceFailure and the action may be retried.
Retry(t) ==
    /\ LoopFree
    /\ task[t].pc = "executing"
    /\ tries[t] < Attempts(task[t].cid)
    /\ tries' = [tries EXCEPT ![t] = @ + 1]
    /\ UNCHANGED <<vars, allowed, under, sent>>

\* The executor and the sanitizer end well: commit.
Succeed(t) ==
    /\ ExecuteOk(t)
    /\ tries' = [tries EXCEPT ![t] = 0]
    /\ UNCHANGED <<allowed, under, sent>>

\* The last attempt fails, another exception is raised, or the sanitizer
\* rejects the answer: release.
GiveUp(t) ==
    /\ ExecuteFail(t)
    /\ tries' = [tries EXCEPT ![t] = 0]
    /\ UNCHANGED <<allowed, under, sent>>

ConnReturn(t) == Return(t) /\ UNCHANGED connVars

ConnRaise(t) == Raise(t) /\ UNCHANGED connVars

ConnCancel(t) ==
    /\ CancelTask(t)
    /\ tries' = [tries EXCEPT ![t] = 0]
    /\ UNCHANGED <<allowed, under, sent>>

\* Thresholds and the allowlist are kept in memory; a company starts with none.
ConnRestart ==
    /\ Restart
    /\ tries' = [t \in Tasks |-> 0]
    /\ under' = {} /\ allowed' = {}
    /\ UNCHANGED sent

\* set_action_threshold: in or out of reach of one call.
SetActionThreshold(c) ==
    /\ LoopFree
    /\ under' \in {under \cup {c}, under \ {c}}
    /\ UNCHANGED <<vars, allowed, tries, sent>>

\* allow and revoke of the allowlist.
Allow(S) == allowed \cup S
Revoke(S) == allowed \ S

\* The Board's routes, at any time.
UpdateThreshold(c) == SetActionThreshold(c)

UpdateAllowlist ==
    /\ LoopFree
    /\ \E S \in SUBSET Cids : allowed' = Allow(S) \/ allowed' = Revoke(S)
    /\ UNCHANGED <<vars, under, tries, sent>>

ConnInit ==
    /\ Init
    /\ under = {} /\ allowed = {}
    /\ tries = [t \in Tasks |-> 0]
    /\ sent = {}

ConnNext ==
    \/ \E t \in Tasks, c \in Cids :
          ConnDeny(t, c) \/ Clear(t, c) \/ Pend(t, c) \/ Denied(t, c)
    \/ \E t \in Tasks :
          \/ ConnReserve(t) \/ Refuse(t) \/ Attempt(t) \/ Retry(t) \/ Succeed(t) \/ GiveUp(t)
          \/ ConnReturn(t) \/ ConnRaise(t) \/ ConnCancel(t)
    \/ UpdateAllowlist
    \/ \E c \in Cids : UpdateThreshold(c)
    \/ (AppendEvent \/ OtherSpending \/ QueueDecides) /\ UNCHANGED connVars
    \/ ConnRestart

ConnSpec == ConnInit /\ [][ConnNext]_allVars

-----------------------------------------------------------------------------
(* Properties. *)

\* Nothing reaches a service that is not low-risk before its request was
\* approved, however the Board moves the thresholds and whoever retries.
SentWithConsent == \A c \in sent \ LowRisk : phase[c] = "approved"

\* A call goes out only while its action is on the allowlist, however long ago
\* its request was approved: what the Board revoked in the meantime stays home.
\* (A call that is under way is still retried.)
SentWhileAllowed ==
    [][\A t \in Tasks :
          task[t].pc # "executing" /\ task'[t].pc = "executing" =>
              task'[t].cid \in allowed]_allVars
=============================================================================
