------------------------------- MODULE Tools -------------------------------
(***************************************************************************)
(* Tools.invoke (modules/tools/service.py): the gates, the reservation,    *)
(* the approval, the executor, the commit, in this order.                  *)
(***************************************************************************)
EXTENDS Calls

CONSTANT Gated   \* the calls of tools whose requires_approval is not NONE

ASSUME GatedAssumption == Gated \subseteq Cids

\* Unknown tool, inactive agent, role, arguments or permission check: any call
\* may be refused here.
Deny(t, c) == Fail(t, c)

OverBudget(t, c) == ~ B!Fits(Estimate[c]) /\ Fail(t, c)

\* The call passed every gate: its estimate is reserved.
Reserve(t, c) ==
    /\ MayStart(t, c)
    /\ B!Reserve(Estimate[c], c)
    /\ task' = [task EXCEPT ![t] = [pc |-> "reserved", cid |-> c, res |-> Len(reservations')]]
    /\ running' = t
    /\ UNCHANGED <<phase, cache, completed, abandoned>>

\* _handle_approval: a tool that needs an approval asks for it under the
\* correlation id of the call.  Execution gives up the loop.
HandleApproval(t) ==
    /\ At(t, "reserved")
    /\ B!Idle
    /\ LET c == task[t].cid
           verdict == IF c \in Gated THEN Verdict(c) ELSE "approved"
       IN /\ IF c \in Gated THEN AskApproval(c) ELSE UNCHANGED phase
          /\ \/ verdict = "approved" /\ Goto(t, "executing") /\ running' = None
             \/ verdict # "approved" /\ Goto(t, verdict) /\ UNCHANGED running
    /\ UNCHANGED <<budgetVars, cache, completed, abandoned>>

\* Mutant: only a denied call is closed.
WithdrawDeniedOnly(t) ==
    /\ B!Release(task[t].res)
    /\ At(t, "denied") /\ Goto(t, "unpaid")
    /\ UNCHANGED <<phase, running, cache, completed, abandoned>>

\* A call that is not approved releases its reservation.
Withdraw(t) ==
    /\ B!Release(task[t].res)
    /\ \/ At(t, "pending") /\ Goto(t, "withdrawn")
       \/ At(t, "denied") /\ Goto(t, "unpaid")
    /\ UNCHANGED <<phase, running, cache, completed, abandoned>>

Next ==
    \/ \E t \in Tasks, c \in Cids : Deny(t, c) \/ OverBudget(t, c) \/ Reserve(t, c)
    \/ \E t \in Tasks : HandleApproval(t) \/ Withdraw(t)
    \/ CommonNext

Spec == Init /\ [][Next]_vars

\* The loop runs every task that is ready, in turn, so a task whose executor
\* has ended is resumed however busy the others are.  That an executor ends is
\* an assumption: the code sets it no time limit.
FairSpec ==
    /\ Spec
    /\ WF_vars(AppendEvent)
    /\ \A t \in Tasks :
          /\ WF_vars(HandleApproval(t) \/ Withdraw(t) \/ Return(t))
          /\ SF_vars(ExecuteOk(t) \/ ExecuteFail(t))

-----------------------------------------------------------------------------
(* Properties. *)

\* A tool that needs an approval runs only with one that was given, never
\* while its request is pending or after it was refused or timed out.
RunsApproved ==
    \A t \in Tasks :
        task[t].pc = "executing" /\ task[t].cid \in Gated => phase[task[t].cid] = "approved"

\* Every call that starts returns (or dies with its task): no path through
\* invoke waits for something that only invoke itself could provide.
EveryCallReturns == \A t \in Tasks : task[t].pc # "idle" ~> task[t].pc = "idle"

=============================================================================
