------------------------------- MODULE Calls -------------------------------
(***************************************************************************)
(* What Tools.invoke (modules/tools/service.py) and Connector.call         *)
(* (modules/connector/connector.py) have in common: a call reserves its    *)
(* estimated cost, awaits its executor, and commits or releases the        *)
(* reservation; its result is cached under its correlation id.             *)
(*                                                                         *)
(* Calls run as tasks of one event loop.  A task gives the loop up only at *)
(* the await of its executor, so everything before and after it runs       *)
(* without another task in between; `running' is the task that has the     *)
(* loop.  The steps of a task are the transactions it makes, because the   *)
(* process may crash between any two.                                      *)
(*                                                                         *)
(* The budget is the whole of module Budget.  The approval queue is what   *)
(* module Approvals is proved to promise.                                  *)
(***************************************************************************)
EXTENDS Integers, Sequences, FiniteSets

CONSTANTS
    Tasks,            \* the asyncio tasks that make calls
    Cids,             \* correlation ids
    None,             \* no task, no correlation id
    Estimate,         \* the cost estimate of each call, in budget units
    Totals,           \* the totals the Board sets
    Amounts,          \* the amounts other parts of the company charge
    MaxReservations,
    MaxExpenses

ASSUME CallConstants ==
    /\ None \notin Tasks \cup Cids
    /\ Estimate \in [Cids -> Nat]
    /\ Totals \cup Amounts \subseteq Nat

VARIABLES
    total, blocked, lastWarn, expenses, reservations,
    outbox, charged, lastAlert, crashed,
    phase,      \* of the approval request under each correlation id
    task,       \* what each task is doing, for which call, with which reservation
    running,    \* the task that has the event loop
    cache,      \* _completed: the result under each correlation id
    completed,  \* how often the executor of a call returned a valid output
    abandoned   \* open reservations whose call ended without closing them

B == INSTANCE Budget WITH Amounts <- Amounts \cup {Estimate[c] : c \in Cids},
                          Refs <- Cids, Direct <- None
P == INSTANCE ApprovalPromise WITH Requests <- Cids

budgetVars == <<total, blocked, lastWarn, expenses, reservations,
                outbox, charged, lastAlert, crashed>>
callVars == <<task, running, cache, completed, abandoned>>
vars == <<budgetVars, phase, callVars>>

\* Where a task stands: it has no call; it passed the gates ("cleared"); it
\* holds a reservation ("reserved", then "pending" or "denied" by the approval
\* queue, or "executing"); it closed its reservation and is about to return.
Steps == {"idle", "cleared", "reserved", "pending", "denied", "executing",
          "paid", "unpaid", "withdrawn"}
Holding == {"reserved", "pending", "denied", "executing"}
Results == {"none", "ok", "failed"}

NoCall == [pc |-> "idle", cid |-> None, res |-> 0]

CallsTypeOK ==
    /\ B!TypeOK
    /\ phase \in [Cids -> P!Phases]
    /\ task \in [Tasks -> [pc : Steps, cid : Cids \cup {None}, res : 0 .. MaxReservations]]
    /\ running \in Tasks \cup {None}
    /\ cache \in [Cids -> Results]
    /\ completed \in [Cids -> Nat]
    /\ abandoned \subseteq 1 .. MaxReservations
    /\ running = None <=> \A t \in Tasks : task[t].pc \in {"idle", "executing"}

-----------------------------------------------------------------------------
(* The parts of a call. *)

\* No task has the loop and no budget method is still appending its events.
LoopFree == running = None /\ B!Idle

\* Task t may start a call for c: no result is cached.
MayStart(t, c) ==
    /\ LoopFree
    /\ task[t].pc = "idle"
    /\ cache[c] = "none"

At(t, pc) == running = t /\ task[t].pc = pc

Goto(t, pc) == task' = [task EXCEPT ![t].pc = pc]

\* A call that fails at a gate: the failure is cached and nothing else happens.
Fail(t, c) ==
    /\ MayStart(t, c)
    /\ cache' = [cache EXCEPT ![c] = "failed"]
    /\ UNCHANGED <<budgetVars, phase, task, running, completed, abandoned>>

\* The approval request under c is opened unless it exists.
AskApproval(c) ==
    IF phase[c] = "none" THEN P!Open(c) ELSE UNCHANGED phase

\* Mutant: an unsettled request counts as a consent.
VerdictOptimistic(c) ==
    IF phase[c] = "refused" THEN "denied" ELSE "approved"

\* What the queue answers.
Verdict(c) ==
    CASE phase[c] = "approved" -> "approved"
      [] phase[c] = "refused" -> "denied"
      [] OTHER -> "pending"

\* The executor returned a valid output: commit at the estimate.
ExecuteOk(t) ==
    /\ LoopFree
    /\ task[t].pc = "executing"
    /\ running' = t
    /\ completed' = [completed EXCEPT ![task[t].cid] = @ + 1]
    /\ LET amount == Estimate[task[t].cid]
       IN \/ B!CommitAccepted(task[t].res, amount) /\ Goto(t, "paid")
          \/ B!CommitRefused(task[t].res, amount) /\ Goto(t, "unpaid")
    /\ UNCHANGED <<phase, cache, abandoned>>

\* Mutant: the reservation of a failed executor is kept.
ExecuteFailKeeps(t) ==
    /\ LoopFree
    /\ task[t].pc = "executing"
    /\ running' = t
    /\ Goto(t, "unpaid")
    /\ UNCHANGED <<budgetVars, phase, cache, completed, abandoned>>

\* The executor raised, or its output is not valid: the reservation is
\* released and the failure is returned.
ExecuteFail(t) ==
    /\ LoopFree
    /\ task[t].pc = "executing"
    /\ running' = t
    /\ B!Release(task[t].res)
    /\ Goto(t, "unpaid")
    /\ UNCHANGED <<phase, cache, completed, abandoned>>

\* Mutant: every call that comes this far counts as a success.
ReturnOk(t) ==
    /\ running = t
    /\ task[t].pc \in {"paid", "unpaid", "withdrawn"}
    /\ B!Idle
    /\ running' = None
    /\ task' = [task EXCEPT ![t] = NoCall]
    /\ cache' = [cache EXCEPT ![task[t].cid] = "ok"]
    /\ UNCHANGED <<budgetVars, phase, completed, abandoned>>

\* The call returns and its result is cached, unless it awaits its approval.
Return(t) ==
    /\ running = t
    /\ task[t].pc \in {"paid", "unpaid", "withdrawn"}
    /\ B!Idle
    /\ running' = None
    /\ task' = [task EXCEPT ![t] = NoCall]
    /\ cache' = CASE task[t].pc = "paid" -> [cache EXCEPT ![task[t].cid] = "ok"]
                  [] task[t].pc = "unpaid" -> [cache EXCEPT ![task[t].cid] = "failed"]
                  [] OTHER -> cache
    /\ UNCHANGED <<budgetVars, phase, completed, abandoned>>

\* Agent.stop cancels a task that does not end in time.  CancelledError is not
\* an Exception, so no handler releases the reservation.
CancelTask(t) ==
    /\ LoopFree
    /\ task[t].pc = "executing"
    /\ task' = [task EXCEPT ![t] = NoCall]
    /\ abandoned' = abandoned \cup {task[t].res}
    /\ UNCHANGED <<budgetVars, phase, running, cache, completed>>

\* An append to the event store, or a transaction, raises out of the call: the
\* arguments or the output exceed the payload limit, or the database fails.  No
\* handler is left to release the reservation or to cache a result; the turn
\* that made the call catches the exception and goes on.
Raise(t) ==
    /\ running = t
    /\ IF B!Idle THEN UNCHANGED budgetVars ELSE B!Crash
    /\ task' = [task EXCEPT ![t] = NoCall]
    /\ running' = None
    /\ abandoned' = IF task[t].pc \in Holding THEN abandoned \cup {task[t].res} ELSE abandoned
    /\ UNCHANGED <<phase, cache, completed>>

\* The process dies and starts again: tasks, cache and unsent events are lost.
Restart ==
    /\ IF B!Idle THEN UNCHANGED budgetVars ELSE B!Crash
    /\ task' = [t \in Tasks |-> NoCall]
    /\ running' = None
    /\ cache' = [c \in Cids |-> "none"]
    /\ abandoned' = B!Open
    /\ UNCHANGED <<phase, completed>>

\* The events of a budget transaction are appended before its method returns.
AppendEvent == B!AppendEvent /\ UNCHANGED <<phase, callVars>>

\* The Board's route to a new total.
UpdateBudget(t) == B!SetTotal(t)

\* The rest of the company: the Board sets totals, other parts charge.
OtherSpending ==
    /\ LoopFree
    /\ \/ \E t \in Totals : UpdateBudget(t)
       \/ \E a \in Amounts : B!ChargeAccepted(a)
       \/ \E a \in Amounts : B!ChargeRefused(a)
    /\ UNCHANGED <<phase, callVars>>

\* Decisions, cancellations and timeouts reach the approval queue.
QueueDecides ==
    /\ LoopFree
    /\ \/ \E c \in Cids : P!Clear(c) \/ P!Approve(c)
       \/ \E S \in SUBSET Cids : S # {} /\ P!Refuse(S)
    /\ UNCHANGED <<budgetVars, callVars>>

Init ==
    /\ B!Init
    /\ P!Init
    /\ task = [t \in Tasks |-> NoCall]
    /\ running = None
    /\ cache = [c \in Cids |-> "none"]
    /\ completed = [c \in Cids |-> 0]
    /\ abandoned = {}

\* The steps that both call layers share.
CommonNext ==
    \/ \E t \in Tasks : ExecuteOk(t) \/ ExecuteFail(t) \/ Return(t)
                          \/ CancelTask(t) \/ Raise(t)
    \/ AppendEvent
    \/ OtherSpending
    \/ QueueDecides
    \/ Restart

-----------------------------------------------------------------------------
(* Properties. *)

Held == {task[t].res : t \in {u \in Tasks : task[u].pc \in Holding}}

\* No reservation leaks: what is reserved is held by exactly one call that is
\* still to close it, or was abandoned by a cancellation, a crash or an error
\* of the database.  Every early return, failed executor and refused commit has
\* closed its own.
OpenIsHeld ==
    /\ B!Open = Held \cup abandoned
    /\ Held \cap abandoned = {}
    /\ \A t, u \in Tasks :
          /\ {task[t].pc, task[u].pc} \subseteq Holding
          /\ task[t].res = task[u].res
          => t = u

ExpensesOf(c) == {i \in 1 .. Len(expenses) : expenses[i].memo = c}

\* A cached success was paid for, and nothing is charged twice for one
\* execution nor for one that failed, whatever is retried, cancelled or
\* restarted.
PaidForWork ==
    \A c \in Cids :
        /\ cache[c] = "ok" => ExpensesOf(c) # {}
        /\ Cardinality(ExpensesOf(c)) <= completed[c]

=============================================================================
