------------------------------- MODULE Budget -------------------------------
(***************************************************************************)
(* The cost engine's Budget (modules/cost/budget.py): one company's        *)
(* budget_state row, its expenses table and its reservations table.        *)
(*                                                                         *)
(* Every public method is one BEGIN IMMEDIATE transaction followed, after  *)
(* COMMIT, by one EventStore append per event.  The service runs on one    *)
(* event loop and no method awaits, so a second method starts only once    *)
(* the first has appended its events: `outbox' holds the events still to   *)
(* be appended and every method waits for it to be empty.  A crash loses   *)
(* the outbox and nothing else.                                            *)
(*                                                                         *)
(* Amounts are the integer units of 1e-4 USD the tables store.             *)
(***************************************************************************)
EXTENDS Integers, Sequences, FiniteSets, Sums

CONSTANTS
    Amounts,          \* the amounts callers charge, reserve and commit
    Totals,           \* the totals the Board sets
    Refs,             \* the references of reservations (correlation ids)
    Direct,           \* the memo of an expense that no reservation preceded
    MaxReservations,  \* bound on rows of the reservations table
    MaxExpenses       \* bound on rows of the expenses table

ASSUME BudgetConstants ==
    /\ Amounts \subseteq Nat
    /\ Totals \subseteq Nat
    /\ Direct \notin Refs
    /\ MaxReservations \in Nat
    /\ MaxExpenses \in Nat

VARIABLES
    total,         \* budget_state.total_units
    blocked,       \* budget_state.blocked
    lastWarn,      \* budget_state.last_warn_pct
    expenses,      \* the expenses table, in insertion order
    reservations,  \* the reservations table, in insertion order
    outbox,        \* events of the running method that are not yet appended
    charged,       \* expenses (row numbers) with an EXPENSE_CHARGED event
    lastAlert,     \* the latest budget alert in the event store
    crashed        \* has a crash lost events?

ledger == <<total, blocked, lastWarn, expenses, reservations>>
vars == <<ledger, outbox, charged, lastAlert, crashed>>

WARNING_PCT == 80
BLOCKED_PCT == 100
ReservationStatus == {"open", "committed", "released"}
Alerts == {"BUDGET_WARNING", "BUDGET_BLOCKED"}

\* An event: its kind and, for an EXPENSE_CHARGED, the row of its expense.
Event == [kind : Alerts \cup {"EXPENSE_CHARGED"}, expense : Nat]
Alert(kind) == [kind |-> kind, expense |-> 0]
ExpenseCharged(row) == [kind |-> "EXPENSE_CHARGED", expense |-> row]

TypeOK ==
    /\ total \in Nat
    /\ blocked \in BOOLEAN
    /\ lastWarn \in {0, WARNING_PCT, BLOCKED_PCT}
    /\ expenses \in Seq([amount : Nat, memo : Refs \cup {Direct}])
    /\ reservations \in Seq([amount : Nat, ref : Refs, status : ReservationStatus])
    /\ outbox \in Seq(Event)
    /\ charged \subseteq Nat
    /\ lastAlert \in Alerts \cup {"none"}
    /\ crashed \in BOOLEAN

-----------------------------------------------------------------------------
(* The amount queries. *)

\* _sum_expenses
SumExpenses(e) == SumTo([i \in 1 .. Len(e) |-> e[i].amount], Len(e))

\* _sum_open_reservations
OpenAmount(r) == IF r.status = "open" THEN r.amount ELSE 0
SumOpen(rs) == SumTo([i \in 1 .. Len(rs) |-> OpenAmount(rs[i])], Len(rs))

Spent == SumExpenses(expenses)
Reserved == SumOpen(reservations)
Used == Spent + Reserved

-----------------------------------------------------------------------------
(* _evaluate_thresholds_locked *)

\* used / total * 100 >= pct, where a total of 0 counts as 0 percent.
AtLeast(t, u, pct) == t > 0 /\ u * 100 >= pct * t

\* The highest threshold that usage u of total t has reached.  The upward and
\* the downward crossings together always leave last_warn_pct there.
Level(t, u) ==
    IF AtLeast(t, u, BLOCKED_PCT) THEN BLOCKED_PCT
    ELSE IF AtLeast(t, u, WARNING_PCT) THEN WARNING_PCT
    ELSE 0

\* The alert for crossing a threshold upwards.
CrossingAlert(t, u) ==
    CASE Level(t, u) = BLOCKED_PCT /\ lastWarn < BLOCKED_PCT -> <<Alert("BUDGET_BLOCKED")>>
      [] Level(t, u) = WARNING_PCT /\ lastWarn < WARNING_PCT -> <<Alert("BUDGET_WARNING")>>
      [] OTHER -> <<>>

\* Mutant: the block outlives the usage that caused it.
EvaluateThresholdsNeverLifts(t, u, events) ==
    /\ lastWarn' = Level(t, u)
    /\ blocked' = (blocked \/ Level(t, u) = BLOCKED_PCT)
    /\ outbox' = events \o CrossingAlert(t, u)

\* The threshold evaluation that ends a transaction leaving total t and usage
\* u.  At the limit an unannounced level blocks; below it the block is lifted.
EvaluateThresholds(t, u, events) ==
    /\ lastWarn' = Level(t, u)
    /\ blocked' = (Level(t, u) = BLOCKED_PCT /\ (blocked \/ lastWarn < BLOCKED_PCT))
    /\ outbox' = events \o CrossingAlert(t, u)

\* The refusal of a charge or a commit: the block flag, and its alert.
Block ==
    /\ blocked' = TRUE
    /\ lastWarn' = BLOCKED_PCT
    /\ outbox' = <<Alert("BUDGET_BLOCKED")>>

-----------------------------------------------------------------------------
(* The methods. *)

Idle == outbox = <<>>

\* Mutant: what others have reserved is not counted.
FitsIgnoringReserved(a) == ~ blocked /\ Spent + a <= total

\* No more than the total may be used, and nothing while blocked.
Fits(a) == ~ blocked /\ Used + a <= total

\* set_total
SetTotal(t) ==
    /\ Idle
    /\ total' = t
    /\ EvaluateThresholds(t, Used, <<>>)
    /\ UNCHANGED <<expenses, reservations, charged, lastAlert, crashed>>

\* charge, accepted
ChargeAccepted(a) ==
    /\ Idle
    /\ Fits(a)
    /\ Len(expenses) < MaxExpenses
    /\ expenses' = Append(expenses, [amount |-> a, memo |-> Direct])
    /\ EvaluateThresholds(total, SumExpenses(expenses') + Reserved, <<ExpenseCharged(Len(expenses'))>>)
    /\ UNCHANGED <<total, reservations, charged, lastAlert, crashed>>

\* charge, refused: while blocked only the alert is repeated (its flags are
\* already set), otherwise the company is blocked.
ChargeRefused(a) ==
    /\ Idle
    /\ ~ Fits(a)
    /\ IF blocked
       THEN outbox' = <<Alert("BUDGET_BLOCKED")>> /\ UNCHANGED <<blocked, lastWarn>>
       ELSE Block
    /\ UNCHANGED <<total, expenses, reservations, charged, lastAlert, crashed>>

\* reserve; a refusal raises OverBudget, rolls back and changes nothing.
Reserve(a, ref) ==
    /\ Idle
    /\ Fits(a)
    /\ Len(reservations) < MaxReservations
    /\ reservations' = Append(reservations, [amount |-> a, ref |-> ref, status |-> "open"])
    /\ EvaluateThresholds(total, Spent + SumOpen(reservations'), <<>>)
    /\ UNCHANGED <<total, expenses, charged, lastAlert, crashed>>

Open == {i \in 1 .. Len(reservations) : reservations[i].status = "open"}

Close(i, status) == reservations' = [reservations EXCEPT ![i].status = status]

\* release; it raises on a reservation that is not open, evaluates no
\* threshold and emits no event.
Release(i) ==
    /\ Idle
    /\ i \in Open
    /\ Close(i, "released")
    /\ UNCHANGED <<total, blocked, lastWarn, expenses, outbox, charged, lastAlert, crashed>>

\* The actual amount a commit may record for reservation i.
CommitFits(i, actual) ==
    ~ blocked /\ Used - reservations[i].amount + actual <= total

\* Mutant: the expense is recorded but its event is forgotten.
CommitAcceptedSilently(i, actual) ==
    /\ Idle
    /\ i \in Open
    /\ CommitFits(i, actual)
    /\ Len(expenses) < MaxExpenses
    /\ Close(i, "committed")
    /\ expenses' = Append(expenses, [amount |-> actual, memo |-> reservations[i].ref])
    /\ EvaluateThresholds(total, SumExpenses(expenses') + SumOpen(reservations'), <<>>)
    /\ UNCHANGED <<total, charged, lastAlert, crashed>>

\* commit, accepted
CommitAccepted(i, actual) ==
    /\ Idle
    /\ i \in Open
    /\ CommitFits(i, actual)
    /\ Len(expenses) < MaxExpenses
    /\ Close(i, "committed")
    /\ expenses' = Append(expenses, [amount |-> actual, memo |-> reservations[i].ref])
    /\ EvaluateThresholds(total, SumExpenses(expenses') + SumOpen(reservations'),
                          <<ExpenseCharged(Len(expenses'))>>)
    /\ UNCHANGED <<total, charged, lastAlert, crashed>>

\* commit, refused: the reservation is released and the company blocked.
CommitRefused(i, actual) ==
    /\ Idle
    /\ i \in Open
    /\ ~ CommitFits(i, actual)
    /\ Close(i, "released")
    /\ Block
    /\ UNCHANGED <<total, expenses, charged, lastAlert, crashed>>

\* The loop of EventStore.append calls after COMMIT.
AppendEvent ==
    /\ outbox # <<>>
    /\ outbox' = Tail(outbox)
    /\ \/ /\ Head(outbox).kind \in Alerts
          /\ lastAlert' = Head(outbox).kind
          /\ UNCHANGED charged
       \/ /\ Head(outbox).kind = "EXPENSE_CHARGED"
          /\ charged' = charged \cup {Head(outbox).expense}
          /\ UNCHANGED lastAlert
    /\ UNCHANGED <<ledger, crashed>>

\* The process dies between COMMIT and the appends, or an append raises out of
\* the method; the tables keep what was committed.
Crash ==
    /\ outbox # <<>>
    /\ outbox' = <<>>
    /\ crashed' = TRUE
    /\ UNCHANGED <<ledger, charged, lastAlert>>

-----------------------------------------------------------------------------

Init ==
    /\ total = 0
    /\ blocked = FALSE
    /\ lastWarn = 0
    /\ expenses = <<>>
    /\ reservations = <<>>
    /\ outbox = <<>>
    /\ charged = {}
    /\ lastAlert = "none"
    /\ crashed = FALSE

Next ==
    \/ \E t \in Totals : SetTotal(t)
    \/ \E a \in Amounts : ChargeAccepted(a)
    \/ \E a \in Amounts : ChargeRefused(a)
    \/ \E a \in Amounts, ref \in Refs : Reserve(a, ref)
    \/ \E i \in 1 .. Len(reservations) : Release(i)
    \/ \E i \in 1 .. Len(reservations), a \in Amounts : CommitAccepted(i, a)
    \/ \E i \in 1 .. Len(reservations), a \in Amounts : CommitRefused(i, a)
    \/ AppendEvent
    \/ Crash

Spec == Init /\ [][Next]_vars
-----------------------------------------------------------------------------
(* Properties. *)

\* The two flags of budget_state never contradict each other: a company is
\* blocked exactly when the limit is the last threshold recorded.  charge,
\* commit and the threshold evaluation write them in different places.
FlagsAgree == blocked <=> lastWarn = BLOCKED_PCT

\* No step lets spent plus reserved grow past the total: only lowering the
\* total may leave a company over its budget.  The check and the insert are
\* one transaction and the reserved amount of other callers counts.
SpendingWithinTotal == [][Used' > Used => Used' <= total']_vars

\* The books are append-only: an expense never changes or disappears, and a
\* reservation that was committed or released never moves again, although two
\* callers may try to close it.
BooksAppendOnly ==
    [][/\ \A i \in 1 .. Len(expenses) :
             i <= Len(expenses') /\ expenses'[i] = expenses[i]
       /\ \A i \in 1 .. Len(reservations) :
             /\ i <= Len(reservations')
             /\ reservations[i].status # "open" => reservations'[i] = reservations[i]]_vars

\* Usage never stands above the threshold recorded for it: whatever order of
\* charges, reservations, commits, releases and new totals led here, a company
\* whose usage is at 80 percent has been warned and one at 100 percent is
\* blocked.  (release skips the threshold evaluation.)
LimitIsFlagged == Level(total, Used) <= lastWarn

\* The expenses whose EXPENSE_CHARGED event is still to be appended.
Unannounced == {outbox[k].expense : k \in {j \in 1 .. Len(outbox) :
                                             outbox[j].kind = "EXPENSE_CHARGED"}}

\* The event log never reports an expense that the books do not hold, whatever
\* crashes; and until a crash every expense is reported or about to be.
LogMatchesBooks ==
    /\ charged \cup Unannounced \subseteq 1 .. Len(expenses)
    /\ ~ crashed => charged \cup Unannounced = 1 .. Len(expenses)

=============================================================================
