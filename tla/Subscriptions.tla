---------------------------- MODULE Subscriptions ----------------------------
(***************************************************************************)
(* Recurring charges (modules/cost/subscriptions.py) on the budget of a    *)
(* company, one for each due subscription on every day tick.               *)
(*                                                                         *)
(* on_day_tick awaits nothing.  For every subscription it makes a charge,  *)
(* which is a transaction and its events, and then a transaction of its    *)
(* own that moves the next due day or cancels; the process may die, or an  *)
(* append raise, between any two of them.  Nothing in the repository but   *)
(* its tests calls on_day_tick.                                            *)
(***************************************************************************)
EXTENDS Budget

CONSTANTS
    Subs,        \* ids of subscriptions
    Price,       \* amount_per_company_month
    Period,      \* period_days
    None,        \* no subscription
    MaxDay       \* bound: company days

ASSUME SubscriptionConstants ==
    /\ None \notin Subs /\ None \notin Nat
    /\ Price \in Amounts
    /\ Period \in Nat \ {0}
    /\ MaxDay \in Nat

VARIABLES
    day,       \* the day of the last tick
    first,     \* the day each subscription was to be charged first, None before
    next,      \* next_charge_company_day
    active,    \* subscriptions that exist and are not cancelled
    due,       \* those that the running tick still has to charge
    billing,   \* the one whose charge was made and that is still to be updated
    accepted,  \* whether that charge was accepted
    bills,     \* charges accepted for each subscription
    deaths     \* bills whose update a crash prevented

subVars == <<day, first, next, active, due, billing, accepted, bills, deaths>>
allVars == <<vars, subVars>>

SubTypeOK ==
    /\ TypeOK
    /\ day \in 0 .. MaxDay
    /\ first \in [Subs -> 0 .. MaxDay \cup {None}]
    /\ next \in [Subs -> Nat]
    /\ active \subseteq Subs
    /\ due \subseteq Subs
    /\ billing \in Subs \cup {None}
    /\ accepted \in BOOLEAN
    /\ bills \in [Subs -> Nat] /\ deaths \in [Subs -> Nat]

\* The loop is free: no method is appending and no tick is under way.
LoopFree == Idle /\ due = {} /\ billing = None

-----------------------------------------------------------------------------

\* add
Add(s, d) ==
    /\ LoopFree
    /\ first[s] = None
    /\ first' = [first EXCEPT ![s] = d]
    /\ next' = [next EXCEPT ![s] = d]
    /\ active' = active \cup {s}
    /\ UNCHANGED <<vars, day, due, billing, accepted, bills, deaths>>

\* remove
Remove(s) ==
    /\ LoopFree
    /\ s \in active
    /\ active' = active \ {s}
    /\ UNCHANGED <<vars, day, first, next, due, billing, accepted, bills, deaths>>

\* due
Due(d) == {s \in active : next[s] <= d}

\* on_day_tick begins.
DayTick ==
    /\ LoopFree
    /\ day < MaxDay
    /\ day' = day + 1
    /\ due' = Due(day')
    /\ UNCHANGED <<vars, first, next, active, billing, accepted, bills, deaths>>

\* The charge of the subscription that has been due the longest.
Bill(s) ==
    /\ Idle /\ billing = None
    /\ s \in due /\ \A o \in due : next[s] <= next[o]
    /\ due' = due \ {s}
    /\ billing' = s
    /\ \/ /\ ChargeAccepted(Price)
          /\ accepted' = TRUE
          /\ bills' = [bills EXCEPT ![s] = @ + 1]
       \/ /\ ChargeRefused(Price)
          /\ accepted' = FALSE
          /\ UNCHANGED bills
    /\ UNCHANGED <<day, first, next, active, deaths>>

\* Mutant: the due day of a subscription that was paid does not move.
SettleStays ==
    /\ Idle /\ billing # None
    /\ IF accepted THEN UNCHANGED <<next, active>>
       ELSE active' = active \ {billing} /\ UNCHANGED next
    /\ billing' = None /\ accepted' = FALSE
    /\ UNCHANGED <<vars, day, first, due, bills, deaths>>

\* Paid: the next period begins.  Refused: the subscription is cancelled.
Settle ==
    /\ Idle /\ billing # None
    /\ IF accepted THEN next' = [next EXCEPT ![billing] = @ + Period] /\ UNCHANGED active
       ELSE active' = active \ {billing} /\ UNCHANGED next
    /\ billing' = None /\ accepted' = FALSE
    /\ UNCHANGED <<vars, day, first, due, bills, deaths>>

\* The process dies, or an append raises out of the tick.
Abort ==
    /\ ~ LoopFree
    /\ Crash \/ (Idle /\ UNCHANGED vars)
    /\ due' = {} /\ billing' = None /\ accepted' = FALSE
    /\ deaths' = IF billing # None /\ accepted
                 THEN [deaths EXCEPT ![billing] = @ + 1] ELSE deaths
    /\ UNCHANGED <<day, first, next, active, bills>>

\* The rest of the company spends too.
OtherSpending ==
    /\ due = {} /\ billing = None
    /\ \/ \E t \in Totals : SetTotal(t)
       \/ \E a \in Amounts : ChargeAccepted(a) \/ ChargeRefused(a)
       \/ \E a \in Amounts, ref \in Refs : Reserve(a, ref)
       \/ \E i \in 1 .. Len(reservations) :
             \/ Release(i)
             \/ \E a \in Amounts : CommitAccepted(i, a) \/ CommitRefused(i, a)
    /\ UNCHANGED subVars

SubInit ==
    /\ Init
    /\ day = 0
    /\ first = [s \in Subs |-> None]
    /\ next = [s \in Subs |-> 0]
    /\ active = {} /\ due = {}
    /\ billing = None /\ accepted = FALSE
    /\ bills = [s \in Subs |-> 0] /\ deaths = [s \in Subs |-> 0]

SubNext ==
    \/ \E s \in Subs : Remove(s) \/ Bill(s) \/ \E d \in 0 .. MaxDay : Add(s, d)
    \/ DayTick \/ Settle \/ Abort
    \/ OtherSpending
    \/ AppendEvent /\ UNCHANGED subVars

SubSpec == SubInit /\ [][SubNext]_allVars
-----------------------------------------------------------------------------
(* Properties. *)

\* A subscription is billed for the periods that have begun and for no other:
\* once each, however many subscriptions a tick charges and whatever is refused
\* or removed.  Only a crash between a charge and its update bills one twice.
BilledPerPeriod ==
    \A s \in Subs :
        bills[s] <= deaths[s]
            + Cardinality({p \in 0 .. MaxDay : first[s] # None /\ first[s] + p * Period <= day})
=============================================================================
