---------------------------- MODULE CallsProofs ----------------------------
(***************************************************************************)
(* Proofs about tool calls and connector calls, for any tasks, calls,      *)
(* estimates and totals: no reservation leaks, work is paid for once, and  *)
(* nothing runs or leaves the company without consent.                     *)
(*                                                                         *)
(* Both layers change reservations, expenses and tasks in five ways: they  *)
(* leave them alone, take a reservation, settle it, drop it with its call, *)
(* or die.  What a way keeps is proved once, for tools and connector.      *)
(***************************************************************************)
EXTENDS Tools, Connector, SequenceTheorems, FiniteSetTheorems, TLAPS

Reservation == [amount : Nat, ref : Cids, status : B!ReservationStatus]
Expense == [amount : Nat, memo : Cids \cup {None}]
Call == [pc : Steps, cid : Cids \cup {None}, res : Nat]

Holds(t) == task[t].pc \in Holding

\* The types of the tables and tasks.  Only the task that has the loop is
\* between two steps of its call.
Rows ==
    /\ reservations \in Seq(Reservation)
    /\ expenses \in Seq(Expense)
    /\ task \in [Tasks -> Call]
    /\ running \in Tasks \cup {None}
    /\ \A t \in Tasks : task[t].pc # "idle" => task[t].cid \in Cids
    /\ \A t \in Tasks : t # running => task[t].pc \in {"idle", "executing"}

\* The other half of the bookkeeping of calls.
CallTables ==
    /\ phase \in [Cids -> P!Phases]
    /\ cache \in [Cids -> Results]
    /\ completed \in [Cids -> Nat]

\* A call holds a reservation that was made for it.
OwnReservation ==
    \A t \in Tasks : Holds(t) =>
        /\ task[t].res \in 1 .. Len(reservations)
        /\ reservations[task[t].res].ref = task[t].cid

\* A call that is about to return a success has its expense.
PaidHasExpense ==
    \A t \in Tasks : task[t].pc = "paid" => ExpensesOf(task[t].cid) # {}

CallsInv ==
    Rows /\ CallTables /\ OpenIsHeld /\ OwnReservation /\ PaidHasExpense /\ PaidForWork

-----------------------------------------------------------------------------
(* The five ways. *)

\* Reservations stay with their calls; only a call that was paid returns a
\* success, and others may charge the company.
Still ==
    /\ UNCHANGED <<reservations, completed, abandoned>>
    /\ \/ UNCHANGED expenses
       \/ \E e \in Expense : e.memo = None /\ expenses' = Append(expenses, e)
    /\ \A c \in Cids : cache'[c] = "ok" =>
          cache[c] = "ok" \/ \E t \in Tasks : task[t].pc = "paid" /\ task[t].cid = c
    /\ \A t \in Tasks :
          /\ Holds(t)' <=> Holds(t)
          /\ Holds(t) => task'[t].res = task[t].res /\ task'[t].cid = task[t].cid
          /\ task'[t].pc = "paid" => task[t].pc = "paid" /\ task'[t].cid = task[t].cid

\* Task t takes a reservation for call c.
Takes(t, c) ==
    /\ ~ Holds(t)
    /\ \E a \in Nat :
          reservations' = Append(reservations, [amount |-> a, ref |-> c, status |-> "open"])
    /\ task' = [task EXCEPT ![t] = [pc |-> "reserved", cid |-> c, res |-> Len(reservations')]]
    /\ UNCHANGED <<expenses, cache, completed, abandoned>>

\* Task t closes the reservation of its call, which is charged if it commits.
Settles(t) ==
    /\ Holds(t)
    /\ task[t].res \in B!Open
    /\ \E s \in B!ReservationStatus \ {"open"} : B!Close(task[t].res, s)
    /\ \E p \in Steps \ Holding :
          /\ Goto(t, p)
          /\ \/ /\ \E a \in Nat : expenses' = Append(expenses,
                       [amount |-> a, memo |-> reservations[task[t].res].ref])
                /\ completed' = [completed EXCEPT ![task[t].cid] = @ + 1]
             \/ /\ p # "paid"
                /\ UNCHANGED expenses
                /\ \/ UNCHANGED completed
                   \/ completed' = [completed EXCEPT ![task[t].cid] = @ + 1]
    /\ UNCHANGED <<cache, abandoned>>

\* The call of task t is gone, and nobody closes its reservation.
Drops(t) ==
    /\ UNCHANGED <<reservations, expenses, cache, completed>>
    /\ task' = [task EXCEPT ![t] = NoCall]
    /\ abandoned' = IF Holds(t) THEN abandoned \cup {task[t].res} ELSE abandoned

\* All calls are gone.
Dies ==
    /\ UNCHANGED <<reservations, expenses, completed>>
    /\ task' = [t \in Tasks |-> NoCall]
    /\ cache' = [c \in Cids |-> "none"]
    /\ abandoned' = B!Open

Ways ==
    \/ Still
    \/ \E t \in Tasks, c \in Cids : Takes(t, c)
    \/ \E t \in Tasks : Settles(t) \/ Drops(t)
    \/ Dies

-----------------------------------------------------------------------------
(* What the ways do to the tables. *)

\* A reservation that is taken is open and new.
LEMMA Taken ==
  ASSUME Rows, NEW a \in Nat, NEW c \in Cids,
         reservations' = Append(reservations, [amount |-> a, ref |-> c, status |-> "open"])
  PROVE  /\ reservations' \in Seq(Reservation)
         /\ Len(reservations') = Len(reservations) + 1
         /\ reservations'[Len(reservations')] = [amount |-> a, ref |-> c, status |-> "open"]
         /\ \A i \in 1 .. Len(reservations) : reservations'[i] = reservations[i]
         /\ B!Open' = B!Open \cup {Len(reservations')}
<1> DEFINE r == [amount |-> a, ref |-> c, status |-> "open"]
<1>1. r \in Reservation
  BY DEF Reservation, B!ReservationStatus
<1>2. /\ reservations' = Append(reservations, r)
      /\ reservations \in Seq(Reservation)
  BY DEF Rows
<1> HIDE DEF r
<1>3. /\ reservations' \in Seq(Reservation)
      /\ Len(reservations') = Len(reservations) + 1
      /\ reservations'[Len(reservations')] = r
      /\ \A i \in 1 .. Len(reservations) : reservations'[i] = reservations[i]
      /\ Len(reservations) \in Nat
  BY <1>1, <1>2
<1>4. r.status = "open"
  BY DEF r
<1>5. B!Open' = B!Open \cup {Len(reservations')}
  BY <1>3, <1>4 DEF B!Open
<1> QED
  BY <1>3, <1>5 DEF r

\* A reservation that is closed leaves the open ones, and no other moves.
LEMMA Closed ==
  ASSUME Rows, NEW i \in B!Open, NEW s \in B!ReservationStatus \ {"open"}, B!Close(i, s)
  PROVE  /\ reservations' \in Seq(Reservation)
         /\ Len(reservations') = Len(reservations)
         /\ \A j \in 1 .. Len(reservations) : reservations'[j].ref = reservations[j].ref
         /\ B!Open' = B!Open \ {i}
<1>1. /\ i \in 1 .. Len(reservations)
      /\ reservations \in Seq(Reservation)
      /\ reservations' = [reservations EXCEPT ![i].status = s]
  BY DEF Rows, B!Open, B!Close
<1>2. reservations[i] \in Reservation
  BY <1>1
<1>3. [reservations[i] EXCEPT !.status = s] \in Reservation
  BY <1>2 DEF Reservation
<1>4. /\ reservations' \in Seq(Reservation)
      /\ Len(reservations') = Len(reservations)
  BY <1>1, <1>3
<1>5. \A j \in 1 .. Len(reservations) :
          reservations'[j] = IF j = i THEN [reservations[i] EXCEPT !.status = s]
                                      ELSE reservations[j]
  BY <1>1
<1>6. \A j \in 1 .. Len(reservations) : reservations[j] \in Reservation
  BY <1>1
<1>7. B!Open' = B!Open \ {i}
  BY <1>4, <1>5, <1>6 DEF B!Open, Reservation
<1>8. \A j \in 1 .. Len(reservations) : reservations'[j].ref = reservations[j].ref
  BY <1>5, <1>6 DEF Reservation
<1> QED
  BY <1>4, <1>7, <1>8

\* An expense belongs to the call in its memo and to no other.
LEMMA Charged ==
  ASSUME Rows, NEW e \in Expense, expenses' = Append(expenses, e), NEW c \in Cids
  PROVE  /\ expenses' \in Seq(Expense)
         /\ ExpensesOf(c)' = IF e.memo = c THEN ExpensesOf(c) \cup {Len(expenses')}
                                           ELSE ExpensesOf(c)
<1>1. /\ expenses \in Seq(Expense)
      /\ expenses' \in Seq(Expense)
      /\ Len(expenses) \in Nat
      /\ Len(expenses') = Len(expenses) + 1
      /\ expenses'[Len(expenses')] = e
      /\ \A i \in 1 .. Len(expenses) : expenses'[i] = expenses[i]
  BY DEF Rows
<1>2. CASE e.memo = c
  BY <1>1, <1>2 DEF ExpensesOf
<1>3. CASE e.memo # c
  BY <1>1, <1>3 DEF ExpensesOf
<1> QED
  BY <1>1, <1>2, <1>3

\* The expenses of a call can be counted, and one more is one more.
LEMMA Counted ==
  ASSUME Rows, NEW c \in Cids
  PROVE  /\ IsFiniteSet(ExpensesOf(c))
         /\ Cardinality(ExpensesOf(c)) \in Nat
         /\ \A i : Cardinality(ExpensesOf(c) \cup {i}) <= Cardinality(ExpensesOf(c)) + 1
<1>1. Len(expenses) \in Nat
  BY DEF Rows
<1>2. IsFiniteSet(1 .. Len(expenses))
  BY <1>1, FS_Interval
<1>3. IsFiniteSet(ExpensesOf(c))
  BY <1>2, FS_Subset DEF ExpensesOf
<1>4. Cardinality(ExpensesOf(c)) \in Nat
  BY <1>3, FS_CardinalityType
<1>5. ASSUME NEW i
      PROVE  Cardinality(ExpensesOf(c) \cup {i}) <= Cardinality(ExpensesOf(c)) + 1
  <2>1. CASE i \in ExpensesOf(c)
    <3>1. ExpensesOf(c) \cup {i} = ExpensesOf(c)
      BY <2>1
    <3>2. Cardinality(ExpensesOf(c) \cup {i}) = Cardinality(ExpensesOf(c))
      BY <3>1
    <3> QED BY <3>2, <1>4
  <2>2. CASE i \notin ExpensesOf(c)
    BY <2>2, <1>3, <1>4, FS_AddElement
  <2> QED BY <2>1, <2>2
<1> QED
  BY <1>3, <1>4, <1>5

-----------------------------------------------------------------------------
(* What the ways keep. *)

\* What is held and what is abandoned, call by call.
LEMMA HeldIs ==
  \A i : i \in Held <=> \E t \in Tasks : Holds(t) /\ task[t].res = i
BY DEF Held, Holds

LEMMA StillKeeps ==
  ASSUME CallsInv, Rows', Still
  PROVE  OpenIsHeld' /\ OwnReservation' /\ PaidHasExpense' /\ PaidForWork'
<1> USE DEF CallsInv
<1>1. OpenIsHeld'
  <2>1. B!Open' = B!Open
    BY DEF Still, B!Open
  <2>2. Held' = Held
    BY DEF Still, Held, Holds
  <2>3. ASSUME NEW t \in Tasks, NEW u \in Tasks,
               {task'[t].pc, task'[u].pc} \subseteq Holding, task'[t].res = task'[u].res
        PROVE  t = u
    BY <2>3 DEF Still, Holds, OpenIsHeld
  <2>4. abandoned' = abandoned
    BY DEF Still
  <2> QED
    BY <2>1, <2>2, <2>3, <2>4 DEF OpenIsHeld
<1>2. OwnReservation'
  BY DEF Still, OwnReservation, Holds
<1>3. \A c \in Cids : ExpensesOf(c)' = ExpensesOf(c)
  <2> SUFFICES ASSUME NEW c \in Cids PROVE ExpensesOf(c)' = ExpensesOf(c)
    OBVIOUS
  <2>1. CASE UNCHANGED expenses
    BY <2>1 DEF ExpensesOf
  <2>2. ASSUME NEW e \in Expense, e.memo = None, expenses' = Append(expenses, e)
        PROVE  ExpensesOf(c)' = ExpensesOf(c)
    <3>1. e.memo # c
      BY <2>2, CallConstants
    <3> QED
      BY <2>2, <3>1, Charged
  <2> QED
    BY <2>1, <2>2 DEF Still
<1>4. PaidHasExpense'
  <2> SUFFICES ASSUME NEW t \in Tasks, task'[t].pc = "paid"
               PROVE  ExpensesOf(task[t].cid)' # {} /\ task'[t].cid = task[t].cid
    BY DEF PaidHasExpense, ExpensesOf
  <2>1. task[t].pc = "paid" /\ task'[t].cid = task[t].cid
    BY DEF Still
  <2>2. task[t].cid \in Cids
    BY <2>1 DEF Rows
  <2> QED
    BY <2>1, <2>2, <1>3 DEF PaidHasExpense
<1>5. PaidForWork'
  <2> SUFFICES ASSUME NEW c \in Cids
               PROVE  /\ cache'[c] = "ok" => ExpensesOf(c)' # {}
                      /\ Cardinality(ExpensesOf(c)') <= completed'[c]
    BY DEF PaidForWork, ExpensesOf
  <2>1. cache'[c] = "ok" => ExpensesOf(c) # {}
    BY DEF Still, PaidForWork, PaidHasExpense
  <2>2. Cardinality(ExpensesOf(c)) <= completed'[c]
    BY DEF Still, PaidForWork
  <2> QED
    BY <2>1, <2>2, <1>3
<1> QED
  BY <1>1, <1>2, <1>4, <1>5

LEMMA TakesKeeps ==
  ASSUME CallsInv, Rows', NEW t \in Tasks, NEW c \in Cids, Takes(t, c)
  PROVE  OpenIsHeld' /\ OwnReservation' /\ PaidHasExpense' /\ PaidForWork'
<1> DEFINE new == Len(reservations')
<1> USE DEF CallsInv
<1>1. /\ new = Len(reservations) + 1
      /\ reservations'[new].ref = c
      /\ \A i \in 1 .. Len(reservations) : reservations'[i] = reservations[i]
      /\ B!Open' = B!Open \cup {new}
  BY Taken DEF Takes
<1>2. Len(reservations) \in Nat
  BY DEF Rows
<1>3. B!Open \subseteq 1 .. Len(reservations)
  BY DEF B!Open
<1>4. /\ ~ Holds(t) /\ Holds(t)'
      /\ task'[t].res = new /\ task'[t].cid = c /\ task'[t].pc = "reserved"
      /\ \A u \in Tasks \ {t} : task'[u] = task[u]
  BY DEF Takes, Holds, Holding, Rows
<1>5. new \notin B!Open /\ new \notin abandoned /\ new \notin Held
  BY <1>1, <1>2, <1>3 DEF OpenIsHeld
<1> HIDE DEF new
<1>6. Held' = Held \cup {new}
  BY <1>4, HeldIs DEF Held, Holds
<1>7. OpenIsHeld'
  <2>1. abandoned' = abandoned
    BY DEF Takes
  <2>2. ASSUME NEW u \in Tasks, NEW v \in Tasks,
               {task'[u].pc, task'[v].pc} \subseteq Holding, task'[u].res = task'[v].res
        PROVE  u = v
    <3>1. \A w \in Tasks \ {t} : Holds(w) => task[w].res # new
      BY <1>5 DEF Held, Holds
    <3> QED
      BY <2>2, <3>1, <1>4 DEF OpenIsHeld, Holds
  <2> QED
    BY <2>1, <2>2, <1>1, <1>5, <1>6 DEF OpenIsHeld
<1>8. OwnReservation'
  <2> SUFFICES ASSUME NEW u \in Tasks, Holds(u)'
               PROVE  /\ task'[u].res \in 1 .. Len(reservations')
                      /\ reservations'[task'[u].res].ref = task'[u].cid
    BY DEF OwnReservation, Holds
  <2>1. CASE u = t
    BY <2>1, <1>1, <1>2, <1>4 DEF new
  <2>2. CASE u # t
    <3>1. Holds(u) /\ task'[u] = task[u]
      BY <2>2, <1>4 DEF Holds
    <3> QED
      BY <3>1, <1>1, <1>2 DEF OwnReservation, new
  <2> QED
    BY <2>1, <2>2
<1>9. \A d \in Cids : ExpensesOf(d)' = ExpensesOf(d)
  BY DEF Takes, ExpensesOf
<1>10. PaidHasExpense'
  BY <1>4, <1>9 DEF PaidHasExpense, ExpensesOf, Takes
<1>11. PaidForWork'
  BY <1>9 DEF PaidForWork, Takes, ExpensesOf
<1> QED
  BY <1>7, <1>8, <1>10, <1>11

LEMMA SettlesKeeps ==
  ASSUME CallsInv, Rows', NEW t \in Tasks, Settles(t)
  PROVE  OpenIsHeld' /\ OwnReservation' /\ PaidHasExpense' /\ PaidForWork'
<1> DEFINE i == task[t].res
           c == task[t].cid
<1> USE DEF CallsInv
<1>1. /\ Len(reservations') = Len(reservations)
      /\ \A j \in 1 .. Len(reservations) : reservations'[j].ref = reservations[j].ref
      /\ B!Open' = B!Open \ {i}
  BY Closed DEF Settles
<1>2. /\ Holds(t) /\ ~ Holds(t)'
      /\ \A u \in Tasks \ {t} : task'[u] = task[u]
      /\ task'[t].cid = c
  BY DEF Settles, Goto, Rows, Call, Holds
<1>3. Held' = Held \ {i}
  <2>1. \A u \in Tasks \ {t} : Holds(u) => task[u].res # i
    BY <1>2 DEF OpenIsHeld, Holds
  <2> QED
    BY <2>1, <1>2 DEF Held, Holds
<1>4. OpenIsHeld'
  <2>1. abandoned' = abandoned
    BY DEF Settles
  <2>2. ASSUME NEW u \in Tasks, NEW v \in Tasks,
               {task'[u].pc, task'[v].pc} \subseteq Holding, task'[u].res = task'[v].res
        PROVE  u = v
    BY <2>2, <1>2 DEF OpenIsHeld, Holds
  <2>3. i \in Held
    BY <1>2 DEF Held, Holds
  <2> QED
    BY <2>1, <2>2, <2>3, <1>1, <1>3 DEF OpenIsHeld
<1>5. OwnReservation'
  <2> SUFFICES ASSUME NEW u \in Tasks, Holds(u)'
               PROVE  /\ task'[u].res \in 1 .. Len(reservations')
                      /\ reservations'[task'[u].res].ref = task'[u].cid
    BY DEF OwnReservation, Holds
  <2>1. Holds(u) /\ task'[u] = task[u]
    BY <1>2 DEF Holds
  <2> QED
    BY <2>1, <1>1 DEF OwnReservation
<1>6. c \in Cids /\ reservations[i].ref = c
  BY <1>2 DEF OwnReservation, Rows, Holds, Holding
<1> HIDE DEF i, c
<1>7. CASE /\ \E a \in Nat : expenses' = Append(expenses, [amount |-> a, memo |-> c])
           /\ completed' = [completed EXCEPT ![c] = @ + 1]
  <2>1. PICK a \in Nat : expenses' = Append(expenses, [amount |-> a, memo |-> c])
    BY <1>7
  <2>2. [amount |-> a, memo |-> c] \in Expense
    BY <1>6 DEF Expense
  <2>3. \A d \in Cids : ExpensesOf(d)' = IF d = c THEN ExpensesOf(d) \cup {Len(expenses')}
                                                ELSE ExpensesOf(d)
    BY <2>1, <2>2, Charged
  <2>4. PaidHasExpense'
    <3> SUFFICES ASSUME NEW u \in Tasks, task'[u].pc = "paid"
                 PROVE  \E d \in Cids : task'[u].cid = d /\ ExpensesOf(d)' # {}
      BY DEF PaidHasExpense, ExpensesOf
    <3>1. CASE u = t
      BY <3>1, <2>3, <1>2, <1>6 DEF c
    <3>2. CASE u # t
      <4>1. task[u].cid \in Cids /\ ExpensesOf(task[u].cid) # {} /\ task'[u] = task[u]
        BY <3>2, <1>2 DEF PaidHasExpense, Rows
      <4> QED
        BY <4>1, <2>3
    <3> QED
      BY <3>1, <3>2
  <2>5. PaidForWork'
    <3> SUFFICES ASSUME NEW d \in Cids
                 PROVE  /\ cache'[d] = "ok" => ExpensesOf(d)' # {}
                        /\ Cardinality(ExpensesOf(d)') <= completed'[d]
      BY DEF PaidForWork, ExpensesOf
    <3>1. cache'[d] = "ok" => ExpensesOf(d)' # {}
      BY <2>3 DEF PaidForWork, Settles
    <3>2. /\ completed[d] \in Nat
          /\ completed'[d] = IF d = c THEN completed[d] + 1 ELSE completed[d]
          /\ Cardinality(ExpensesOf(d)) <= completed[d]
      BY <1>7 DEF CallTables, PaidForWork
    <3>3. /\ Cardinality(ExpensesOf(d)) \in Nat
          /\ Cardinality(ExpensesOf(d) \cup {Len(expenses')}) <= Cardinality(ExpensesOf(d)) + 1
          /\ IsFiniteSet(ExpensesOf(d) \cup {Len(expenses')})
      BY Counted, FS_AddElement
    <3>4. Cardinality(ExpensesOf(d) \cup {Len(expenses')}) \in Nat
      BY <3>3, FS_CardinalityType
    <3>5. CASE d = c
      <4>1. ExpensesOf(d)' = ExpensesOf(d) \cup {Len(expenses')}
        BY <3>5, <2>3
      <4>2. Cardinality(ExpensesOf(d)') <= Cardinality(ExpensesOf(d)) + 1
        BY <4>1, <3>3
      <4>3. Cardinality(ExpensesOf(d)') \in Nat
        BY <4>1, <3>4
      <4> QED
        BY <4>2, <4>3, <3>1, <3>2, <3>3, <3>5
    <3>6. CASE d # c
      <4>1. ExpensesOf(d)' = ExpensesOf(d)
        BY <3>6, <2>3
      <4> QED
        BY <4>1, <3>1, <3>2, <3>6
    <3> QED
      BY <3>5, <3>6
  <2> QED
    BY <2>4, <2>5, <1>4, <1>5
<1>8. CASE /\ task'[t].pc # "paid"
           /\ UNCHANGED expenses
           /\ \/ UNCHANGED completed
              \/ completed' = [completed EXCEPT ![c] = @ + 1]
  <2>1. \A d \in Cids : ExpensesOf(d)' = ExpensesOf(d)
    BY <1>8 DEF ExpensesOf
  <2>2. PaidHasExpense'
    <3> SUFFICES ASSUME NEW u \in Tasks, task'[u].pc = "paid"
                 PROVE  \E d \in Cids : task'[u].cid = d /\ ExpensesOf(d)' # {}
      BY DEF PaidHasExpense, ExpensesOf
    <3>1. task'[u] = task[u]
      BY <1>2, <1>8
    <3>2. task[u].cid \in Cids /\ ExpensesOf(task[u].cid) # {}
      BY <3>1 DEF PaidHasExpense, Rows
    <3> QED
      BY <3>1, <3>2, <2>1
  <2>3. PaidForWork'
    <3> SUFFICES ASSUME NEW d \in Cids
                 PROVE  /\ cache'[d] = "ok" => ExpensesOf(d)' # {}
                        /\ Cardinality(ExpensesOf(d)') <= completed'[d]
      BY DEF PaidForWork, ExpensesOf
    <3>1. ExpensesOf(d)' = ExpensesOf(d) /\ cache' = cache
      BY <2>1 DEF Settles
    <3>2. completed[d] \in Nat /\ completed'[d] \in {completed[d], completed[d] + 1}
      BY <1>8 DEF CallTables
    <3>3. Cardinality(ExpensesOf(d)) <= completed[d] /\ Cardinality(ExpensesOf(d)) \in Nat
      BY Counted DEF PaidForWork
    <3> QED
      BY <3>1, <3>2, <3>3 DEF PaidForWork
  <2> QED
    BY <2>2, <2>3, <1>4, <1>5
<1> QED
  <2>1. PICK p \in Steps \ Holding :
          /\ Goto(t, p)
          /\ \/ /\ \E a \in Nat : expenses' = Append(expenses,
                       [amount |-> a, memo |-> reservations[i].ref])
                /\ completed' = [completed EXCEPT ![c] = @ + 1]
             \/ /\ p # "paid"
                /\ UNCHANGED expenses
                /\ \/ UNCHANGED completed
                   \/ completed' = [completed EXCEPT ![c] = @ + 1]
    BY DEF Settles, i, c
  <2>2. task'[t].pc = p
    BY <2>1 DEF Goto, Rows, Call
  <2> QED
    BY <2>1, <2>2, <1>6, <1>7, <1>8

LEMMA DropsKeeps ==
  ASSUME CallsInv, Rows', NEW t \in Tasks, Drops(t)
  PROVE  OpenIsHeld' /\ OwnReservation' /\ PaidHasExpense' /\ PaidForWork'
<1> DEFINE i == task[t].res
<1> USE DEF CallsInv
<1>1. /\ ~ Holds(t)' /\ task'[t].pc = "idle"
      /\ \A u \in Tasks \ {t} : task'[u] = task[u]
  BY DEF Drops, NoCall, Rows, Holds, Holding
<1>2. OpenIsHeld'
  <2>1. B!Open' = B!Open
    BY DEF Drops, B!Open
  <2>2. ASSUME NEW u \in Tasks, NEW v \in Tasks,
               {task'[u].pc, task'[v].pc} \subseteq Holding, task'[u].res = task'[v].res
        PROVE  u = v
    BY <2>2, <1>1 DEF OpenIsHeld, Holds
  <2>3. CASE Holds(t)
    <3>1. \A u \in Tasks \ {t} : Holds(u) => task[u].res # i
      BY <2>3 DEF OpenIsHeld, Holds
    <3>2. Held' = Held \ {i} /\ i \in Held
      BY <3>1, <2>3, <1>1 DEF Held, Holds
    <3>3. abandoned' = abandoned \cup {i}
      BY <2>3 DEF Drops
    <3> QED
      BY <2>1, <2>2, <3>2, <3>3 DEF OpenIsHeld
  <2>4. CASE ~ Holds(t)
    <3>1. Held' = Held
      BY <2>4, <1>1 DEF Held, Holds
    <3>2. abandoned' = abandoned
      BY <2>4 DEF Drops
    <3> QED
      BY <2>1, <2>2, <3>1, <3>2 DEF OpenIsHeld
  <2> QED
    BY <2>3, <2>4
<1>3. OwnReservation'
  BY <1>1 DEF OwnReservation, Drops, Holds
<1>4. PaidHasExpense' /\ PaidForWork'
  BY <1>1 DEF PaidHasExpense, PaidForWork, Drops, ExpensesOf
<1> QED
  BY <1>2, <1>3, <1>4

LEMMA DiesKeeps ==
  ASSUME CallsInv, Rows', Dies
  PROVE  OpenIsHeld' /\ OwnReservation' /\ PaidHasExpense' /\ PaidForWork'
<1>1. \A t \in Tasks : task'[t].pc = "idle"
  BY DEF Dies, NoCall
<1>2. Held' = {}
  BY <1>1 DEF Held, Holding
<1>3. B!Open' = B!Open /\ abandoned' = B!Open
  BY DEF Dies, B!Open
<1>4. OpenIsHeld'
  BY <1>1, <1>2, <1>3 DEF OpenIsHeld, Holding
<1>5. OwnReservation' /\ PaidHasExpense'
  BY <1>1 DEF OwnReservation, PaidHasExpense, Holds, Holding
<1>6. PaidForWork'
  BY DEF CallsInv, PaidForWork, Dies, ExpensesOf
<1> QED
  BY <1>4, <1>5, <1>6

\* Whichever way a step goes, the books of the calls stay right.
LEMMA WaysKeep ==
  CallsInv /\ Ways /\ Rows' /\ CallTables' => CallsInv'
BY StillKeeps, TakesKeeps, SettlesKeeps, DropsKeeps, DiesKeeps DEF Ways, CallsInv

LEMMA CallsInit == Init => CallsInv
<1> SUFFICES ASSUME Init PROVE CallsInv
  OBVIOUS
<1>1. /\ expenses = <<>> /\ reservations = <<>> /\ abandoned = {}
      /\ \A t \in Tasks : task[t] = NoCall
      /\ cache = [c \in Cids |-> "none"] /\ completed = [c \in Cids |-> 0]
  BY DEF Init, B!Init
<1>2. Rows
  BY DEF Init, B!Init, Rows, NoCall, Call, Steps
<1>3. CallTables
  BY DEF Init, P!Init, CallTables, Results, P!Phases
<1>4. OpenIsHeld
  BY <1>1 DEF OpenIsHeld, B!Open, Held, NoCall, Holding
<1>5. OwnReservation /\ PaidHasExpense
  BY <1>1 DEF OwnReservation, PaidHasExpense, Holds, NoCall, Holding
<1>6. PaidForWork
  <2>1. \A c \in Cids : ExpensesOf(c) = {}
    BY <1>1 DEF ExpensesOf
  <2>2. \A c \in Cids : Cardinality(ExpensesOf(c)) = 0
    BY <2>1, FS_EmptySet
  <2> QED
    BY <2>2, <1>1 DEF PaidForWork
<1> QED
  BY <1>2, <1>3, <1>4, <1>5, <1>6 DEF CallsInv

-----------------------------------------------------------------------------
(* The steps of both layers. *)

\* The queue never takes an approval back.
ConsentStays == \A c \in Cids : phase[c] = "approved" => phase'[c] = "approved"

Tables == Rows /\ CallTables

\* A step that is one of the ways and keeps types and approvals.
Proper == Ways /\ Tables' /\ ConsentStays

\* A request is asked for: it exists then, and an approved one stays approved.
LEMMA Asked ==
  ASSUME CallTables, NEW c \in Cids, AskApproval(c)
  PROVE  phase' \in [Cids -> P!Phases] /\ ConsentStays
BY DEF CallTables, AskApproval, P!Open, P!Move, P!Phases, ConsentStays

LEMMA FailIsProper ==
  ASSUME Tables, NEW t \in Tasks, NEW c \in Cids, Fail(t, c)
  PROVE  Proper
<1>1. Still
  BY DEF Fail, Still, Holds, budgetVars, Tables, CallTables
<1>2. Rows'
  BY DEF Fail, Tables, Rows, budgetVars
<1>3. CallTables'
  BY DEF Fail, Tables, CallTables, Results
<1>4. ConsentStays
  BY DEF Fail, ConsentStays
<1> QED
  BY <1>1, <1>2, <1>3, <1>4 DEF Proper, Ways, Tables

LEMMA ExecuteOkIsProper ==
  ASSUME Tables, NEW t \in Tasks, ExecuteOk(t)
  PROVE  Proper
<1> DEFINE i == task[t].res
           c == task[t].cid
           amount == Estimate[c]
<1>1. task[t].pc = "executing" /\ c \in Cids /\ amount \in Nat
  BY CallConstants DEF ExecuteOk, Tables, Rows
<1>2. i \in B!Open /\ (\E s \in B!ReservationStatus \ {"open"} : B!Close(i, s))
  BY DEF ExecuteOk, B!CommitAccepted, B!CommitRefused, B!ReservationStatus
<1>3. completed' = [completed EXCEPT ![c] = @ + 1]
  BY DEF ExecuteOk
<1>4. \/ /\ Goto(t, "paid")
         /\ expenses' = Append(expenses, [amount |-> amount, memo |-> reservations[i].ref])
      \/ /\ Goto(t, "unpaid")
         /\ UNCHANGED expenses
  BY DEF ExecuteOk, B!CommitAccepted, B!CommitRefused
<1> HIDE DEF i, c, amount
<1>5. Settles(t)
  BY <1>1, <1>2, <1>3, <1>4 DEF Settles, ExecuteOk, Holds, Holding, Steps, i, c
<1>6. Tables'
  <2>1. reservations' \in Seq(Reservation)
    BY <1>2, Closed DEF Tables
  <2>2. expenses' \in Seq(Expense)
    <3>1. reservations[i] \in Reservation
      BY <1>2 DEF Tables, Rows, B!Open
    <3>2. [amount |-> amount, memo |-> reservations[i].ref] \in Expense
      BY <3>1, <1>1 DEF Reservation, Expense
    <3> QED
      BY <3>2, <1>4, AppendProperties DEF Tables, Rows
  <2>3. /\ task' \in [Tasks -> Call]
        /\ running' = t
        /\ \A u \in Tasks : task'[u].pc # "idle" => task'[u].cid \in Cids
        /\ \A u \in Tasks : u # t => task'[u].pc \in {"idle", "executing"}
    <3>1. PICK p \in Steps \ {"idle"} : task' = [task EXCEPT ![t].pc = p]
      BY <1>4 DEF Goto, Steps
    <3>2. running = None /\ running' = t
      BY DEF ExecuteOk, LoopFree
    <3> QED
      BY <1>1, <3>1, <3>2, CallConstants DEF Tables, Rows, Call, c
  <2>4. CallTables'
    BY <1>1, <1>3 DEF Tables, CallTables, ExecuteOk
  <2> QED
    BY <2>1, <2>2, <2>3, <2>4 DEF Tables, Rows
<1>7. ConsentStays
  BY DEF ExecuteOk, ConsentStays
<1> QED
  BY <1>5, <1>6, <1>7 DEF Proper, Ways

\* A release that ends a call, whatever it is to return then.
LEMMA ReleaseIsProper ==
  ASSUME Tables, NEW t \in Tasks, Holds(t), B!Release(task[t].res),
         NEW p \in Steps \ (Holding \cup {"paid"}), Goto(t, p), running' = t,
         running \in {None, t},
         UNCHANGED <<phase, cache, completed, abandoned>>
  PROVE  Proper
<1> DEFINE i == task[t].res
<1>1. i \in B!Open /\ B!Close(i, "released") /\ UNCHANGED expenses
  BY DEF B!Release
<1>2. "released" \in B!ReservationStatus \ {"open"}
  BY DEF B!ReservationStatus
<1>3. Settles(t)
  BY <1>1, <1>2 DEF Settles
<1>4. Tables'
  <2>1. reservations' \in Seq(Reservation)
    BY <1>1, <1>2, Closed DEF Tables
  <2>2. /\ task' \in [Tasks -> Call]
        /\ \A u \in Tasks : task'[u].pc # "idle" => task'[u].cid \in Cids
        /\ \A u \in Tasks : u # t => task'[u].pc \in {"idle", "executing"}
    BY CallConstants DEF Tables, Rows, Goto, Call, Holds, Holding
  <2> QED
    BY <2>1, <2>2, <1>1 DEF Tables, Rows, CallTables
<1> QED
  BY <1>3, <1>4 DEF Proper, Ways, ConsentStays

LEMMA ExecuteFailIsProper ==
  ASSUME Tables, NEW t \in Tasks, ExecuteFail(t)
  PROVE  Proper
<1>1. /\ task[t].pc = "executing" /\ running = None /\ running' = t
      /\ B!Release(task[t].res) /\ Goto(t, "unpaid")
      /\ UNCHANGED <<phase, cache, completed, abandoned>>
  BY DEF ExecuteFail, LoopFree
<1>2. Holds(t) /\ "unpaid" \in Steps \ (Holding \cup {"paid"})
  BY <1>1 DEF Holds, Holding, Steps
<1> QED
  BY <1>1, <1>2, ReleaseIsProper

LEMMA ReturnIsProper ==
  ASSUME Tables, NEW t \in Tasks, Return(t)
  PROVE  Proper
<1>1. /\ task[t].pc \in {"paid", "unpaid", "withdrawn"} /\ task[t].cid \in Cids
      /\ task' = [task EXCEPT ![t] = NoCall]
      /\ running = t /\ running' = None
      /\ UNCHANGED <<budgetVars, phase, completed, abandoned>>
  BY DEF Return, Tables, Rows
<1>2. /\ cache' \in [Cids -> Results]
      /\ \A c \in Cids : cache'[c] = "ok" =>
            cache[c] = "ok" \/ (task[t].pc = "paid" /\ task[t].cid = c)
  BY <1>1 DEF Return, Tables, CallTables, Results
<1>3. Still
  BY <1>1, <1>2 DEF Still, Holds, Holding, NoCall, budgetVars, Tables, Rows
<1>4. Tables'
  BY <1>1, <1>2 DEF Tables, Rows, CallTables, NoCall, Call, Steps, budgetVars
<1> QED
  BY <1>1, <1>3, <1>4 DEF Proper, Ways, ConsentStays

LEMMA CancelIsProper ==
  ASSUME Tables, NEW t \in Tasks, CancelTask(t)
  PROVE  Proper
<1>1. Drops(t)
  BY DEF CancelTask, Drops, budgetVars, Holds, Holding
<1>2. Tables'
  BY DEF CancelTask, Tables, Rows, CallTables, NoCall, Call, Steps, budgetVars
<1> QED
  BY <1>1, <1>2 DEF Proper, Ways, ConsentStays, CancelTask

\* Losing events leaves the books alone.
LEMMA Lost ==
  ASSUME IF B!Idle THEN UNCHANGED budgetVars ELSE B!Crash
  PROVE  UNCHANGED <<reservations, expenses>>
BY DEF budgetVars, B!Crash, B!ledger

LEMMA RaiseIsProper ==
  ASSUME Tables, NEW t \in Tasks, Raise(t)
  PROVE  Proper
<1>1. UNCHANGED <<reservations, expenses, phase, cache, completed>>
  BY Lost DEF Raise
<1>2. Drops(t)
  BY <1>1 DEF Raise, Drops, Holds
<1>3. Tables'
  BY <1>1 DEF Raise, Tables, Rows, CallTables, NoCall, Call, Steps
<1> QED
  BY <1>1, <1>2, <1>3 DEF Proper, Ways, ConsentStays

LEMMA RestartIsProper == ASSUME Tables, Restart PROVE Proper
<1>1. UNCHANGED <<reservations, expenses, phase, completed>>
  BY Lost DEF Restart
<1>2. Dies
  BY <1>1 DEF Restart, Dies
<1>3. Tables'
  BY <1>1 DEF Restart, Tables, Rows, CallTables, NoCall, Call, Steps, Results
<1> QED
  BY <1>1, <1>2, <1>3 DEF Proper, Ways, ConsentStays

\* The rest of the company charges what no call has reserved.
LEMMA OthersAreProper ==
  ASSUME Tables, AppendEvent \/ OtherSpending \/ QueueDecides
  PROVE  Proper
<1>1. UNCHANGED <<reservations, callVars>>
  BY DEF AppendEvent, OtherSpending, QueueDecides, UpdateBudget, B!AppendEvent, B!SetTotal,
         B!ChargeAccepted, B!ChargeRefused, B!ledger, budgetVars
<1>2. UNCHANGED expenses \/
        \E e \in Expense : e.memo = None /\ expenses' = Append(expenses, e)
  <2>1. ASSUME NEW a \in Amounts, B!ChargeAccepted(a)
        PROVE  \E e \in Expense : e.memo = None /\ expenses' = Append(expenses, e)
    <3>1. a \in Nat
      BY CallConstants
    <3>2. [amount |-> a, memo |-> None] \in Expense
      BY <3>1 DEF Expense
    <3> QED
      BY <2>1, <3>2 DEF B!ChargeAccepted
  <2>2. CASE \E t \in Totals : UpdateBudget(t)
    BY <2>2 DEF UpdateBudget, B!SetTotal
  <2>3. CASE \E a \in Amounts : B!ChargeRefused(a)
    BY <2>3 DEF B!ChargeRefused
  <2>4. CASE AppendEvent \/ QueueDecides
    BY <2>4 DEF AppendEvent, QueueDecides, B!AppendEvent, B!ledger, budgetVars
  <2> QED
    BY <2>1, <2>2, <2>3, <2>4 DEF OtherSpending
<1>3. phase' \in [Cids -> P!Phases] /\ ConsentStays
  <2>1. CASE QueueDecides
    BY <2>1 DEF QueueDecides, P!Clear, P!Approve, P!Refuse, P!Move, P!Live, P!Phases,
                Tables, CallTables, ConsentStays
  <2>2. CASE AppendEvent \/ OtherSpending
    BY <2>2 DEF AppendEvent, OtherSpending, Tables, CallTables, ConsentStays
  <2> QED
    BY <2>1, <2>2
<1>4. Still
  BY <1>1, <1>2 DEF Still, callVars, Holds
<1>5. expenses' \in Seq(Expense)
  BY <1>2, AppendProperties DEF Tables, Rows
<1>6. Tables'
  BY <1>1, <1>3, <1>5 DEF Tables, Rows, CallTables, callVars
<1> QED
  BY <1>3, <1>4, <1>6 DEF Proper, Ways

LEMMA CommonIsProper ==
  ASSUME Tables, CommonNext
  PROVE  Proper
BY ExecuteOkIsProper, ExecuteFailIsProper, ReturnIsProper, CancelIsProper, RaiseIsProper,
   RestartIsProper, OthersAreProper DEF CommonNext

-----------------------------------------------------------------------------
(* Tools. *)

LEMMA ToolReserveIsProper ==
  ASSUME Tables, NEW t \in Tasks, NEW c \in Cids, Reserve(t, c)
  PROVE  Proper
<1>1. /\ task[t].pc = "idle" /\ running = None /\ running' = t
      /\ Estimate[c] \in Nat
      /\ reservations' = Append(reservations,
             [amount |-> Estimate[c], ref |-> c, status |-> "open"])
      /\ task' = [task EXCEPT ![t] = [pc |-> "reserved", cid |-> c, res |-> Len(reservations')]]
      /\ UNCHANGED <<expenses, phase, cache, completed, abandoned>>
  BY CallConstants DEF Reserve, MayStart, LoopFree, B!Reserve
<1>2. Takes(t, c)
  BY <1>1 DEF Takes, Holds, Holding
<1>3. reservations' \in Seq(Reservation) /\ Len(reservations') \in Nat
  BY <1>1, Taken DEF Tables
<1>4. Tables'
  BY <1>1, <1>3, CallConstants DEF Tables, Rows, CallTables, Call, Steps
<1> QED
  BY <1>1, <1>2, <1>4 DEF Proper, Ways, ConsentStays

LEMMA HandleApprovalIsProper ==
  ASSUME Tables, NEW t \in Tasks, HandleApproval(t)
  PROVE  Proper
<1> DEFINE c == task[t].cid
<1>1. /\ task[t].pc = "reserved" /\ running = t /\ c \in Cids
      /\ UNCHANGED <<budgetVars, cache, completed, abandoned>>
      /\ AskApproval(c) \/ UNCHANGED phase
  BY DEF HandleApproval, At, Tables, Rows
<1>2. PICK p \in {"executing", "pending", "denied"} :
         Goto(t, p) /\ running' = IF p = "executing" THEN None ELSE t
  BY DEF HandleApproval, At, Verdict
<1> HIDE DEF c
<1>3. phase' \in [Cids -> P!Phases] /\ ConsentStays
  BY <1>1, Asked DEF Tables, CallTables, ConsentStays
<1>4. Still
  BY <1>1, <1>2 DEF Still, Goto, Holds, Holding, budgetVars, Tables, Rows, Call
<1>5. Tables'
  BY <1>1, <1>2, <1>3 DEF Tables, Rows, CallTables, Goto, Call, Steps, budgetVars, c
<1> QED
  BY <1>3, <1>4, <1>5 DEF Proper, Ways

LEMMA WithdrawIsProper ==
  ASSUME Tables, NEW t \in Tasks, Withdraw(t)
  PROVE  Proper
<1>1. /\ B!Release(task[t].res) /\ running = t /\ running' = t
      /\ task[t].pc \in {"pending", "denied"}
      /\ UNCHANGED <<phase, cache, completed, abandoned>>
  BY DEF Withdraw, At
<1>2. PICK p \in {"withdrawn", "unpaid"} : Goto(t, p)
  BY DEF Withdraw
<1>3. Holds(t) /\ p \in Steps \ (Holding \cup {"paid"})
  BY <1>1 DEF Holds, Holding, Steps
<1> QED
  BY <1>1, <1>2, <1>3, ReleaseIsProper

LEMMA ToolSteps == Tables /\ Next => Proper
BY FailIsProper, ToolReserveIsProper, HandleApprovalIsProper, WithdrawIsProper, CommonIsProper
   DEF Next, Deny, OverBudget

\* A step in which nothing happens.
LEMMA NothingHappens ==
  ASSUME Tables, UNCHANGED vars
  PROVE  Proper
<1>1. UNCHANGED <<reservations, expenses, phase, callVars>>
  BY DEF vars, budgetVars
<1>2. Still
  BY <1>1 DEF Still, callVars, Holds
<1>3. Tables'
  BY <1>1 DEF Tables, Rows, CallTables, callVars
<1> QED
  BY <1>1, <1>2, <1>3 DEF Proper, Ways, ConsentStays

LEMMA ToolsInvariance == Spec => []CallsInv
<1>1. Init => CallsInv
  BY CallsInit
<1>2. CallsInv /\ [Next]_vars => CallsInv'
  BY ToolSteps, NothingHappens, WaysKeep DEF CallsInv, Tables, Proper
<1> QED
  BY <1>1, <1>2, PTL DEF Spec

\* The books of tool calls: every open reservation has exactly one call that will
\* close it, or was abandoned; a success was paid for, and no execution twice.
THEOREM ToolBooks == Spec => [](OpenIsHeld /\ PaidForWork)
<1>1. CallsInv => OpenIsHeld /\ PaidForWork
  BY DEF CallsInv
<1> QED
  BY <1>1, ToolsInvariance, PTL

\* A tool that needs an approval runs only with one: the approval cannot be taken
\* back, and only _handle_approval starts an executor.
THEOREM ToolsRunApproved == Spec => []RunsApproved
<1> DEFINE Inv == CallsInv /\ RunsApproved
<1>1. Init => Inv
  BY CallsInit DEF Init, RunsApproved, NoCall
<1>2. Inv /\ [Next]_vars => Inv'
  <2> SUFFICES ASSUME CallsInv, RunsApproved, [Next]_vars PROVE CallsInv' /\ RunsApproved'
    OBVIOUS
  <2>1. Tables /\ ConsentStays /\ CallsInv'
    BY ToolSteps, NothingHappens, WaysKeep DEF CallsInv, Tables, Proper
  <2> SUFFICES ASSUME NEW t \in Tasks, task'[t].pc = "executing", task'[t].cid \in Gated
               PROVE  phase'[task'[t].cid] = "approved"
    BY <2>1 DEF RunsApproved
  <2>2. CASE task[t].pc = "executing" /\ task[t].cid = task'[t].cid
    BY <2>1, <2>2, GatedAssumption DEF RunsApproved, ConsentStays
  <2>3. CASE ~ (task[t].pc = "executing" /\ task[t].cid = task'[t].cid)
    <3>1. HandleApproval(t)
      <4>1. ASSUME NEW u \in Tasks, HandleApproval(u) PROVE u = t
        BY <2>1, <2>3, <4>1 DEF HandleApproval, Goto, Tables, Rows, Call
      <4>2. ASSUME NEW u \in Tasks, NEW c \in Cids,
                   Deny(u, c) \/ OverBudget(u, c) \/ Reserve(u, c)
            PROVE  FALSE
        BY <2>1, <2>3, <4>2 DEF Deny, OverBudget, Fail, Reserve, Tables, Rows, Call
      <4>3. ASSUME NEW u \in Tasks, Withdraw(u) \/ ExecuteOk(u) \/ ExecuteFail(u) PROVE FALSE
        BY <2>1, <2>3, <4>3 DEF Withdraw, ExecuteOk, ExecuteFail, Goto, Tables, Rows, Call
      <4>4. ASSUME NEW u \in Tasks, Return(u) \/ CancelTask(u) \/ Raise(u) PROVE FALSE
        <5>1. task' = [task EXCEPT ![u] = NoCall]
          BY <4>4 DEF Return, CancelTask, Raise
        <5> QED
          BY <5>1, <2>1, <2>3 DEF NoCall, Tables, Rows, Call
      <4>5. CASE Restart
        BY <2>3, <4>5 DEF Restart, NoCall
      <4>6. CASE AppendEvent \/ OtherSpending \/ QueueDecides \/ UNCHANGED vars
        BY <2>3, <4>6 DEF AppendEvent, OtherSpending, QueueDecides, callVars, vars
      <4> QED
        BY <4>1, <4>2, <4>3, <4>4, <4>5, <4>6 DEF Next, CommonNext
    <3>2. /\ task'[t].cid = task[t].cid
          /\ Verdict(task[t].cid) = "approved"
          /\ AskApproval(task[t].cid)
      <4> DEFINE verdict == IF task[t].cid \in Gated THEN Verdict(task[t].cid) ELSE "approved"
      <4>1. \/ verdict = "approved"
            \/ verdict # "approved" /\ Goto(t, verdict)
        BY <3>1 DEF HandleApproval
      <4>2. \E p : Goto(t, p)
        BY <3>1 DEF HandleApproval
      <4>3. verdict \in {"approved", "pending", "denied"}
        BY DEF Verdict
      <4> HIDE DEF verdict
      <4>4. verdict = "approved"
        BY <2>1, <4>1, <4>3 DEF Goto, Tables, Rows, Call
      <4>5. task'[t].cid = task[t].cid
        BY <2>1, <4>2 DEF Goto, Tables, Rows, Call
      <4> QED
        BY <3>1, <4>4, <4>5 DEF HandleApproval, verdict
    <3>3. phase[task[t].cid] = "approved"
      BY <3>2 DEF Verdict
    <3> QED
      BY <3>2, <3>3 DEF AskApproval
  <2> QED
    BY <2>2, <2>3
<1>3. Inv => RunsApproved
  OBVIOUS
<1> QED
  BY <1>1, <1>2, <1>3, PTL DEF Spec

-----------------------------------------------------------------------------
(* Connector calls. *)

LEMMA ClearIsProper ==
  ASSUME Tables, NEW t \in Tasks, NEW c \in Cids, Clear(t, c)
  PROVE  Proper
<1>1. /\ task[t].pc = "idle" /\ running = None /\ running' = t
      /\ task' = [task EXCEPT ![t] = [pc |-> "cleared", cid |-> c, res |-> 0]]
      /\ UNCHANGED <<reservations, expenses, phase, cache, completed, abandoned>>
  BY DEF Clear, MayStart, LoopFree, budgetVars
<1>2. Still
  BY <1>1 DEF Still, Holds, Holding, Tables, Rows
<1>3. Tables'
  BY <1>1, CallConstants DEF Tables, Rows, CallTables, Call, Steps
<1> QED
  BY <1>1, <1>2, <1>3 DEF Proper, Ways, ConsentStays

LEMMA PendIsProper ==
  ASSUME Tables, NEW t \in Tasks, NEW c \in Cids, Pend(t, c)
  PROVE  Proper
<1>1. UNCHANGED <<reservations, expenses, callVars>>
  BY DEF Pend, budgetVars
<1>2. phase' \in [Cids -> P!Phases] /\ ConsentStays
  BY Asked DEF Pend, Tables
<1>3. Still
  BY <1>1 DEF Still, callVars, Holds
<1>4. Tables'
  BY <1>1, <1>2 DEF Tables, Rows, CallTables, callVars
<1> QED
  BY <1>2, <1>3, <1>4 DEF Proper, Ways

LEMMA ConnReserveIsProper ==
  ASSUME Tables, NEW t \in Tasks, ConnReserve(t)
  PROVE  Proper
<1> DEFINE c == task[t].cid
<1>1. /\ task[t].pc = "cleared" /\ c \in Cids /\ running = t /\ Estimate[c] \in Nat
      /\ reservations' = Append(reservations,
             [amount |-> Estimate[c], ref |-> c, status |-> "open"])
      /\ task' = [task EXCEPT ![t] = [pc |-> "reserved", cid |-> c, res |-> Len(reservations')]]
      /\ UNCHANGED <<expenses, phase, running, cache, completed, abandoned>>
  BY CallConstants DEF ConnReserve, At, B!Reserve, Tables, Rows
<1> HIDE DEF c
<1>2. Takes(t, c)
  BY <1>1 DEF Takes, Holds, Holding
<1>3. reservations' \in Seq(Reservation) /\ Len(reservations') \in Nat
  BY <1>1, Taken DEF Tables
<1>4. Tables'
  BY <1>1, <1>3, CallConstants DEF Tables, Rows, CallTables, Call, Steps
<1> QED
  BY <1>1, <1>2, <1>4 DEF Proper, Ways, ConsentStays

LEMMA RefuseIsProper ==
  ASSUME Tables, NEW t \in Tasks, Refuse(t)
  PROVE  Proper
<1>1. /\ task[t].pc = "cleared" /\ task[t].cid \in Cids /\ running = t /\ running' = None
      /\ task' = [task EXCEPT ![t] = NoCall]
      /\ cache' = [cache EXCEPT ![task[t].cid] = "failed"]
      /\ UNCHANGED <<reservations, expenses, phase, completed, abandoned>>
  BY DEF Refuse, At, budgetVars, Tables, Rows
<1>2. Still
  BY <1>1 DEF Still, Holds, Holding, NoCall, Tables, Rows, CallTables
<1>3. Tables'
  BY <1>1 DEF Tables, Rows, CallTables, NoCall, Call, Steps, Results
<1> QED
  BY <1>1, <1>2, <1>3 DEF Proper, Ways, ConsentStays

LEMMA AttemptIsProper ==
  ASSUME Tables, NEW t \in Tasks, Attempt(t)
  PROVE  Proper
<1>1. /\ task[t].pc = "reserved" /\ running = t /\ running' = None
      /\ task' = [task EXCEPT ![t].pc = "executing"]
      /\ UNCHANGED <<reservations, expenses, phase, cache, completed, abandoned>>
  BY DEF Attempt, At, Goto, budgetVars
<1>2. Still
  BY <1>1 DEF Still, Holds, Holding, Tables, Rows, Call
<1>3. Tables'
  BY <1>1 DEF Tables, Rows, CallTables, Call, Steps
<1> QED
  BY <1>1, <1>2, <1>3 DEF Proper, Ways, ConsentStays

LEMMA ConnSteps == Tables /\ [ConnNext]_allVars => Proper
<1> SUFFICES ASSUME Tables, [ConnNext]_allVars PROVE Proper
  OBVIOUS
<1>1. ASSUME NEW t \in Tasks, NEW c \in Cids,
             ConnDeny(t, c) \/ Clear(t, c) \/ Pend(t, c) \/ Denied(t, c)
      PROVE  Proper
  BY <1>1, FailIsProper, ClearIsProper, PendIsProper DEF ConnDeny, Denied
<1>2. ASSUME NEW t \in Tasks, ConnReserve(t) \/ Refuse(t) \/ Attempt(t) PROVE Proper
  BY <1>2, ConnReserveIsProper, RefuseIsProper, AttemptIsProper
<1>3. ASSUME NEW t \in Tasks, Retry(t) PROVE Proper
  BY <1>3, NothingHappens DEF Retry
<1>4. ASSUME NEW t \in Tasks,
             Succeed(t) \/ GiveUp(t) \/ ConnReturn(t) \/ ConnRaise(t) \/ ConnCancel(t)
      PROVE  Proper
  BY <1>4, CommonIsProper DEF CommonNext, Succeed, GiveUp, ConnReturn, ConnRaise, ConnCancel
<1>5. CASE UpdateAllowlist \/ \E c \in Cids : UpdateThreshold(c)
  BY <1>5, NothingHappens DEF UpdateAllowlist, UpdateThreshold, SetActionThreshold
<1>6. CASE AppendEvent \/ OtherSpending \/ QueueDecides
  BY <1>6, OthersAreProper
<1>7. CASE ConnRestart
  BY <1>7, RestartIsProper DEF ConnRestart
<1>8. CASE UNCHANGED allVars
  BY <1>8, NothingHappens DEF allVars
<1> QED
  BY <1>1, <1>2, <1>3, <1>4, <1>5, <1>6, <1>7, <1>8 DEF ConnNext

LEMMA ConnectorInvariance == ConnSpec => []CallsInv
<1>1. ConnInit => CallsInv
  BY CallsInit DEF ConnInit
<1>2. CallsInv /\ [ConnNext]_allVars => CallsInv'
  BY ConnSteps, WaysKeep DEF CallsInv, Tables, Proper
<1> QED
  BY <1>1, <1>2, PTL DEF ConnSpec

\* The books of connector calls, which ask for consent before they reserve, are
\* those of tool calls.
THEOREM ConnectorBooks == ConnSpec => [](OpenIsHeld /\ PaidForWork)
<1>1. CallsInv => OpenIsHeld /\ PaidForWork
  BY DEF CallsInv
<1> QED
  BY <1>1, ConnectorInvariance, PTL

\* A call that has passed the gates and has not been sent yet is still allowed and
\* still has its consent: the loop was not given up since.
Cleared(t) == task[t].pc \in {"cleared", "reserved"}

ClearedMayGo ==
    \A t \in Tasks : Cleared(t) =>
        /\ task[t].cid \in allowed
        /\ task[t].cid \notin LowRisk => phase[task[t].cid] = "approved"

ConsentInv == CallsInv /\ ClearedMayGo /\ sent \subseteq Cids /\ SentWithConsent

\* Only Clear lets a call pass the gates, and the Board's routes wait for the loop.
LEMMA ClearedOnce ==
  ASSUME Tables, [ConnNext]_allVars, NEW t \in Tasks, Cleared(t)'
  PROVE  \/ \E c \in Cids : Clear(t, c) /\ task'[t].cid = c
         \/ Cleared(t) /\ task'[t].cid = task[t].cid /\ allowed' = allowed
<1> USE DEF Cleared
<1>1. ASSUME NEW u \in Tasks, NEW c \in Cids, Clear(u, c)
      PROVE  \/ Clear(t, c) /\ task'[t].cid = c
             \/ Cleared(t) /\ task'[t].cid = task[t].cid /\ allowed' = allowed
  <2>1. CASE u = t
    <3>1. task'[t].cid = c
      BY <1>1, <2>1 DEF Clear, Tables, Rows, Call
    <3> QED
      BY <1>1, <2>1, <3>1
  <2>2. CASE u # t
    BY <1>1, <2>2 DEF Clear, Tables, Rows, Call, connVars
  <2> QED
    BY <2>1, <2>2
<1>2. ASSUME NEW u \in Tasks, NEW c \in Cids, ConnDeny(u, c) \/ Pend(u, c) \/ Denied(u, c)
      PROVE  Cleared(t) /\ task'[t].cid = task[t].cid /\ allowed' = allowed
  BY <1>2 DEF ConnDeny, Pend, Denied, Fail, callVars, connVars
<1>3. ASSUME NEW u \in Tasks, ConnReserve(u)
      PROVE  Cleared(t) /\ task'[t].cid = task[t].cid /\ allowed' = allowed
  BY <1>3 DEF ConnReserve, At, Tables, Rows, Call, connVars
<1>4. ASSUME NEW u \in Tasks,
             Refuse(u) \/ ConnReturn(u) \/ ConnRaise(u) \/ ConnCancel(u)
      PROVE  Cleared(t) /\ task'[t].cid = task[t].cid /\ allowed' = allowed
  <2>1. task' = [task EXCEPT ![u] = NoCall] /\ allowed' = allowed
    BY <1>4 DEF Refuse, ConnReturn, ConnRaise, ConnCancel, Return, Raise, CancelTask, connVars
  <2> QED
    BY <2>1 DEF NoCall, Tables, Rows, Call
<1>5. ASSUME NEW u \in Tasks, Attempt(u) \/ Succeed(u) \/ GiveUp(u)
      PROVE  Cleared(t) /\ task'[t].cid = task[t].cid /\ allowed' = allowed
  <2>1. /\ \E p \in {"executing", "paid", "unpaid"} : Goto(u, p)
        /\ allowed' = allowed
    BY <1>5 DEF Attempt, Succeed, GiveUp, ExecuteOk, ExecuteFail
  <2> QED
    BY <2>1 DEF Goto, Tables, Rows, Call
<1>6. ASSUME NEW u \in Tasks, Retry(u)
      PROVE  Cleared(t) /\ task'[t].cid = task[t].cid /\ allowed' = allowed
  BY <1>6 DEF Retry, vars, callVars
<1>7. CASE UpdateAllowlist \/ (\E c \in Cids : UpdateThreshold(c))
  <2>1. running = None /\ task' = task
    BY <1>7 DEF UpdateAllowlist, UpdateThreshold, SetActionThreshold, LoopFree, vars, callVars
  <2> QED
    BY <2>1, CallConstants DEF Tables, Rows
<1>8. CASE (AppendEvent \/ OtherSpending \/ QueueDecides) /\ UNCHANGED connVars
  BY <1>8 DEF AppendEvent, OtherSpending, QueueDecides, callVars, connVars
<1>9. CASE ConnRestart
  BY <1>9 DEF ConnRestart, Restart, NoCall
<1>10. CASE UNCHANGED allVars
  BY <1>10 DEF allVars, vars, callVars, connVars
<1> QED
  BY <1>1, <1>2, <1>3, <1>4, <1>5, <1>6, <1>7, <1>8, <1>9, <1>10 DEF ConnNext

\* Only Attempt sends a call, which had passed the gates.
LEMMA SentOnce ==
  ASSUME Tables, [ConnNext]_allVars, NEW c \in sent', c \notin sent
  PROVE  \E t \in Tasks : Cleared(t) /\ task[t].cid = c
<1>1. sent' = sent \/ \E t \in Tasks : Attempt(t)
  BY DEF ConnNext, ConnDeny, Clear, Pend, Denied, ConnReserve, Refuse, Retry, Succeed, GiveUp,
         ConnReturn, ConnRaise, ConnCancel, UpdateAllowlist, UpdateThreshold,
         SetActionThreshold, ConnRestart, connVars, allVars
<1> QED
  BY <1>1 DEF Attempt, At, Cleared

LEMMA ConsentStep == ConsentInv /\ [ConnNext]_allVars => ConsentInv'
<1> SUFFICES ASSUME ConsentInv, [ConnNext]_allVars PROVE ConsentInv'
  OBVIOUS
<1>1. Tables /\ ConsentStays /\ CallsInv'
  BY ConnSteps, WaysKeep DEF ConsentInv, CallsInv, Tables, Proper
<1>2. ClearedMayGo'
  <2> SUFFICES ASSUME NEW t \in Tasks, Cleared(t)'
               PROVE  /\ task'[t].cid \in allowed'
                      /\ task'[t].cid \notin LowRisk => phase'[task'[t].cid] = "approved"
    BY DEF ClearedMayGo, Cleared
  <2>1. ASSUME NEW c \in Cids, Clear(t, c), task'[t].cid = c
        PROVE  c \in allowed' /\ (c \notin LowRisk => phase'[c] = "approved")
    BY <2>1 DEF Clear, AutoApproved, Verdict, connVars
  <2>2. CASE Cleared(t) /\ task'[t].cid = task[t].cid /\ allowed' = allowed
    <3>1. task[t].cid \in Cids
      BY <1>1, <2>2 DEF Cleared, Tables, Rows
    <3> QED
      BY <1>1, <2>2, <3>1 DEF ConsentInv, ClearedMayGo, ConsentStays
  <2> QED
    BY <1>1, <2>1, <2>2, ClearedOnce
<1>3. sent' \subseteq Cids /\ SentWithConsent'
  <2> SUFFICES ASSUME NEW c \in sent'
               PROVE  c \in Cids /\ (c \notin LowRisk => phase'[c] = "approved")
    BY DEF SentWithConsent
  <2>1. CASE c \in sent
    BY <1>1, <2>1 DEF ConsentInv, SentWithConsent, ConsentStays
  <2>2. CASE c \notin sent
    <3>1. PICK t \in Tasks : Cleared(t) /\ task[t].cid = c
      BY <1>1, <2>2, SentOnce
    <3>2. c \in Cids
      BY <1>1, <3>1 DEF Cleared, Tables, Rows
    <3> QED
      BY <1>1, <3>1, <3>2 DEF ConsentInv, ClearedMayGo, ConsentStays
  <2> QED
    BY <2>1, <2>2
<1> QED
  BY <1>1, <1>2, <1>3 DEF ConsentInv

LEMMA ConsentInit == ConnInit => ConsentInv
BY CallsInit DEF ConnInit, Init, ConsentInv, ClearedMayGo, Cleared, NoCall, SentWithConsent

\* Nothing reaches a service that is not low-risk before its request was approved.
THEOREM ConnectorSendsWithConsent == ConnSpec => []SentWithConsent
<1>1. ConsentInv => SentWithConsent
  BY DEF ConsentInv
<1> QED
  BY <1>1, ConsentInit, ConsentStep, PTL DEF ConnSpec

\* A call goes out only while its action is on the allowlist.
THEOREM ConnectorSendsWhatIsAllowed == ConnSpec => SentWhileAllowed
<1> DEFINE Sent == \A t \in Tasks :
                       task[t].pc # "executing" /\ task'[t].pc = "executing" =>
                           task'[t].cid \in allowed
<1>1. ConsentInv /\ [ConnNext]_allVars => [Sent]_allVars
  <2> SUFFICES ASSUME ConsentInv, ConnNext, NEW t \in Tasks,
                      task[t].pc # "executing", task'[t].pc = "executing"
               PROVE  task'[t].cid \in allowed
    OBVIOUS
  <2>1. Tables
    BY DEF ConsentInv, CallsInv, Tables
  <2>2. Attempt(t)
    <3>1. ASSUME NEW u \in Tasks, Attempt(u) PROVE u = t
      BY <3>1, <2>1 DEF Attempt, Goto, Tables, Rows, Call
    <3>2. ASSUME NEW u \in Tasks,
                 ConnReserve(u) \/ \E c \in Cids : Clear(u, c)
          PROVE  FALSE
      <4>1. \E p \in {"cleared", "reserved"} : \E c, n :
               task' = [task EXCEPT ![u] = [pc |-> p, cid |-> c, res |-> n]]
        BY <3>2 DEF Clear, ConnReserve
      <4> QED
        BY <4>1, <2>1 DEF Tables, Rows
    <3>3. ASSUME NEW u \in Tasks,
                 Refuse(u) \/ ConnReturn(u) \/ ConnRaise(u) \/ ConnCancel(u)
          PROVE  FALSE
      <4>1. task' = [task EXCEPT ![u] = NoCall]
        BY <3>3 DEF Refuse, ConnReturn, ConnRaise, ConnCancel, Return, Raise, CancelTask
      <4> QED
        BY <4>1, <2>1 DEF NoCall, Tables, Rows, Call
    <3>4. ASSUME NEW u \in Tasks, Succeed(u) \/ GiveUp(u)
          PROVE  FALSE
      <4>1. \E p \in {"paid", "unpaid"} : Goto(u, p)
        BY <3>4 DEF Succeed, GiveUp, ExecuteOk, ExecuteFail
      <4> QED
        BY <4>1, <2>1 DEF Goto, Tables, Rows, Call
    <3>5. task' = task => FALSE
      OBVIOUS
    <3>6. CASE \/ \E u \in Tasks : Retry(u)
               \/ \E u \in Tasks, c \in Cids : ConnDeny(u, c) \/ Pend(u, c) \/ Denied(u, c)
               \/ UpdateAllowlist \/ \E c \in Cids : UpdateThreshold(c)
               \/ AppendEvent \/ OtherSpending \/ QueueDecides
      BY <3>5, <3>6 DEF Retry, ConnDeny, Pend, Denied, Fail, UpdateAllowlist, UpdateThreshold, SetActionThreshold,
                        AppendEvent, OtherSpending, QueueDecides, vars, callVars
    <3>7. CASE ConnRestart
      BY <3>7 DEF ConnRestart, Restart, NoCall
    <3> QED
      BY <3>1, <3>2, <3>3, <3>4, <3>6, <3>7 DEF ConnNext
  <2>3. Cleared(t) /\ task'[t].cid = task[t].cid
    BY <2>1, <2>2 DEF Attempt, At, Cleared, Goto, Tables, Rows, Call
  <2> QED
    BY <2>3 DEF ConsentInv, ClearedMayGo
<1> QED
  BY <1>1, ConsentInit, ConsentStep, PTL DEF ConnSpec, SentWhileAllowed

-----------------------------------------------------------------------------
(* Both layers use the budget and the approval queue as their modules say. *)

\* What a step is for the budget, and for the queue.
BudgetStep == B!Next \/ UNCHANGED budgetVars
QueueStep == P!Next \/ UNCHANGED phase

\* The amounts of calls are amounts of the budget.
LEMMA EstimateIsAmount ==
  ASSUME NEW c \in Cids
  PROVE  Estimate[c] \in Amounts \cup {Estimate[d] : d \in Cids}
OBVIOUS

LEMMA CrashOrNothing ==
  ASSUME IF B!Idle THEN UNCHANGED budgetVars ELSE B!Crash
  PROVE  BudgetStep
BY DEF BudgetStep, B!Next

LEMMA ReleaseIsStep ==
  ASSUME NEW i, B!Release(i)
  PROVE  BudgetStep
<1>1. i \in 1 .. Len(reservations)
  BY DEF B!Release, B!Open
<1> QED
  BY <1>1 DEF BudgetStep, B!Next

LEMMA ReserveIsStep ==
  ASSUME NEW c \in Cids, B!Reserve(Estimate[c], c)
  PROVE  BudgetStep
BY EstimateIsAmount DEF BudgetStep, B!Next

LEMMA CommitIsStep ==
  ASSUME NEW c \in Cids, NEW i,
         B!CommitAccepted(i, Estimate[c]) \/ B!CommitRefused(i, Estimate[c])
  PROVE  BudgetStep
<1>1. i \in 1 .. Len(reservations)
  BY DEF B!CommitAccepted, B!CommitRefused, B!Open
<1> QED
  BY <1>1, EstimateIsAmount DEF BudgetStep, B!Next

LEMMA AskIsStep ==
  ASSUME NEW c \in Cids, AskApproval(c)
  PROVE  QueueStep
BY DEF AskApproval, QueueStep, P!Next

LEMMA CommonImplements ==
  ASSUME Rows, CommonNext
  PROVE  BudgetStep /\ QueueStep
<1>1. ASSUME NEW t \in Tasks, ExecuteOk(t) PROVE BudgetStep /\ QueueStep
  <2>1. task[t].cid \in Cids
    BY <1>1 DEF ExecuteOk, Rows
  <2>2. /\ \/ B!CommitAccepted(task[t].res, Estimate[task[t].cid])
           \/ B!CommitRefused(task[t].res, Estimate[task[t].cid])
        /\ UNCHANGED phase
    BY <1>1 DEF ExecuteOk
  <2> QED
    BY <2>1, <2>2, CommitIsStep DEF QueueStep
<1>2. ASSUME NEW t \in Tasks, ExecuteFail(t) PROVE BudgetStep /\ QueueStep
  <2>1. B!Release(task[t].res) /\ UNCHANGED phase
    BY <1>2 DEF ExecuteFail
  <2> QED
    BY <2>1, ReleaseIsStep DEF QueueStep
<1>3. ASSUME NEW t \in Tasks, Return(t) \/ CancelTask(t) PROVE BudgetStep /\ QueueStep
  BY <1>3 DEF Return, CancelTask, BudgetStep, QueueStep
<1>4. ASSUME NEW t \in Tasks, Raise(t) PROVE BudgetStep /\ QueueStep
  BY <1>4, CrashOrNothing DEF Raise, QueueStep
<1>5. CASE Restart
  BY <1>5, CrashOrNothing DEF Restart, QueueStep
<1>6. CASE AppendEvent
  BY <1>6 DEF AppendEvent, BudgetStep, QueueStep, B!Next
<1>7. CASE OtherSpending
  BY <1>7 DEF OtherSpending, UpdateBudget, BudgetStep, QueueStep, B!Next
<1>8. CASE QueueDecides
  BY <1>8 DEF QueueDecides, BudgetStep, QueueStep, P!Next
<1> QED
  BY <1>1, <1>2, <1>3, <1>4, <1>5, <1>6, <1>7, <1>8 DEF CommonNext

LEMMA ToolsImplement ==
  ASSUME Rows, [Next]_vars
  PROVE  BudgetStep /\ QueueStep
<1>1. ASSUME NEW t \in Tasks, NEW c \in Cids, Deny(t, c) \/ OverBudget(t, c)
      PROVE  BudgetStep /\ QueueStep
  BY <1>1 DEF Deny, OverBudget, Fail, BudgetStep, QueueStep
<1>2. ASSUME NEW t \in Tasks, NEW c \in Cids, Reserve(t, c)
      PROVE  BudgetStep /\ QueueStep
  <2>1. B!Reserve(Estimate[c], c) /\ UNCHANGED phase
    BY <1>2 DEF Reserve
  <2> QED
    BY <2>1, ReserveIsStep DEF QueueStep
<1>3. ASSUME NEW t \in Tasks, HandleApproval(t) PROVE BudgetStep /\ QueueStep
  <2>1. task[t].cid \in Cids
    BY <1>3 DEF HandleApproval, At, Rows
  <2>2. (AskApproval(task[t].cid) \/ UNCHANGED phase) /\ UNCHANGED budgetVars
    BY <1>3 DEF HandleApproval
  <2> QED
    BY <2>1, <2>2, AskIsStep DEF BudgetStep, QueueStep
<1>4. ASSUME NEW t \in Tasks, Withdraw(t) PROVE BudgetStep /\ QueueStep
  <2>1. B!Release(task[t].res) /\ UNCHANGED phase
    BY <1>4 DEF Withdraw
  <2> QED
    BY <2>1, ReleaseIsStep DEF QueueStep
<1>5. CASE UNCHANGED vars
  BY <1>5 DEF vars, BudgetStep, QueueStep
<1> QED
  BY <1>1, <1>2, <1>3, <1>4, <1>5, CommonImplements DEF Next

LEMMA ConnectorImplements ==
  ASSUME Rows, [ConnNext]_allVars
  PROVE  BudgetStep /\ QueueStep
<1>1. ASSUME NEW t \in Tasks, NEW c \in Cids, ConnDeny(t, c) \/ Clear(t, c) \/ Denied(t, c)
      PROVE  BudgetStep /\ QueueStep
  BY <1>1 DEF ConnDeny, Clear, Denied, Fail, BudgetStep, QueueStep
<1>2. ASSUME NEW t \in Tasks, NEW c \in Cids, Pend(t, c)
      PROVE  BudgetStep /\ QueueStep
  BY <1>2, AskIsStep DEF Pend, BudgetStep
<1>3. ASSUME NEW t \in Tasks, ConnReserve(t) PROVE BudgetStep /\ QueueStep
  <2>1. task[t].cid \in Cids
    BY <1>3 DEF ConnReserve, At, Rows
  <2>2. B!Reserve(Estimate[task[t].cid], task[t].cid) /\ UNCHANGED phase
    BY <1>3 DEF ConnReserve
  <2> QED
    BY <2>1, <2>2, ReserveIsStep DEF QueueStep
<1>4. ASSUME NEW t \in Tasks, Refuse(t) \/ Attempt(t) PROVE BudgetStep /\ QueueStep
  BY <1>4 DEF Refuse, Attempt, BudgetStep, QueueStep
<1>5. CASE UNCHANGED vars
  BY <1>5 DEF vars, BudgetStep, QueueStep
<1>6. ASSUME NEW t \in Tasks,
             Succeed(t) \/ GiveUp(t) \/ ConnReturn(t) \/ ConnRaise(t) \/ ConnCancel(t)
      PROVE  CommonNext
  BY <1>6 DEF CommonNext, Succeed, GiveUp, ConnReturn, ConnRaise, ConnCancel
<1>7. ASSUME NEW t \in Tasks, Retry(t) PROVE UNCHANGED vars
  BY <1>7 DEF Retry
<1>8. CASE UpdateAllowlist \/ \E c \in Cids : UpdateThreshold(c)
  BY <1>5, <1>8 DEF UpdateAllowlist, UpdateThreshold, SetActionThreshold
<1>9. CASE AppendEvent \/ OtherSpending \/ QueueDecides \/ ConnRestart
  BY <1>9, CommonImplements DEF CommonNext, ConnRestart
<1>10. CASE UNCHANGED allVars
  BY <1>5, <1>10 DEF allVars
<1> QED
  BY <1>1, <1>2, <1>3, <1>4, <1>5, <1>6, <1>7, <1>8, <1>9, <1>10, CommonImplements DEF ConnNext

\* A budget that tools use is the budget of module Budget, whatever calls do at
\* the same time, and die of: what is proved of Budget holds for the budget of a
\* company with tools.
THEOREM ToolsUseBudget == Spec => B!Spec
<1>1. Init => B!Init
  BY DEF Init
<1>2. CallsInv /\ [Next]_vars => [B!Next]_(B!vars)
  BY ToolsImplement DEF CallsInv, BudgetStep, budgetVars, B!vars, B!ledger
<1> QED
  BY <1>1, <1>2, ToolsInvariance, PTL DEF Spec, B!Spec

\* A queue that tools ask is the queue that ApprovalPromise describes.
THEOREM ToolsUseQueue == Spec => P!Spec
<1>1. Init => P!Init
  BY DEF Init
<1>2. CallsInv /\ [Next]_vars => [P!Next]_phase
  BY ToolsImplement DEF CallsInv, QueueStep
<1> QED
  BY <1>1, <1>2, ToolsInvariance, PTL DEF Spec, P!Spec

\* The same of the budget that the connector reserves on and commits to.
THEOREM ConnectorUsesBudget == ConnSpec => B!Spec
<1>1. ConnInit => B!Init
  BY DEF ConnInit, Init
<1>2. CallsInv /\ [ConnNext]_allVars => [B!Next]_(B!vars)
  BY ConnectorImplements DEF CallsInv, BudgetStep, budgetVars, B!vars, B!ledger
<1> QED
  BY <1>1, <1>2, ConnectorInvariance, PTL DEF ConnSpec, B!Spec

\* And of the queue that the connector asks.
THEOREM ConnectorUsesQueue == ConnSpec => P!Spec
<1>1. ConnInit => P!Init
  BY DEF ConnInit, Init
<1>2. CallsInv /\ [ConnNext]_allVars => [P!Next]_phase
  BY ConnectorImplements DEF CallsInv, QueueStep
<1> QED
  BY <1>1, <1>2, ConnectorInvariance, PTL DEF ConnSpec, P!Spec
=============================================================================
