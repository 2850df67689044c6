---------------------------- MODULE BudgetProofs ----------------------------
(***************************************************************************)
(* Proofs about Budget and Subscriptions, for all amounts, totals,         *)
(* references, subscriptions and table sizes.  The sums of Sums.tla come   *)
(* first, with the induction they need; then the sums over the tables, the *)
(* type invariant, the inductive invariant behind the two flag properties, *)
(* the action properties, the event log, and the refinement of Budget by   *)
(* Subscriptions.                                                          *)
(***************************************************************************)
EXTENDS Subscriptions, FiniteSetTheorems, WellFoundedInduction, TLAPS

-----------------------------------------------------------------------------
(* What Sums computes: the sum of naturals is a natural, an appended row   *)
(* adds its amount, a changed row changes the sum by the difference.  The  *)
(* proofs need induction on the length; SetInduction gets it from the      *)
(* well-foundedness of < on Nat, with the induction hypothesis as a set.   *)

\* A non-empty set of naturals has a least element.
LEMMA NatMin ==
  ASSUME NEW T, T \subseteq Nat, T # {}
  PROVE  \E m \in T : \A k \in T : m <= k
<1> DEFINE R == OpToRel(<, Nat)
<1>1. IsWellFoundedOn(R, Nat)
  BY NatLessThanWellFounded
<1>2. \A x, y \in Nat : y < x => <<y, x>> \in R
  BY DEF OpToRel
<1> HIDE DEF R
<1>3. PICK x \in T : \A y \in T : ~ (<<y, x>> \in R)
  BY <1>1, WFMin
<1>4. ASSUME NEW y \in T PROVE x <= y
  <2>1. x \in Nat /\ y \in Nat
    OBVIOUS
  <2>2. ~ (y < x)
    BY <1>2, <1>3, <2>1
  <2> QED BY <2>1, <2>2
<1> QED BY <1>4

\* Induction over Nat with the property as a set.
LEMMA SetInduction ==
  ASSUME NEW T, 0 \in T, \A n \in Nat : n \in T => n + 1 \in T
  PROVE  Nat \subseteq T
<1> SUFFICES ASSUME Nat \ T # {} PROVE FALSE
  OBVIOUS
<1>1. PICK m \in Nat \ T : \A k \in Nat \ T : m <= k
  BY NatMin
<1>2. m # 0 /\ m - 1 \in Nat
  BY <1>1
<1>3. m - 1 \in T
  BY <1>1, <1>2
<1> QED BY <1>1, <1>2, <1>3

\* S is the table of partial sums of a up to n.
IsPrefixSum(S, a, n) ==
    /\ S \in [0 .. n -> Nat]
    /\ S[0] = 0
    /\ \A i \in 1 .. n : S[i] = S[i - 1] + a[i]

\* Every sequence of naturals has a table of partial sums.
LEMMA PrefixSumExists ==
  ASSUME NEW m \in Nat, NEW a \in [1 .. m -> Nat]
  PROVE  \A n \in 0 .. m : \E S : IsPrefixSum(S, a, n)
<1> DEFINE T == {n \in Nat : n <= m => \E S : IsPrefixSum(S, a, n)}
<1>1. 0 \in T
  <2>1. IsPrefixSum([i \in 0 .. 0 |-> 0], a, 0)
    BY DEF IsPrefixSum
  <2> QED BY <2>1
<1>2. ASSUME NEW n \in Nat, n \in T PROVE n + 1 \in T
  <2> SUFFICES ASSUME n + 1 <= m PROVE \E S : IsPrefixSum(S, a, n + 1)
    OBVIOUS
  <2>1. PICK S : IsPrefixSum(S, a, n)
    BY <1>2
  <2> DEFINE U == [i \in 0 .. n + 1 |-> IF i = n + 1 THEN S[n] + a[n + 1] ELSE S[i]]
  <2>2. S \in [0 .. n -> Nat] /\ S[0] = 0 /\ \A i \in 1 .. n : S[i] = S[i - 1] + a[i]
    BY <2>1 DEF IsPrefixSum
  <2>3. a[n + 1] \in Nat
    OBVIOUS
  <2>4. U \in [0 .. n + 1 -> Nat]
    BY <2>2, <2>3
  <2>5. U[0] = 0
    BY <2>2
  <2>6. ASSUME NEW i \in 1 .. n + 1 PROVE U[i] = U[i - 1] + a[i]
    <3>1. CASE i = n + 1
      BY <3>1
    <3>2. CASE i # n + 1
      <4>1. i \in 1 .. n /\ i - 1 \in 0 .. n /\ i - 1 # n + 1 /\ i \in 0 .. n + 1 /\ i - 1 \in 0 .. n + 1
        BY <3>2
      <4>2. U[i] = S[i] /\ U[i - 1] = S[i - 1]
        BY <3>2, <4>1
      <4> QED BY <2>2, <4>1, <4>2
    <3> QED BY <3>1, <3>2
  <2> QED BY <2>4, <2>5, <2>6 DEF IsPrefixSum
<1> HIDE DEF T
<1>3. Nat \subseteq T
  BY <1>1, <1>2, SetInduction
<1> QED BY <1>3 DEF T

\* SumTo is the last entry of the table of partial sums.
LEMMA SumToIsPrefixSum ==
  ASSUME NEW n \in Nat, NEW a \in [1 .. n -> Nat]
  PROVE  \E S : IsPrefixSum(S, a, n) /\ SumTo(a, n) = S[n]
<1> DEFINE F(f) == [i \in 0 .. n |-> IF i = 0 THEN 0 ELSE f[i - 1] + a[i]]
           C == CHOOSE f : f = F(f)
<1>1. PICK S : IsPrefixSum(S, a, n)
  BY PrefixSumExists
<1>2. S = F(S)
  BY <1>1 DEF IsPrefixSum
<1>3. C = F(C)
  <2> HIDE DEF F
  <2> QED BY <1>2
<1>4. SumTo(a, n) = C[n]
  BY DEF SumTo
<1> HIDE DEF C
<1>5. C[0] = 0 /\ \A i \in 1 .. n : C[i] = C[i - 1] + a[i]
  <2>1. C[0] = F(C)[0]
    BY <1>3
  <2>2. ASSUME NEW i \in 1 .. n PROVE C[i] = C[i - 1] + a[i]
    <3>1. C[i] = F(C)[i]
      BY <1>3
    <3> QED BY <3>1
  <2> QED BY <2>1, <2>2
<1>6. \A i \in 0 .. n : C[i] \in Nat
  <2> DEFINE T == {i \in Nat : i <= n => C[i] \in Nat}
  <2>1. 0 \in T
    BY <1>5
  <2>2. ASSUME NEW i \in Nat, i \in T PROVE i + 1 \in T
    <3> SUFFICES ASSUME i + 1 <= n PROVE C[i + 1] \in Nat
      OBVIOUS
    <3>1. i + 1 \in 1 .. n /\ (i + 1) - 1 = i /\ C[i] \in Nat /\ a[i + 1] \in Nat
      BY <2>2
    <3>2. C[i + 1] = C[i] + a[i + 1]
      BY <1>5, <3>1
    <3> QED BY <3>1, <3>2
  <2> HIDE DEF T
  <2>3. Nat \subseteq T
    BY <2>1, <2>2, SetInduction
  <2> QED BY <2>3 DEF T
<1>7. C \in [0 .. n -> Nat]
  <2>1. F(C) = [i \in 0 .. n |-> F(C)[i]]
    OBVIOUS
  <2>2. C = [i \in 0 .. n |-> C[i]]
    <3> HIDE DEF F
    <3> QED BY <1>3, <2>1
  <2> QED BY <1>6, <2>2
<1> QED BY <1>4, <1>5, <1>7 DEF IsPrefixSum

\* Two tables agree as far as their sequences do.
LEMMA PrefixSumUnique ==
  ASSUME NEW n \in Nat, NEW m \in Nat, NEW k \in Nat, k <= n, k <= m,
         NEW a, NEW b, NEW S, NEW U,
         IsPrefixSum(S, a, n), IsPrefixSum(U, b, m),
         \A i \in 1 .. k : a[i] = b[i]
  PROVE  S[k] = U[k]
<1> DEFINE T == {i \in Nat : i <= k => S[i] = U[i]}
<1>1. 0 \in T
  BY DEF IsPrefixSum
<1>2. ASSUME NEW i \in Nat, i \in T PROVE i + 1 \in T
  <2> SUFFICES ASSUME i + 1 <= k PROVE S[i + 1] = U[i + 1]
    OBVIOUS
  <2>1. i + 1 \in 1 .. n /\ i + 1 \in 1 .. m /\ i + 1 \in 1 .. k /\ (i + 1) - 1 = i
    OBVIOUS
  <2>2. S[i + 1] = S[i] + a[i + 1] /\ U[i + 1] = U[i] + b[i + 1]
    BY <2>1 DEF IsPrefixSum
  <2>3. S[i] = U[i] /\ a[i + 1] = b[i + 1]
    BY <1>2, <2>1
  <2> QED BY <2>2, <2>3
<1> HIDE DEF T
<1>3. Nat \subseteq T
  BY <1>1, <1>2, SetInduction
<1> QED BY <1>3 DEF T

\* The sum of naturals is a natural.
LEMMA SumToNat ==
  ASSUME NEW n \in Nat, NEW a \in [1 .. n -> Nat]
  PROVE  SumTo(a, n) \in Nat
<1>1. PICK S : IsPrefixSum(S, a, n) /\ SumTo(a, n) = S[n]
  BY SumToIsPrefixSum
<1> QED BY <1>1 DEF IsPrefixSum

\* An appended row adds its amount.
LEMMA SumToAppend ==
  ASSUME NEW n \in Nat, NEW a \in [1 .. n -> Nat], NEW b \in [1 .. n + 1 -> Nat],
         \A i \in 1 .. n : a[i] = b[i]
  PROVE  SumTo(b, n + 1) = SumTo(a, n) + b[n + 1]
<1>1. PICK S : IsPrefixSum(S, a, n) /\ SumTo(a, n) = S[n]
  BY SumToIsPrefixSum
<1>2. PICK U : IsPrefixSum(U, b, n + 1) /\ SumTo(b, n + 1) = U[n + 1]
  BY SumToIsPrefixSum
<1>3. S[n] = U[n]
  BY <1>1, <1>2, PrefixSumUnique
<1>4. U[n + 1] = U[(n + 1) - 1] + b[n + 1]
  BY <1>2 DEF IsPrefixSum
<1> QED BY <1>1, <1>2, <1>3, <1>4

\* A changed row changes the sum by the difference, and no row exceeds the sum.
LEMMA SumToUpdate ==
  ASSUME NEW n \in Nat, NEW a \in [1 .. n -> Nat], NEW b \in [1 .. n -> Nat],
         NEW k \in 1 .. n, \A i \in 1 .. n : i # k => a[i] = b[i]
  PROVE  /\ SumTo(b, n) + a[k] = SumTo(a, n) + b[k]
         /\ a[k] <= SumTo(a, n)
<1>1. PICK S : IsPrefixSum(S, a, n) /\ SumTo(a, n) = S[n]
  BY SumToIsPrefixSum
<1>2. PICK U : IsPrefixSum(U, b, n) /\ SumTo(b, n) = U[n]
  BY SumToIsPrefixSum
<1> DEFINE T == {i \in Nat : i <= n =>
                   /\ i < k => S[i] = U[i]
                   /\ i >= k => U[i] + a[k] = S[i] + b[k] /\ a[k] <= S[i]}
<1>3. 0 \in T
  BY <1>1, <1>2 DEF IsPrefixSum
<1>4. ASSUME NEW i \in Nat, i \in T PROVE i + 1 \in T
  <2> SUFFICES ASSUME i + 1 <= n
               PROVE  /\ i + 1 < k => S[i + 1] = U[i + 1]
                      /\ i + 1 >= k => U[i + 1] + a[k] = S[i + 1] + b[k] /\ a[k] <= S[i + 1]
    OBVIOUS
  <2>1. i + 1 \in 1 .. n /\ (i + 1) - 1 = i
    OBVIOUS
  <2>2. S[i + 1] = S[i] + a[i + 1] /\ U[i + 1] = U[i] + b[i + 1]
    BY <1>1, <1>2, <2>1 DEF IsPrefixSum
  <2>3. S[i] \in Nat /\ U[i] \in Nat /\ a[i + 1] \in Nat /\ b[i + 1] \in Nat /\ a[k] \in Nat /\ b[k] \in Nat
    BY <1>1, <1>2, <2>1 DEF IsPrefixSum
  <2>4. i + 1 # k => a[i + 1] = b[i + 1]
    BY <2>1
  <2>5. /\ i < k => S[i] = U[i]
        /\ i >= k => U[i] + a[k] = S[i] + b[k] /\ a[k] <= S[i]
    BY <1>4
  <2> HIDE DEF T
  <2>6. CASE i + 1 < k
    BY <2>2, <2>3, <2>4, <2>5, <2>6
  <2>7. CASE i + 1 = k
    <3>1. S[i] = U[i] /\ a[i + 1] = a[k] /\ b[i + 1] = b[k]
      BY <2>5, <2>7
    <3>2. U[i + 1] + a[k] = S[i + 1] + b[k] /\ a[k] <= S[i + 1]
      BY <2>2, <2>3, <3>1
    <3> QED BY <2>7, <3>2
  <2>8. CASE i + 1 > k
    <3>1. U[i] + a[k] = S[i] + b[k] /\ a[k] <= S[i] /\ a[i + 1] = b[i + 1]
      BY <2>4, <2>5, <2>8
    <3>2. PICK s, u, x, y, z \in Nat :
              s = S[i] /\ u = U[i] /\ x = a[k] /\ y = b[k] /\ z = a[i + 1]
      BY <2>3
    <3>3. (u + z) + x = (s + z) + y /\ x <= s + z
      <4>1. u + x = s + y /\ x <= s
        BY <3>1, <3>2
      <4> QED BY <4>1
    <3>4. U[i + 1] + a[k] = S[i + 1] + b[k] /\ a[k] <= S[i + 1]
      BY <2>2, <3>1, <3>2, <3>3
    <3> QED BY <2>8, <3>4
  <2> QED BY <2>6, <2>7, <2>8
<1> HIDE DEF T
<1>5. Nat \subseteq T
  BY <1>3, <1>4, SetInduction
<1> QED BY <1>1, <1>2, <1>5 DEF T

-----------------------------------------------------------------------------
(* The tables. *)

ExpenseRow == [amount : Nat, memo : Refs \cup {Direct}]
ReservationRow == [amount : Nat, ref : Refs, status : ReservationStatus]

-----------------------------------------------------------------------------
(* The sums over the tables. *)

\* _sum_expenses is a natural, and an inserted expense adds its amount.
LEMMA ExpensesSum ==
  ASSUME NEW e \in Seq(ExpenseRow)
  PROVE  /\ SumExpenses(e) \in Nat
         /\ \A x \in ExpenseRow : SumExpenses(Append(e, x)) = SumExpenses(e) + x.amount
<1> DEFINE n == Len(e)
           a == [i \in 1 .. n |-> e[i].amount]
<1>1. n \in Nat /\ a \in [1 .. n -> Nat]
  <2>1. n \in Nat /\ \A i \in 1 .. n : e[i] \in ExpenseRow
    OBVIOUS
  <2>2. \A x \in ExpenseRow : x.amount \in Nat
    BY DEF ExpenseRow
  <2> QED BY <2>1, <2>2
<1>2. SumExpenses(e) = SumTo(a, n)
  BY DEF SumExpenses
<1>3. SumExpenses(e) \in Nat
  <2> HIDE DEF n, a
  <2> QED BY <1>1, <1>2, SumToNat
<1>4. ASSUME NEW x \in ExpenseRow
      PROVE  SumExpenses(Append(e, x)) = SumExpenses(e) + x.amount
  <2> DEFINE b == [i \in 1 .. n + 1 |-> Append(e, x)[i].amount]
  <2>1. Len(Append(e, x)) = n + 1
    OBVIOUS
  <2>2. SumExpenses(Append(e, x)) = SumTo(b, n + 1)
    BY <2>1 DEF SumExpenses
  <2>3. \A i \in 1 .. n : Append(e, x)[i] = e[i]
    OBVIOUS
  <2>4. Append(e, x)[n + 1] = x
    OBVIOUS
  <2>5. b[n + 1] = x.amount /\ \A i \in 1 .. n : a[i] = b[i]
    BY <2>3, <2>4, <1>1
  <2>6. ASSUME NEW i \in 1 .. n + 1 PROVE b[i] \in Nat
    <3>1. CASE i = n + 1
      BY <2>5, <3>1 DEF ExpenseRow
    <3>2. CASE i # n + 1
      <4>1. i \in 1 .. n
        BY <1>1, <3>2
      <4> QED BY <1>1, <2>5, <4>1
    <3> QED BY <3>1, <3>2
  <2>7. b \in [1 .. n + 1 -> Nat]
    BY <2>6
  <2> HIDE DEF n, a, b
  <2>8. SumTo(b, n + 1) = SumTo(a, n) + b[n + 1]
    BY <1>1, <2>5, <2>7, SumToAppend
  <2> QED BY <1>2, <2>2, <2>5, <2>8
<1> QED BY <1>3, <1>4

\* _sum_open_reservations is a natural; an inserted open reservation adds its
\* amount; closing one subtracts it.
LEMMA OpenSum ==
  ASSUME NEW rs \in Seq(ReservationRow)
  PROVE  /\ SumOpen(rs) \in Nat
         /\ \A x \in ReservationRow : SumOpen(Append(rs, x)) = SumOpen(rs) + OpenAmount(x)
         /\ \A i \in 1 .. Len(rs), st \in {"committed", "released"} :
              rs[i].status = "open" =>
                /\ SumOpen([rs EXCEPT ![i].status = st]) = SumOpen(rs) - rs[i].amount
                /\ rs[i].amount <= SumOpen(rs)
<1> DEFINE n == Len(rs)
           a == [i \in 1 .. n |-> OpenAmount(rs[i])]
<1>1. \A x \in ReservationRow : OpenAmount(x) \in Nat
  BY DEF ReservationRow, OpenAmount
<1>2. n \in Nat /\ \A i \in 1 .. n : rs[i] \in ReservationRow
  OBVIOUS
<1>3. a \in [1 .. n -> Nat]
  BY <1>1, <1>2
<1>4. SumOpen(rs) = SumTo(a, n)
  BY DEF SumOpen
<1>5. SumOpen(rs) \in Nat
  <2> HIDE DEF n, a
  <2> QED BY <1>2, <1>3, <1>4, SumToNat
<1>6. ASSUME NEW x \in ReservationRow
      PROVE  SumOpen(Append(rs, x)) = SumOpen(rs) + OpenAmount(x)
  <2> DEFINE b == [i \in 1 .. n + 1 |-> OpenAmount(Append(rs, x)[i])]
  <2>1. Len(Append(rs, x)) = n + 1
    OBVIOUS
  <2>2. SumOpen(Append(rs, x)) = SumTo(b, n + 1)
    BY <2>1 DEF SumOpen
  <2>3. \A i \in 1 .. n : Append(rs, x)[i] = rs[i]
    OBVIOUS
  <2>4. Append(rs, x)[n + 1] = x
    OBVIOUS
  <2>5. b[n + 1] = OpenAmount(x) /\ \A i \in 1 .. n : a[i] = b[i]
    BY <2>3, <2>4, <1>2
  <2>6. ASSUME NEW i \in 1 .. n + 1 PROVE b[i] \in Nat
    <3>1. CASE i = n + 1
      BY <1>1, <2>5, <3>1
    <3>2. CASE i # n + 1
      <4>1. i \in 1 .. n
        BY <1>2, <3>2
      <4> QED BY <1>3, <2>5, <4>1
    <3> QED BY <3>1, <3>2
  <2>7. b \in [1 .. n + 1 -> Nat]
    BY <2>6
  <2> HIDE DEF n, a, b
  <2>8. SumTo(b, n + 1) = SumTo(a, n) + b[n + 1]
    BY <1>2, <1>3, <2>5, <2>7, SumToAppend
  <2> QED BY <1>4, <2>2, <2>5, <2>8
<1>7. ASSUME NEW i \in 1 .. n, NEW st \in {"committed", "released"}, rs[i].status = "open"
      PROVE  /\ SumOpen([rs EXCEPT ![i].status = st]) = SumOpen(rs) - rs[i].amount
             /\ rs[i].amount <= SumOpen(rs)
  <2> DEFINE rt == [rs EXCEPT ![i].status = st]
             b == [j \in 1 .. n |-> OpenAmount(rt[j])]
  <2>1. Len(rt) = n
    OBVIOUS
  <2>2. SumOpen(rt) = SumTo(b, n)
    BY <2>1 DEF SumOpen
  <2>3. rt[i].status = st /\ st # "open"
    BY <1>2 DEF ReservationRow
  <2>4. b[i] = 0 /\ a[i] = rs[i].amount
    BY <2>3, <1>7 DEF OpenAmount
  <2>5. \A j \in 1 .. n : j # i => a[j] = b[j]
    OBVIOUS
  <2>6. ASSUME NEW j \in 1 .. n PROVE b[j] \in Nat
    BY <1>3, <2>4, <2>5
  <2>7. b \in [1 .. n -> Nat]
    BY <2>6
  <2> HIDE DEF n, a, b, rt
  <2>8. SumTo(b, n) + a[i] = SumTo(a, n) + b[i] /\ a[i] <= SumTo(a, n)
    BY <1>2, <1>3, <2>5, <2>7, SumToUpdate
  <2>9. SumTo(a, n) \in Nat /\ SumTo(b, n) \in Nat
    BY <1>2, <1>3, <2>7, SumToNat
  <2>10. a[i] \in Nat
    BY <1>3
  <2>11. SumTo(b, n) = SumTo(a, n) - a[i]
    BY <2>4, <2>8, <2>9, <2>10
  <2>12. SumOpen(rt) = SumOpen(rs) - rs[i].amount /\ rs[i].amount <= SumOpen(rs)
    BY <1>4, <2>2, <2>4, <2>8, <2>11
  <2> QED BY <2>12 DEF rt
<1> QED BY <1>5, <1>6, <1>7

-----------------------------------------------------------------------------
(* Typing. *)

\* The steps of Next, named once for the proofs below.
LEMMA Steps ==
  ASSUME Next
  PROVE  \/ \E t \in Totals : SetTotal(t)
         \/ \E a \in Amounts : ChargeAccepted(a) \/ ChargeRefused(a)
         \/ \E a \in Amounts, ref \in Refs : Reserve(a, ref)
         \/ \E i \in 1 .. Len(reservations) : Release(i)
         \/ \E i \in 1 .. Len(reservations), a \in Amounts :
              CommitAccepted(i, a) \/ CommitRefused(i, a)
         \/ AppendEvent
         \/ Crash
  BY DEF Next

\* The threshold evaluation and the refusal keep the types of what they set.
LEMMA EvaluateTyping ==
  ASSUME NEW t \in Nat, NEW u \in Nat, NEW events \in Seq(Event),
         EvaluateThresholds(t, u, events)
  PROVE  /\ lastWarn' \in {0, WARNING_PCT, BLOCKED_PCT}
         /\ blocked' \in BOOLEAN
         /\ outbox' \in Seq(Event)
<1>1. CrossingAlert(t, u) \in Seq(Event)
  <2>1. Alert("BUDGET_BLOCKED") \in Event /\ Alert("BUDGET_WARNING") \in Event
    BY DEF Alert, Event, Alerts
  <2>2. CrossingAlert(t, u) \in {<<Alert("BUDGET_BLOCKED")>>, <<Alert("BUDGET_WARNING")>>, <<>>}
    BY Zenon DEF CrossingAlert
  <2>3. <<Alert("BUDGET_BLOCKED")>> \in Seq(Event) /\ <<Alert("BUDGET_WARNING")>> \in Seq(Event)
    BY <2>1
  <2>4. <<>> \in Seq(Event)
    OBVIOUS
  <2> QED BY <2>2, <2>3, <2>4, Zenon
<1>2. outbox' \in Seq(Event)
  BY <1>1 DEF EvaluateThresholds
<1>3. lastWarn' \in {0, WARNING_PCT, BLOCKED_PCT}
  BY DEF EvaluateThresholds, Level
<1>4. blocked' \in BOOLEAN
  BY Zenon DEF EvaluateThresholds
<1> QED BY <1>2, <1>3, <1>4

LEMMA BlockTyping ==
  ASSUME Block
  PROVE  /\ lastWarn' \in {0, WARNING_PCT, BLOCKED_PCT}
         /\ blocked' \in BOOLEAN
         /\ outbox' \in Seq(Event)
<1>1. Alert("BUDGET_BLOCKED") \in Event
  BY DEF Alert, Event, Alerts
<1> QED BY <1>1 DEF Block

\* Closing a reservation keeps the table's type.
LEMMA CloseTyping ==
  ASSUME TypeOK, NEW i \in 1 .. Len(reservations), NEW st \in ReservationStatus, Close(i, st)
  PROVE  /\ reservations' \in Seq(ReservationRow)
         /\ Len(reservations') = Len(reservations)
<1>1. reservations \in Seq(ReservationRow)
  BY DEF TypeOK, ReservationRow
<1>2. reservations[i] \in ReservationRow
  BY <1>1
<1> DEFINE r == [reservations[i] EXCEPT !.status = st]
<1>3. r \in ReservationRow
  BY <1>2 DEF ReservationRow
<1>4. reservations' = [reservations EXCEPT ![i] = r]
  BY DEF Close
<1> HIDE DEF r
<1> QED BY <1>1, <1>3, <1>4

\* Spent, reserved and used amounts are naturals.
LEMMA AmountsNat ==
  ASSUME TypeOK
  PROVE  Spent \in Nat /\ Reserved \in Nat /\ Used \in Nat
<1>1. expenses \in Seq(ExpenseRow) /\ reservations \in Seq(ReservationRow)
  BY DEF TypeOK, ExpenseRow, ReservationRow
<1>2. Spent \in Nat
  BY <1>1, ExpensesSum DEF Spent
<1>3. Reserved \in Nat
  BY <1>1, OpenSum DEF Reserved
<1> QED BY <1>2, <1>3 DEF Used

\* What each method does to the two sums.
LEMMA ExpenseInserted ==
  ASSUME TypeOK, NEW a \in Nat, NEW m \in Refs \cup {Direct},
         expenses' = Append(expenses, [amount |-> a, memo |-> m])
  PROVE  /\ expenses' \in Seq(ExpenseRow)
         /\ SumExpenses(expenses') = Spent + a
         /\ ExpenseCharged(Len(expenses')) \in Event
<1> DEFINE x == [amount |-> a, memo |-> m]
<1>1. expenses \in Seq(ExpenseRow)
  BY DEF TypeOK, ExpenseRow
<1>2. x \in ExpenseRow /\ x.amount = a
  BY DEF ExpenseRow
<1>3. expenses' = Append(expenses, x)
  OBVIOUS
<1> HIDE DEF x
<1>4. expenses' \in Seq(ExpenseRow)
  BY <1>1, <1>2, <1>3
<1>5. SumExpenses(expenses') = Spent + a
  BY <1>1, <1>2, <1>3, ExpensesSum DEF Spent
<1>6. ExpenseCharged(Len(expenses')) \in Event
  BY <1>4 DEF ExpenseCharged, Event
<1> QED BY <1>4, <1>5, <1>6

LEMMA ReservationInserted ==
  ASSUME TypeOK, NEW a \in Nat, NEW ref \in Refs,
         reservations' = Append(reservations, [amount |-> a, ref |-> ref, status |-> "open"])
  PROVE  /\ reservations' \in Seq(ReservationRow)
         /\ SumOpen(reservations') = Reserved + a
<1> DEFINE x == [amount |-> a, ref |-> ref, status |-> "open"]
<1>1. reservations \in Seq(ReservationRow)
  BY DEF TypeOK, ReservationRow
<1>2. x \in ReservationRow /\ OpenAmount(x) = a
  BY DEF ReservationRow, ReservationStatus, OpenAmount
<1>3. reservations' = Append(reservations, x)
  OBVIOUS
<1> HIDE DEF x
<1>4. reservations' \in Seq(ReservationRow)
  BY <1>1, <1>2, <1>3
<1>5. SumOpen(reservations') = Reserved + a
  BY <1>1, <1>2, <1>3, OpenSum DEF Reserved
<1> QED BY <1>4, <1>5

LEMMA ReservationClosed ==
  ASSUME TypeOK, NEW i \in Open, NEW st \in {"committed", "released"}, Close(i, st)
  PROVE  /\ reservations' \in Seq(ReservationRow)
         /\ i \in 1 .. Len(reservations)
         /\ reservations[i].amount \in Nat
         /\ reservations[i].ref \in Refs
         /\ SumOpen(reservations') = Reserved - reservations[i].amount
         /\ reservations[i].amount <= Reserved
         /\ SumOpen(reservations') \in Nat
<1>1. reservations \in Seq(ReservationRow)
  BY DEF TypeOK, ReservationRow
<1>2. i \in 1 .. Len(reservations) /\ reservations[i].status = "open"
  BY DEF Open
<1>3. reservations[i] \in ReservationRow
  BY <1>1, <1>2
<1>4. reservations[i].amount \in Nat /\ reservations[i].ref \in Refs
  BY <1>3 DEF ReservationRow
<1>5. reservations' \in Seq(ReservationRow)
  BY <1>2, CloseTyping DEF ReservationStatus
<1>6. SumOpen(reservations') = Reserved - reservations[i].amount
      /\ reservations[i].amount <= Reserved
  BY <1>1, <1>2, OpenSum DEF Reserved, Close
<1>7. SumOpen(reservations') \in Nat
  BY <1>5, OpenSum
<1> QED BY <1>2, <1>4, <1>5, <1>6, <1>7

\* The type invariant of the cost engine's tables and event queue.
THEOREM Typing == Spec => []TypeOK
<1>1. Init => TypeOK
  <2> SUFFICES ASSUME Init PROVE TypeOK
    OBVIOUS
  <2>1. expenses \in Seq([amount : Nat, memo : Refs \cup {Direct}])
    BY DEF Init
  <2>2. reservations \in Seq([amount : Nat, ref : Refs, status : ReservationStatus])
    BY DEF Init
  <2>3. outbox \in Seq(Event)
    BY DEF Init
  <2>4. blocked \in BOOLEAN /\ crashed \in BOOLEAN /\ lastAlert \in Alerts \cup {"none"}
    BY DEF Init
  <2>5. total \in Nat /\ lastWarn \in {0, WARNING_PCT, BLOCKED_PCT} /\ charged \subseteq Nat
    BY DEF Init
  <2> QED BY <2>1, <2>2, <2>3, <2>4, <2>5 DEF TypeOK
<1>2. TypeOK /\ [Next]_vars => TypeOK'
  <2> SUFFICES ASSUME TypeOK, [Next]_vars PROVE TypeOK'
    OBVIOUS
  <2>1. Spent \in Nat /\ Reserved \in Nat /\ Used \in Nat
    BY AmountsNat
  <2>2. <<>> \in Seq(Event)
    OBVIOUS
  <2>3. ASSUME NEW t \in Totals, SetTotal(t) PROVE TypeOK'
    <3>1. t \in Nat
      BY BudgetConstants
    <3>2. EvaluateThresholds(t, Used, <<>>)
      BY <2>3 DEF SetTotal
    <3> QED BY <2>1, <2>2, <2>3, <3>1, <3>2, EvaluateTyping DEF SetTotal, TypeOK
  <2>4. ASSUME NEW a \in Amounts, ChargeAccepted(a) PROVE TypeOK'
    <3>1. a \in Nat
      BY BudgetConstants
    <3>2. /\ expenses' \in Seq(ExpenseRow)
          /\ SumExpenses(expenses') = Spent + a
          /\ ExpenseCharged(Len(expenses')) \in Event
      BY <2>4, <3>1, ExpenseInserted DEF ChargeAccepted
    <3>3. <<ExpenseCharged(Len(expenses'))>> \in Seq(Event)
      BY <3>2
    <3>4. SumExpenses(expenses') + Reserved \in Nat /\ total \in Nat
      BY <2>1, <3>1, <3>2 DEF TypeOK
    <3>5. EvaluateThresholds(total, SumExpenses(expenses') + Reserved,
                             <<ExpenseCharged(Len(expenses'))>>)
      BY <2>4 DEF ChargeAccepted
    <3>6. /\ lastWarn' \in {0, WARNING_PCT, BLOCKED_PCT}
          /\ blocked' \in BOOLEAN
          /\ outbox' \in Seq(Event)
      BY <3>3, <3>4, <3>5, EvaluateTyping
    <3> QED BY <2>4, <3>2, <3>6 DEF ChargeAccepted, TypeOK, ExpenseRow
  <2>5. ASSUME NEW a \in Amounts, ChargeRefused(a) PROVE TypeOK'
    <3>1. Alert("BUDGET_BLOCKED") \in Event
      BY DEF Alert, Event, Alerts
    <3>2. CASE blocked
      <4>1. outbox' = <<Alert("BUDGET_BLOCKED")>>
        BY <2>5, <3>2, Zenon DEF ChargeRefused
      <4>2. UNCHANGED <<total, blocked, lastWarn, expenses, reservations, charged, lastAlert, crashed>>
        BY <2>5, <3>2 DEF ChargeRefused
      <4>3. outbox' \in Seq(Event)
        BY <3>1, <4>1
      <4> QED BY <4>2, <4>3 DEF TypeOK
    <3>3. CASE ~ blocked
      BY <2>5, <3>3, BlockTyping DEF ChargeRefused, TypeOK
    <3> QED BY <3>2, <3>3
  <2>6. ASSUME NEW a \in Amounts, NEW ref \in Refs, Reserve(a, ref) PROVE TypeOK'
    <3>1. a \in Nat
      BY BudgetConstants
    <3>2. reservations' \in Seq(ReservationRow) /\ SumOpen(reservations') = Reserved + a
      BY <2>6, <3>1, ReservationInserted DEF Reserve
    <3>3. Spent + SumOpen(reservations') \in Nat /\ total \in Nat
      BY <2>1, <3>1, <3>2 DEF TypeOK
    <3>4. EvaluateThresholds(total, Spent + SumOpen(reservations'), <<>>)
      BY <2>6 DEF Reserve
    <3>5. /\ lastWarn' \in {0, WARNING_PCT, BLOCKED_PCT}
          /\ blocked' \in BOOLEAN
          /\ outbox' \in Seq(Event)
      BY <2>2, <3>3, <3>4, EvaluateTyping
    <3> QED BY <2>6, <3>2, <3>5 DEF Reserve, TypeOK, ReservationRow
  <2>7. ASSUME NEW i \in 1 .. Len(reservations), Release(i) PROVE TypeOK'
    <3>1. reservations' \in Seq(ReservationRow)
      BY <2>7, ReservationClosed DEF Release
    <3> QED BY <2>7, <3>1 DEF Release, TypeOK, ReservationRow
  <2>8. ASSUME NEW i \in 1 .. Len(reservations), NEW a \in Amounts, CommitAccepted(i, a)
        PROVE  TypeOK'
    <3>1. a \in Nat
      BY BudgetConstants
    <3>2. /\ reservations' \in Seq(ReservationRow)
          /\ reservations[i].ref \in Refs
          /\ SumOpen(reservations') \in Nat
      BY <2>8, ReservationClosed DEF CommitAccepted
    <3>3. /\ expenses' \in Seq(ExpenseRow)
          /\ SumExpenses(expenses') = Spent + a
          /\ ExpenseCharged(Len(expenses')) \in Event
      BY <2>8, <3>1, <3>2, ExpenseInserted DEF CommitAccepted
    <3>4. <<ExpenseCharged(Len(expenses'))>> \in Seq(Event)
      BY <3>3
    <3>5. SumExpenses(expenses') + SumOpen(reservations') \in Nat /\ total \in Nat
      BY <2>1, <3>1, <3>2, <3>3 DEF TypeOK
    <3>6. EvaluateThresholds(total, SumExpenses(expenses') + SumOpen(reservations'),
                             <<ExpenseCharged(Len(expenses'))>>)
      BY <2>8 DEF CommitAccepted
    <3>7. /\ lastWarn' \in {0, WARNING_PCT, BLOCKED_PCT}
          /\ blocked' \in BOOLEAN
          /\ outbox' \in Seq(Event)
      BY <3>4, <3>5, <3>6, EvaluateTyping
    <3> QED BY <2>8, <3>2, <3>3, <3>7 DEF CommitAccepted, TypeOK, ExpenseRow, ReservationRow
  <2>9. ASSUME NEW i \in 1 .. Len(reservations), NEW a \in Amounts, CommitRefused(i, a)
        PROVE  TypeOK'
    <3>1. reservations' \in Seq(ReservationRow)
      BY <2>9, ReservationClosed DEF CommitRefused
    <3> QED BY <2>9, <3>1, BlockTyping DEF CommitRefused, TypeOK, ReservationRow
  <2>10. CASE AppendEvent
    <3>1. Head(outbox) \in Event /\ outbox' \in Seq(Event)
      BY <2>10 DEF AppendEvent, TypeOK
    <3>2. Head(outbox).expense \in Nat
      BY <3>1 DEF Event
    <3> QED BY <2>10, <3>1, <3>2 DEF AppendEvent, TypeOK, ledger
  <2>11. CASE Crash
    BY <2>11 DEF Crash, TypeOK, ledger
  <2>12. CASE UNCHANGED vars
    BY <2>12 DEF vars, ledger, TypeOK
  <2> QED BY <2>3, <2>4, <2>5, <2>6, <2>7, <2>8, <2>9, <2>10, <2>11, <2>12, Steps
<1> QED BY <1>1, <1>2, PTL DEF Spec

-----------------------------------------------------------------------------
(* The flags. *)

\* More usage never lowers the level.
LEMMA LevelMonotone ==
  ASSUME NEW t \in Nat, NEW u \in Nat, NEW v \in Nat, u <= v
  PROVE  Level(t, u) <= Level(t, v)
  BY DEF Level, AtLeast, WARNING_PCT, BLOCKED_PCT

LEMMA LevelType ==
  ASSUME NEW t, NEW u
  PROVE  Level(t, u) \in {0, WARNING_PCT, BLOCKED_PCT}
  BY DEF Level

\* The inductive invariant: the flags alone are not inductive, since the
\* evaluation at the limit relies on them agreeing before the step, and the
\* level alone is not, since it is stated of the recorded level.
FlagInv == TypeOK /\ FlagsAgree /\ LimitIsFlagged

\* The threshold evaluation establishes both flag properties of the state it
\* leaves, if the flags agreed before.
LEMMA EvaluateFlags ==
  ASSUME TypeOK, FlagsAgree, NEW t, NEW u, NEW events,
         EvaluateThresholds(t, u, events), total' = t, Used' = u
  PROVE  FlagsAgree' /\ LimitIsFlagged'
<1>1. lastWarn' = Level(t, u)
  BY DEF EvaluateThresholds
<1>2. Level(t, u) \in {0, 80, 100}
  BY LevelType DEF WARNING_PCT, BLOCKED_PCT
<1>3. blocked \/ lastWarn < BLOCKED_PCT
  <2>1. lastWarn = BLOCKED_PCT => blocked
    BY DEF FlagsAgree
  <2>2. lastWarn # BLOCKED_PCT => lastWarn < BLOCKED_PCT
    BY DEF TypeOK, WARNING_PCT, BLOCKED_PCT
  <2> QED BY <2>1, <2>2
<1>4. FlagsAgree'
  <2>1. blocked' <=> Level(t, u) = BLOCKED_PCT
    BY <1>3, Zenon DEF EvaluateThresholds
  <2> QED BY <1>1, <2>1 DEF FlagsAgree
<1>5. Level(total', Used') <= lastWarn'
  BY <1>1, <1>2
<1> QED BY <1>4, <1>5 DEF LimitIsFlagged

LEMMA BlockFlags ==
  ASSUME Block, TypeOK'
  PROVE  FlagsAgree' /\ LimitIsFlagged'
<1>1. blocked' = TRUE /\ lastWarn' = 100
  BY DEF Block, BLOCKED_PCT
<1>2. Level(total', Used') \in {0, 80, 100}
  BY LevelType DEF WARNING_PCT, BLOCKED_PCT
<1>3. LimitIsFlagged'
  BY <1>1, <1>2 DEF LimitIsFlagged
<1> QED BY <1>1, <1>3 DEF FlagsAgree, BLOCKED_PCT

\* A step that keeps the flags and the total and does not raise the usage
\* keeps both flag properties.
LEMMA QuietFlags ==
  ASSUME FlagInv, TypeOK', UNCHANGED <<total, blocked, lastWarn>>, Used' <= Used
  PROVE  FlagsAgree' /\ LimitIsFlagged'
<1>1. Used \in Nat /\ total \in Nat
  BY AmountsNat DEF FlagInv, TypeOK
<1>2. Used' \in Nat
  <2>1. expenses' \in Seq(ExpenseRow) /\ reservations' \in Seq(ReservationRow)
    BY DEF TypeOK, ExpenseRow, ReservationRow
  <2>2. SumExpenses(expenses') \in Nat /\ SumOpen(reservations') \in Nat
    BY <2>1, ExpensesSum, OpenSum
  <2> QED BY <2>2 DEF Used, Spent, Reserved
<1>3. Level(total, Used') <= Level(total, Used)
  BY <1>1, <1>2, LevelMonotone
<1>4. Level(total, Used) <= lastWarn
  BY DEF FlagInv, LimitIsFlagged
<1>5. Level(total, Used') \in Nat /\ Level(total, Used) \in Nat /\ lastWarn \in Nat
  <2>1. \A x \in {0, WARNING_PCT, BLOCKED_PCT} : x \in Nat
    BY DEF WARNING_PCT, BLOCKED_PCT
  <2> QED BY <2>1, LevelType DEF FlagInv, TypeOK
<1>6. Level(total, Used') <= lastWarn
  BY <1>3, <1>4, <1>5
<1> QED BY <1>6 DEF FlagInv, FlagsAgree, LimitIsFlagged

-----------------------------------------------------------------------------
(* What every step does to the usage. *)

\* Usage as a function of the two tables after the step.
LEMMA UsedAfter == Used' = SumExpenses(expenses') + SumOpen(reservations')
  BY DEF Used, Spent, Reserved

LEMMA ChargeUsage ==
  ASSUME TypeOK, NEW a \in Amounts, ChargeAccepted(a)
  PROVE  Used' = Used + a /\ Used' = SumExpenses(expenses') + Reserved
<1>1. a \in Nat
  BY BudgetConstants
<1>2. SumExpenses(expenses') = Spent + a
  BY <1>1, ExpenseInserted DEF ChargeAccepted
<1>3. SumOpen(reservations') = Reserved
  BY DEF ChargeAccepted, Reserved
<1> QED BY <1>1, <1>2, <1>3, UsedAfter, AmountsNat DEF Used

LEMMA ReserveUsage ==
  ASSUME TypeOK, NEW a \in Amounts, NEW ref \in Refs, Reserve(a, ref)
  PROVE  Used' = Used + a /\ Used' = Spent + SumOpen(reservations')
<1>1. a \in Nat
  BY BudgetConstants
<1>2. SumOpen(reservations') = Reserved + a
  BY <1>1, ReservationInserted DEF Reserve
<1>3. SumExpenses(expenses') = Spent
  BY DEF Reserve, Spent
<1> QED BY <1>1, <1>2, <1>3, UsedAfter, AmountsNat DEF Used

LEMMA CommitUsage ==
  ASSUME TypeOK, NEW i \in 1 .. Len(reservations), NEW a \in Amounts, CommitAccepted(i, a)
  PROVE  /\ Used' = Used - reservations[i].amount + a
         /\ reservations[i].amount \in Nat
<1>1. a \in Nat
  BY BudgetConstants
<1>2. /\ reservations[i].ref \in Refs
      /\ reservations[i].amount \in Nat
      /\ SumOpen(reservations') = Reserved - reservations[i].amount
  BY ReservationClosed DEF CommitAccepted
<1>3. SumExpenses(expenses') = Spent + a
  BY <1>1, <1>2, ExpenseInserted DEF CommitAccepted
<1> QED BY <1>1, <1>2, <1>3, UsedAfter, AmountsNat DEF Used

\* release and a refused commit only lower the usage.
LEMMA CloseUsage ==
  ASSUME TypeOK, NEW i \in Open, Close(i, "released"), UNCHANGED expenses
  PROVE  Used' <= Used
<1>1. /\ reservations[i].amount \in Nat
      /\ SumOpen(reservations') = Reserved - reservations[i].amount
  BY ReservationClosed
<1>2. SumExpenses(expenses') = Spent
  BY DEF Spent
<1> QED BY <1>1, <1>2, UsedAfter, AmountsNat DEF Used

LEMMA SameUsage ==
  ASSUME UNCHANGED <<expenses, reservations>>
  PROVE  Used' = Used
  BY DEF Used, Spent, Reserved

-----------------------------------------------------------------------------

\* The flags agree and usage never stands above its recorded threshold.
THEOREM Flags == Spec => [](FlagsAgree /\ LimitIsFlagged)
<1>1. Init => FlagsAgree /\ LimitIsFlagged
  <2> SUFFICES ASSUME Init PROVE FlagsAgree /\ LimitIsFlagged
    OBVIOUS
  <2>1. FlagsAgree
    BY DEF Init, FlagsAgree, BLOCKED_PCT
  <2>2. Level(total, Used) = 0
    BY DEF Init, Level, AtLeast
  <2> QED BY <2>1, <2>2 DEF LimitIsFlagged, Init
<1>2. TypeOK /\ TypeOK' /\ FlagsAgree /\ LimitIsFlagged /\ [Next]_vars
        => FlagsAgree' /\ LimitIsFlagged'
  <2> SUFFICES ASSUME TypeOK, TypeOK', FlagsAgree, LimitIsFlagged, [Next]_vars
               PROVE  FlagsAgree' /\ LimitIsFlagged'
    OBVIOUS
  <2>0. FlagInv
    BY DEF FlagInv
  <2>1. Used \in Nat
    BY AmountsNat
  <2>2. ASSUME NEW t \in Totals, SetTotal(t) PROVE FlagsAgree' /\ LimitIsFlagged'
    <3>1. Used' = Used
      BY <2>2, SameUsage DEF SetTotal
    <3> QED BY <2>2, <3>1, EvaluateFlags DEF SetTotal
  <2>3. ASSUME NEW a \in Amounts, ChargeAccepted(a) PROVE FlagsAgree' /\ LimitIsFlagged'
    <3>1. Used' = SumExpenses(expenses') + Reserved
      BY <2>3, ChargeUsage
    <3> QED BY <2>3, <3>1, EvaluateFlags DEF ChargeAccepted
  <2>4. ASSUME NEW a \in Amounts, ChargeRefused(a) PROVE FlagsAgree' /\ LimitIsFlagged'
    <3>1. Used' = Used
      BY <2>4, SameUsage DEF ChargeRefused
    <3>2. CASE blocked
      <4>1. UNCHANGED <<total, blocked, lastWarn>>
        BY <2>4, <3>2, Zenon DEF ChargeRefused
      <4> QED BY <2>0, <2>1, <3>1, <4>1, QuietFlags
    <3>3. CASE ~ blocked
      BY <2>4, <3>3, BlockFlags DEF ChargeRefused
    <3> QED BY <3>2, <3>3
  <2>5. ASSUME NEW a \in Amounts, NEW ref \in Refs, Reserve(a, ref)
        PROVE  FlagsAgree' /\ LimitIsFlagged'
    <3>1. Used' = Spent + SumOpen(reservations')
      BY <2>5, ReserveUsage
    <3> QED BY <2>5, <3>1, EvaluateFlags DEF Reserve
  <2>6. ASSUME NEW i \in 1 .. Len(reservations), Release(i)
        PROVE  FlagsAgree' /\ LimitIsFlagged'
    <3>1. Used' <= Used
      BY <2>6, CloseUsage DEF Release
    <3> QED BY <2>0, <2>6, <3>1, QuietFlags DEF Release
  <2>7. ASSUME NEW i \in 1 .. Len(reservations), NEW a \in Amounts, CommitAccepted(i, a)
        PROVE  FlagsAgree' /\ LimitIsFlagged'
    BY <2>7, UsedAfter, EvaluateFlags DEF CommitAccepted
  <2>8. ASSUME NEW i \in 1 .. Len(reservations), NEW a \in Amounts, CommitRefused(i, a)
        PROVE  FlagsAgree' /\ LimitIsFlagged'
    BY <2>8, BlockFlags DEF CommitRefused
  <2>9. CASE AppendEvent \/ Crash \/ UNCHANGED vars
    <3>1. UNCHANGED <<total, blocked, lastWarn, expenses, reservations>>
      BY <2>9 DEF AppendEvent, Crash, vars, ledger
    <3>2. Used' = Used
      BY <3>1, SameUsage
    <3> QED BY <2>0, <2>1, <3>1, <3>2, QuietFlags
  <2> QED BY <2>2, <2>3, <2>4, <2>5, <2>6, <2>7, <2>8, <2>9, Steps
<1> QED BY <1>1, <1>2, Typing, PTL DEF Spec

\* No step lets spent plus reserved grow past the total.
THEOREM WithinTotal == Spec => SpendingWithinTotal
<1>1. TypeOK /\ [Next]_vars => [Used' > Used => Used' <= total']_vars
  <2> SUFFICES ASSUME TypeOK, [Next]_vars, Used' > Used
               PROVE  Used' <= total'
    BY Zenon
  <2>1. Used \in Nat /\ total \in Nat
    BY AmountsNat DEF TypeOK
  <2>2. ASSUME NEW a \in Amounts, ChargeAccepted(a) PROVE Used' <= total'
    BY <2>2, ChargeUsage DEF ChargeAccepted, Fits
  <2>3. ASSUME NEW a \in Amounts, NEW ref \in Refs, Reserve(a, ref) PROVE Used' <= total'
    BY <2>3, ReserveUsage DEF Reserve, Fits
  <2>4. ASSUME NEW i \in 1 .. Len(reservations), NEW a \in Amounts, CommitAccepted(i, a)
        PROVE  Used' <= total'
    BY <2>4, CommitUsage DEF CommitAccepted, CommitFits
  <2>5. ASSUME NEW i \in 1 .. Len(reservations), Release(i) PROVE FALSE
    <3>1. Used' <= Used
      BY <2>5, CloseUsage DEF Release
    <3>2. Used' \in Int
      <4>1. SumOpen(reservations') \in Nat
        BY <2>5, ReservationClosed DEF Release
      <4>2. SumExpenses(expenses') \in Nat
        BY <2>5, AmountsNat DEF Release, Spent
      <4> QED BY <4>1, <4>2, UsedAfter
    <3> QED BY <2>1, <3>1, <3>2
  <2>6. ASSUME NEW i \in 1 .. Len(reservations), NEW a \in Amounts, CommitRefused(i, a)
        PROVE  FALSE
    <3>1. Used' <= Used
      BY <2>6, CloseUsage DEF CommitRefused
    <3>2. Used' \in Int
      <4>1. SumOpen(reservations') \in Nat
        BY <2>6, ReservationClosed DEF CommitRefused
      <4>2. SumExpenses(expenses') \in Nat
        BY <2>6, AmountsNat DEF CommitRefused, Spent
      <4> QED BY <4>1, <4>2, UsedAfter
    <3> QED BY <2>1, <3>1, <3>2
  <2>7. ASSUME UNCHANGED <<expenses, reservations>> PROVE FALSE
    BY <2>1, <2>7, SameUsage
  <2>8. ASSUME NEW t \in Totals, SetTotal(t) PROVE FALSE
    BY <2>7, <2>8 DEF SetTotal
  <2>9. ASSUME NEW a \in Amounts, ChargeRefused(a) PROVE FALSE
    BY <2>7, <2>9 DEF ChargeRefused
  <2>10. CASE AppendEvent \/ Crash \/ UNCHANGED vars
    BY <2>7, <2>10 DEF AppendEvent, Crash, vars, ledger
  <2> QED BY <2>2, <2>3, <2>4, <2>5, <2>6, <2>8, <2>9, <2>10, Steps
<1> QED BY <1>1, Typing, PTL DEF Spec, SpendingWithinTotal

-----------------------------------------------------------------------------
(* The books. *)

\* An appended row leaves the others alone.
LEMMA AppendKeeps ==
  ASSUME NEW R, NEW s \in Seq(R), NEW x \in R
  PROVE  \A i \in 1 .. Len(s) : i <= Len(Append(s, x)) /\ Append(s, x)[i] = s[i]
  OBVIOUS

\* Closing an open reservation leaves the closed ones alone.
LEMMA CloseKeeps ==
  ASSUME TypeOK, NEW k \in Open, NEW st \in ReservationStatus, Close(k, st)
  PROVE  \A i \in 1 .. Len(reservations) :
           /\ i <= Len(reservations')
           /\ reservations[i].status # "open" => reservations'[i] = reservations[i]
<1>1. k \in 1 .. Len(reservations) /\ reservations[k].status = "open"
  BY DEF Open
<1>2. Len(reservations') = Len(reservations)
  BY <1>1, CloseTyping
<1>3. reservations \in Seq(ReservationRow)
  BY DEF TypeOK, ReservationRow
<1>4. \A i \in 1 .. Len(reservations) : i # k => reservations'[i] = reservations[i]
  BY <1>3 DEF Close
<1> QED BY <1>1, <1>2, <1>3, <1>4

\* Expenses never change; a closed reservation never moves again.
THEOREM AppendOnly == Spec => BooksAppendOnly
<1> DEFINE ExpensesKept == \A i \in 1 .. Len(expenses) :
                              i <= Len(expenses') /\ expenses'[i] = expenses[i]
           ReservationsKept == \A i \in 1 .. Len(reservations) :
                /\ i <= Len(reservations')
                /\ reservations[i].status # "open" => reservations'[i] = reservations[i]
<1>1. TypeOK /\ [Next]_vars => [ExpensesKept /\ ReservationsKept]_vars
  <2> SUFFICES ASSUME TypeOK, Next PROVE ExpensesKept /\ ReservationsKept
    BY Zenon
  <2>1. expenses \in Seq(ExpenseRow) /\ reservations \in Seq(ReservationRow)
    BY DEF TypeOK, ExpenseRow, ReservationRow
  <2>2. expenses' = expenses => ExpensesKept
    BY <2>1
  <2>3. reservations' = reservations => ReservationsKept
    BY <2>1
  <2>4. ASSUME NEW a \in Nat, NEW m \in Refs \cup {Direct},
               expenses' = Append(expenses, [amount |-> a, memo |-> m])
        PROVE  ExpensesKept
    <3>1. [amount |-> a, memo |-> m] \in ExpenseRow
      BY DEF ExpenseRow
    <3> QED BY <2>1, <2>4, <3>1, AppendKeeps
  <2>5. ASSUME NEW a \in Amounts, ChargeAccepted(a) PROVE ExpensesKept /\ ReservationsKept
    BY <2>3, <2>4, <2>5, BudgetConstants DEF ChargeAccepted
  <2>6. ASSUME NEW a \in Amounts, NEW ref \in Refs, Reserve(a, ref)
        PROVE  ExpensesKept /\ ReservationsKept
    <3>1. [amount |-> a, ref |-> ref, status |-> "open"] \in ReservationRow
      BY BudgetConstants DEF ReservationRow, ReservationStatus
    <3>2. \A i \in 1 .. Len(reservations) :
             i <= Len(reservations') /\ reservations'[i] = reservations[i]
      BY <2>1, <2>6, <3>1, AppendKeeps DEF Reserve
    <3> QED BY <2>2, <2>6, <3>2 DEF Reserve
  <2>7. ASSUME NEW i \in 1 .. Len(reservations), Release(i)
        PROVE  ExpensesKept /\ ReservationsKept
    BY <2>2, <2>7, CloseKeeps DEF Release, ReservationStatus
  <2>8. ASSUME NEW i \in 1 .. Len(reservations), NEW a \in Amounts, CommitAccepted(i, a)
        PROVE  ExpensesKept /\ ReservationsKept
    <3>1. reservations[i].ref \in Refs
      BY <2>8, ReservationClosed DEF CommitAccepted
    <3> QED BY <2>4, <2>8, <3>1, CloseKeeps, BudgetConstants DEF CommitAccepted, ReservationStatus
  <2>9. ASSUME NEW i \in 1 .. Len(reservations), NEW a \in Amounts, CommitRefused(i, a)
        PROVE  ExpensesKept /\ ReservationsKept
    BY <2>2, <2>9, CloseKeeps DEF CommitRefused, ReservationStatus
  <2>10. ASSUME UNCHANGED <<expenses, reservations>> PROVE ExpensesKept /\ ReservationsKept
    BY <2>2, <2>3, <2>10
  <2>11. ASSUME NEW t \in Totals, SetTotal(t) PROVE ExpensesKept /\ ReservationsKept
    BY <2>10, <2>11 DEF SetTotal
  <2>12. ASSUME NEW a \in Amounts, ChargeRefused(a) PROVE ExpensesKept /\ ReservationsKept
    BY <2>10, <2>12 DEF ChargeRefused
  <2>13. CASE AppendEvent \/ Crash
    BY <2>10, <2>13 DEF AppendEvent, Crash, ledger
  <2> QED BY <2>5, <2>6, <2>7, <2>8, <2>9, <2>11, <2>12, <2>13, Steps
<1> QED BY <1>1, Typing, PTL DEF Spec, BooksAppendOnly

-----------------------------------------------------------------------------
(* The event log. *)

\* The rows that the events of ob are about.
Told(ob) == {ob[k].expense : k \in {j \in 1 .. Len(ob) : ob[j].kind = "EXPENSE_CHARGED"}}

\* What a threshold crossing says is about no row.
LEMMA CrossingTellsNothing ==
  ASSUME NEW t, NEW u
  PROVE  /\ CrossingAlert(t, u) = <<>> \/ \E k \in Alerts : CrossingAlert(t, u) = <<Alert(k)>>
         /\ Told(CrossingAlert(t, u)) = {}
         /\ \A n \in Nat : Told(<<ExpenseCharged(n)>> \o CrossingAlert(t, u)) = {n}
<1>1. CrossingAlert(t, u) = <<>> \/ \E k \in Alerts : CrossingAlert(t, u) = <<Alert(k)>>
  BY DEF CrossingAlert, Alerts
<1> DEFINE c == CrossingAlert(t, u)
<1> HIDE DEF c
<1>2. CASE c = <<>>
  <2>1. Told(c) = {}
    BY <1>2 DEF Told
  <2>2. ASSUME NEW n \in Nat PROVE Told(<<ExpenseCharged(n)>> \o c) = {n}
    <3> DEFINE ob == <<ExpenseCharged(n)>> \o c
    <3>1. Len(ob) = 1 /\ ob[1] = ExpenseCharged(n)
      BY <1>2
    <3> HIDE DEF ob
    <3>2. Told(ob) = {n}
      BY <3>1 DEF Told, ExpenseCharged
    <3> QED BY <3>2 DEF ob
  <2> QED BY <1>1, <2>1, <2>2 DEF c
<1>3. ASSUME NEW k \in Alerts, c = <<Alert(k)>>
      PROVE  Told(c) = {} /\ \A n \in Nat : Told(<<ExpenseCharged(n)>> \o c) = {n}
  <2>1. Len(c) = 1 /\ c[1] = Alert(k) /\ Alert(k).kind # "EXPENSE_CHARGED"
    BY <1>3 DEF Alert, Alerts
  <2>2. Told(c) = {}
    BY <2>1 DEF Told
  <2>3. ASSUME NEW n \in Nat PROVE Told(<<ExpenseCharged(n)>> \o c) = {n}
    <3> DEFINE ob == <<ExpenseCharged(n)>> \o c
    <3>1. Len(ob) = 2 /\ ob[1] = ExpenseCharged(n) /\ ob[2] = Alert(k)
      BY <1>3
    <3> HIDE DEF ob
    <3>2. {j \in 1 .. Len(ob) : ob[j].kind = "EXPENSE_CHARGED"} = {1}
      BY <2>1, <3>1 DEF ExpenseCharged
    <3>3. Told(ob) = {ob[1].expense}
      BY <3>2 DEF Told
    <3> QED BY <3>1, <3>3 DEF ob, ExpenseCharged
  <2> QED BY <2>2, <2>3
<1> QED BY <1>1, <1>2, <1>3 DEF c

\* Appending the first event tells its row, if it is about one.
LEMMA TellsTheHead ==
  ASSUME NEW ob \in Seq(Event), ob # <<>>
  PROVE  Told(ob) = Told(Tail(ob))
                    \cup (IF Head(ob).kind = "EXPENSE_CHARGED" THEN {Head(ob).expense} ELSE {})
<1> DEFINE n == Len(ob)
<1>1. n \in Nat \ {0} /\ Len(Tail(ob)) = n - 1 /\ Head(ob) = ob[1]
      /\ \A k \in 1 .. n - 1 : Tail(ob)[k] = ob[k + 1]
  OBVIOUS
<1> HIDE DEF n
<1>2. ASSUME NEW k \in 1 .. n - 1 PROVE k + 1 \in 1 .. n
  BY <1>1
<1>3. ASSUME NEW k \in 1 .. n, k # 1 PROVE k - 1 \in 1 .. n - 1 /\ Tail(ob)[k - 1] = ob[k]
  <2>1. k - 1 \in 1 .. n - 1 /\ (k - 1) + 1 = k
    BY <1>1, <1>3
  <2> QED BY <1>1, <2>1
<1>4. Told(ob) \subseteq Told(Tail(ob))
        \cup (IF Head(ob).kind = "EXPENSE_CHARGED" THEN {Head(ob).expense} ELSE {})
  <2> SUFFICES ASSUME NEW k \in 1 .. n, ob[k].kind = "EXPENSE_CHARGED"
               PROVE  ob[k].expense \in Told(Tail(ob))
                        \cup (IF Head(ob).kind = "EXPENSE_CHARGED" THEN {Head(ob).expense} ELSE {})
    BY DEF Told, n
  <2>1. CASE k = 1
    BY <1>1, <2>1
  <2>2. CASE k # 1
    BY <1>1, <1>3, <2>2 DEF Told
  <2> QED BY <2>1, <2>2
<1>5. Told(Tail(ob)) \subseteq Told(ob)
  BY <1>1, <1>2 DEF Told, n
<1>6. Head(ob).kind = "EXPENSE_CHARGED" => Head(ob).expense \in Told(ob)
  BY <1>1 DEF Told, n
<1> QED BY <1>4, <1>5, <1>6

\* What the outbox still tells.
LEMMA UnannouncedIsTold == Unannounced = Told(outbox) /\ Unannounced' = Told(outbox')
  BY DEF Unannounced, Told

\* A step that adds the row it tells, or neither.
LEMMA LogStays ==
  ASSUME LogMatchesBooks, Len(expenses) \in Nat, UNCHANGED <<charged, crashed>>, Idle,
         \/ expenses' = expenses /\ Told(outbox') = {}
         \/ Len(expenses') = Len(expenses) + 1 /\ Told(outbox') = {Len(expenses')}
  PROVE  LogMatchesBooks'
<1>1. Unannounced = {}
  BY UnannouncedIsTold DEF Idle, Told
<1>2. CASE expenses' = expenses /\ Told(outbox') = {}
  BY <1>1, <1>2, UnannouncedIsTold DEF LogMatchesBooks
<1>3. CASE Len(expenses') = Len(expenses) + 1 /\ Told(outbox') = {Len(expenses')}
  <2>1. 1 .. Len(expenses') = 1 .. Len(expenses) \cup {Len(expenses')}
    BY <1>3
  <2>2. Unannounced' = {Len(expenses')}
    BY <1>3, UnannouncedIsTold
  <2>3. charged \subseteq 1 .. Len(expenses) /\ (~ crashed => charged = 1 .. Len(expenses))
    BY <1>1 DEF LogMatchesBooks
  <2>4. charged' \cup Unannounced' \subseteq 1 .. Len(expenses')
    BY <2>1, <2>2, <2>3
  <2>5. ~ crashed' => charged' \cup Unannounced' = 1 .. Len(expenses')
    BY <2>1, <2>2, <2>3
  <2> QED BY <2>4, <2>5 DEF LogMatchesBooks
<1> QED BY <1>2, <1>3

\* The event log and the books agree: no crash between a commit and the appends
\* makes the log report an expense that the books do not hold, and until one
\* every expense is reported or its event is on its way.
THEOREM LogAndBooks == Spec => []LogMatchesBooks
<1>1. Init => LogMatchesBooks
  BY DEF Init, LogMatchesBooks, Unannounced
<1>2. TypeOK /\ LogMatchesBooks /\ [Next]_vars => LogMatchesBooks'
  <2> SUFFICES ASSUME TypeOK, LogMatchesBooks, [Next]_vars PROVE LogMatchesBooks'
    OBVIOUS
  <2>1. expenses \in Seq(ExpenseRow) /\ outbox \in Seq(Event) /\ Len(expenses) \in Nat
    BY DEF TypeOK, ExpenseRow
  <2>2. Told(<<Alert("BUDGET_BLOCKED")>>) = {}
    BY DEF Told, Alert
  <2>3. \A x : Len(Append(expenses, x)) = Len(expenses) + 1
    BY <2>1
  <2>4. ASSUME NEW t \in Totals, SetTotal(t) PROVE LogMatchesBooks'
    BY <2>1, <2>4, CrossingTellsNothing, LogStays DEF SetTotal, EvaluateThresholds
  <2>5. ASSUME NEW a \in Amounts, ChargeAccepted(a) PROVE LogMatchesBooks'
    BY <2>1, <2>3, <2>5, CrossingTellsNothing, LogStays DEF ChargeAccepted, EvaluateThresholds
  <2>6. ASSUME NEW a \in Amounts, ChargeRefused(a) PROVE LogMatchesBooks'
    BY <2>1, <2>2, <2>6, LogStays DEF ChargeRefused, Block
  <2>7. ASSUME NEW a \in Amounts, NEW ref \in Refs, Reserve(a, ref) PROVE LogMatchesBooks'
    BY <2>1, <2>7, CrossingTellsNothing, LogStays DEF Reserve, EvaluateThresholds
  <2>8. ASSUME NEW i \in 1 .. Len(reservations), Release(i) PROVE LogMatchesBooks'
    BY <2>1, <2>8, LogStays DEF Release, Idle, Told
  <2>9. ASSUME NEW i \in 1 .. Len(reservations), NEW a \in Amounts, CommitAccepted(i, a)
        PROVE  LogMatchesBooks'
    BY <2>1, <2>3, <2>9, CrossingTellsNothing, LogStays DEF CommitAccepted, EvaluateThresholds
  <2>10. ASSUME NEW i \in 1 .. Len(reservations), NEW a \in Amounts, CommitRefused(i, a)
         PROVE  LogMatchesBooks'
    BY <2>1, <2>2, <2>10, LogStays DEF CommitRefused, Block
  <2>11. CASE AppendEvent
    <3>1. UNCHANGED <<expenses, crashed>> /\ outbox' = Tail(outbox) /\ outbox # <<>>
      BY <2>11 DEF AppendEvent, ledger
    <3>2. charged' = charged \cup
            (IF Head(outbox).kind = "EXPENSE_CHARGED" THEN {Head(outbox).expense} ELSE {})
      BY <2>11 DEF AppendEvent, Alerts
    <3>3. charged' \cup Unannounced' = charged \cup Unannounced
      BY <2>1, <3>1, <3>2, TellsTheHead, UnannouncedIsTold
    <3> QED BY <3>1, <3>3 DEF LogMatchesBooks
  <2>12. CASE Crash
    <3>1. Unannounced' = {} /\ crashed' /\ UNCHANGED <<expenses, charged>>
      BY <2>12, UnannouncedIsTold DEF Crash, Told, ledger
    <3> QED BY <3>1 DEF LogMatchesBooks
  <2>13. CASE UNCHANGED vars
    BY <2>13 DEF vars, ledger, LogMatchesBooks, Unannounced
  <2> QED
    BY <2>4, <2>5, <2>6, <2>7, <2>8, <2>9, <2>10, <2>11, <2>12, <2>13, Steps
<1> QED BY <1>1, <1>2, Typing, PTL DEF Spec

-----------------------------------------------------------------------------
(* Subscriptions implements Budget. *)

\* Whatever a tick does to the books it does through the budget: with the
\* subscriptions on top, and crashes in the middle of a tick, a company's
\* budget still behaves as the Budget alone.
THEOREM SubscriptionsImplementBudget == SubSpec => Spec
<1>1. SubInit => Init
  BY DEF SubInit
<1>2. [SubNext]_allVars => [Next]_vars
  <2> SUFFICES ASSUME [SubNext]_allVars PROVE [Next]_vars
    OBVIOUS
  <2>1. ASSUME NEW s \in Subs, Bill(s) PROVE Next
    BY <2>1, SubscriptionConstants DEF Bill, Next
  <2>2. CASE Abort
    BY <2>2 DEF Abort, Next
  <2>3. CASE OtherSpending
    BY <2>3 DEF OtherSpending, Next
  <2>4. CASE AppendEvent /\ UNCHANGED subVars
    BY <2>4 DEF Next
  <2>5. CASE DayTick \/ Settle \/ (\E s \in Subs : Remove(s) \/ \E d \in 0 .. MaxDay : Add(s, d))
    BY <2>5 DEF DayTick, Settle, Remove, Add
  <2>6. CASE UNCHANGED allVars
    BY <2>6 DEF allVars
  <2> QED
    BY <2>1, <2>2, <2>3, <2>4, <2>5, <2>6 DEF SubNext
<1> QED
  BY <1>1, <1>2, PTL DEF SubSpec, Spec

\* Hence no order of ticks, crashes, reservations and new totals makes the two
\* flags of budget_state disagree or lets usage stand above the level recorded.
THEOREM SubscriptionsFlags == SubSpec => [](FlagsAgree /\ LimitIsFlagged)
  BY SubscriptionsImplementBudget, Flags, PTL

\* Nor does the charge of a subscription take a company over its total.
THEOREM SubscriptionsWithinTotal == SubSpec => SpendingWithinTotal
  BY SubscriptionsImplementBudget, WithinTotal, PTL

\* Nor does it upset the log of the expenses.
THEOREM SubscriptionsLog == SubSpec => []LogMatchesBooks
  BY SubscriptionsImplementBudget, LogAndBooks, PTL

-----------------------------------------------------------------------------
(* The periods billed. *)

\* The rows of a subscription have their types, whatever the rest spends.
THEOREM SubTyping == SubSpec => []SubTypeOK
<1> DEFINE Own == /\ day \in 0 .. MaxDay
                  /\ first \in [Subs -> 0 .. MaxDay \cup {None}]
                  /\ next \in [Subs -> Nat]
                  /\ active \subseteq Subs
                  /\ due \subseteq Subs
                  /\ billing \in Subs \cup {None}
                  /\ accepted \in BOOLEAN
                  /\ bills \in [Subs -> Nat] /\ deaths \in [Subs -> Nat]
<1>1. SubInit => Own
  <2> SUFFICES ASSUME SubInit PROVE Own
    OBVIOUS
  <2>1. day \in 0 .. MaxDay /\ first \in [Subs -> 0 .. MaxDay \cup {None}]
    BY SubscriptionConstants DEF SubInit
  <2>2. next \in [Subs -> Nat] /\ bills \in [Subs -> Nat] /\ deaths \in [Subs -> Nat]
    BY DEF SubInit
  <2>3. active \subseteq Subs /\ due \subseteq Subs /\ billing \in Subs \cup {None}
        /\ accepted \in BOOLEAN
    BY DEF SubInit
  <2> QED BY <2>1, <2>2, <2>3
<1>2. Own /\ [SubNext]_allVars => Own'
  <2> SUFFICES ASSUME Own, [SubNext]_allVars PROVE Own'
    OBVIOUS
  <2> USE SubscriptionConstants
  <2>1. CASE UNCHANGED subVars
    BY <2>1 DEF subVars
  <2>2. ASSUME NEW s \in Subs, Remove(s) PROVE Own'
    BY <2>2 DEF Remove
  <2>3. ASSUME NEW s \in Subs, Bill(s) PROVE Own'
    <3>1. /\ UNCHANGED <<day, first, next, active, deaths>>
          /\ due' \subseteq due /\ billing' = s /\ accepted' \in BOOLEAN
          /\ bills' = bills \/ bills' = [bills EXCEPT ![s] = bills[s] + 1]
      BY <2>3 DEF Bill
    <3>2. bills' \in [Subs -> Nat]
      BY <3>1
    <3> QED BY <3>1, <3>2
  <2>4. ASSUME NEW s \in Subs, NEW d \in 0 .. MaxDay, Add(s, d) PROVE Own'
    BY <2>4 DEF Add
  <2>5. CASE DayTick
    BY <2>5 DEF DayTick, Due
  <2>6. CASE Settle
    <3>1. /\ UNCHANGED <<day, first, due, bills, deaths>>
          /\ billing # None /\ billing' = None /\ accepted' = FALSE /\ active' \subseteq active
          /\ next' = next \/ next' = [next EXCEPT ![billing] = next[billing] + Period]
      BY <2>6 DEF Settle
    <3>2. next' \in [Subs -> Nat]
      BY <3>1
    <3> QED BY <3>1, <3>2
  <2>7. CASE Abort
    <3>1. /\ UNCHANGED <<day, first, next, active, bills>>
          /\ due' = {} /\ billing' = None /\ accepted' = FALSE
          /\ \/ deaths' = deaths
             \/ billing # None /\ deaths' = [deaths EXCEPT ![billing] = deaths[billing] + 1]
      BY <2>7 DEF Abort
    <3>2. deaths' \in [Subs -> Nat]
      BY <3>1
    <3> QED BY <3>1, <3>2
  <2> QED
    BY <2>1, <2>2, <2>3, <2>4, <2>5, <2>6, <2>7 DEF SubNext, OtherSpending, allVars
<1>3. SubSpec => []Own
  BY <1>1, <1>2, PTL DEF SubSpec
<1>4. SubSpec => []TypeOK
  BY SubscriptionsImplementBudget, Typing, PTL
<1>5. TypeOK /\ Own => SubTypeOK
  BY DEF SubTypeOK
<1> QED BY <1>3, <1>4, <1>5, PTL

\* The charge of s was accepted and its due day is still to be moved.
Pending(s) == billing = s /\ accepted

\* The periods of s that were paid and settled.
Settled(s) == bills[s] - deaths[s] - (IF Pending(s) THEN 1 ELSE 0)

\* The due day of a subscription stands behind the periods settled, the last of
\* which has begun; what a tick has still to charge or to settle is due.
PaidUpTo(s) ==
    /\ Settled(s) \in Nat
    /\ first[s] = None => bills[s] = 0 /\ s \notin active /\ s # billing
    /\ first[s] # None => next[s] = first[s] + Settled(s) * Period
    /\ first[s] # None /\ Settled(s) > 0 => first[s] + (Settled(s) - 1) * Period <= day
    /\ s \in due => first[s] # None /\ next[s] <= day
    /\ Pending(s) => first[s] # None /\ next[s] <= day /\ s \notin due

BillInv == SubTypeOK /\ \A s \in Subs : PaidUpTo(s)

\* As long as the charges of s stand, a later day and a shorter list of what is
\* due change nothing.
LEMMA ChargesStand ==
  ASSUME NEW s \in Subs, SubTypeOK, SubTypeOK', PaidUpTo(s),
         bills'[s] = bills[s], deaths'[s] = deaths[s],
         first'[s] = first[s], next'[s] = next[s], day' >= day,
         s \in active' => s \in active,
         s \in due' => s \in active /\ next[s] <= day',
         Pending(s)' = Pending(s), Pending(s)' => s \notin due', billing' = s => billing = s
  PROVE  PaidUpTo(s)'
<1>1. Settled(s)' = Settled(s)
  BY DEF Settled
<1>2. day \in Int /\ day' \in Int /\ Settled(s) \in Nat
  BY SubscriptionConstants DEF SubTypeOK, PaidUpTo
<1>3. next[s] <= day => next[s] <= day'
  BY <1>2 DEF SubTypeOK
<1>4. first[s] # None /\ Settled(s) > 0 => first[s] + (Settled(s) - 1) * Period <= day'
  <2> SUFFICES ASSUME first[s] # None, Settled(s) > 0
               PROVE  first[s] + (Settled(s) - 1) * Period <= day'
    OBVIOUS
  <2>1. first[s] \in Nat /\ (Settled(s) - 1) * Period \in Int
    BY <1>2, SubscriptionConstants DEF SubTypeOK
  <2>2. first[s] + (Settled(s) - 1) * Period <= day
    BY DEF PaidUpTo
  <2> QED BY <1>2, <2>1, <2>2
<1>5. first[s] = None => s \notin due /\ s # billing
  BY DEF PaidUpTo
<1>6. s \in due' => first[s] # None
  BY DEF PaidUpTo
<1> QED BY <1>1, <1>2, <1>3, <1>4, <1>5, <1>6 DEF PaidUpTo

\* Hence the number of periods billed.
LEMMA PeriodsCounted == BillInv => BilledPerPeriod
<1> SUFFICES ASSUME BillInv, NEW s \in Subs
             PROVE  bills[s] <= deaths[s] + Cardinality(
                      {p \in 0 .. MaxDay : first[s] # None /\ first[s] + p * Period <= day})
  BY DEF BilledPerPeriod
<1> DEFINE P == {p \in 0 .. MaxDay : first[s] # None /\ first[s] + p * Period <= day}
           n == bills[s] - deaths[s]
<1>1. /\ bills[s] \in Nat /\ deaths[s] \in Nat /\ day \in 0 .. MaxDay /\ next[s] \in Nat
      /\ first[s] # None => first[s] \in Nat
      /\ Period \in Nat \ {0} /\ MaxDay \in Nat
  BY SubscriptionConstants DEF BillInv, SubTypeOK
<1>2. PaidUpTo(s)
  BY DEF BillInv
<1>3. Settled(s) \in Nat /\ n \in Nat /\ n = Settled(s) + (IF Pending(s) THEN 1 ELSE 0)
  BY <1>1, <1>2 DEF PaidUpTo, Settled
<1>4. IsFiniteSet(P) /\ Cardinality(P) \in Nat
  <2>1. IsFiniteSet(0 .. MaxDay)
    BY <1>1, FS_Interval
  <2>2. P \subseteq 0 .. MaxDay
    OBVIOUS
  <2>3. IsFiniteSet(P)
    BY <2>1, <2>2, FS_Subset
  <2> QED BY <2>3, FS_CardinalityType
<1>5. CASE n = 0
  BY <1>1, <1>4, <1>5
<1>6. CASE n > 0
  <2>1. first[s] # None /\ first[s] \in Nat
    BY <1>1, <1>2, <1>6 DEF PaidUpTo
  <2>2. first[s] + (n - 1) * Period <= day
    <3>1. CASE Pending(s)
      <4>1. n - 1 = Settled(s)
        BY <1>3, <3>1
      <4> QED BY <1>2, <2>1, <3>1, <4>1 DEF PaidUpTo
    <3>2. CASE ~ Pending(s)
      <4>1. n = Settled(s)
        BY <1>3, <3>2
      <4> QED BY <1>2, <1>6, <2>1, <4>1 DEF PaidUpTo
    <3> QED BY <3>1, <3>2
  <2> HIDE DEF n
  <2>3. ASSUME NEW p \in 0 .. n - 1 PROVE p \in 0 .. MaxDay /\ first[s] + p * Period <= day
    <3>1. p \in Nat /\ p <= n - 1 /\ n - 1 - p \in Nat
      BY <1>3, <2>3
    <3>2. (n - 1 - p) * Period \in Nat /\ p * Period \in Nat
      BY <1>1, <3>1
    <3>3. (n - 1) * Period = p * Period + (n - 1 - p) * Period
      BY <1>1, <1>3, <3>1
    <3>4. first[s] + p * Period <= day
      BY <1>1, <2>1, <2>2, <3>2, <3>3
    <3>5. p <= p * Period
      <4>1. PICK q \in Nat : Period = q + 1
        BY <1>1
      <4>2. p * Period = p * q + p /\ p * q \in Nat
        BY <3>1, <4>1
      <4> QED BY <3>1, <4>2
    <3>6. p <= MaxDay
      BY <1>1, <2>1, <3>1, <3>2, <3>4, <3>5
    <3> QED BY <3>1, <3>4, <3>6, <1>1
  <2>4. 0 .. n - 1 \subseteq P
    BY <2>1, <2>3
  <2>5. Cardinality(0 .. n - 1) = n
    <3>1. n - 1 \in Int /\ 0 <= n - 1
      BY <1>3, <1>6
    <3>2. Cardinality(0 .. n - 1) = (n - 1) - 0 + 1
      BY <3>1, FS_Interval
    <3> QED BY <1>3, <3>2
  <2>6. n <= Cardinality(P)
    <3> HIDE DEF P
    <3>1. Cardinality(0 .. n - 1) <= Cardinality(P)
      BY <1>4, <2>4, FS_Subset
    <3> QED BY <2>5, <3>1
  <2> QED BY <1>1, <1>4, <2>6 DEF n
<1> QED BY <1>3, <1>5, <1>6

\* However many subscriptions a tick charges and whatever is refused, removed or
\* cancelled, a subscription is billed once for each period that has begun; only
\* a crash between a charge and its update bills a period twice.
THEOREM PeriodsBilledOnce == SubSpec => []BilledPerPeriod
<1>1. SubInit /\ SubTypeOK => BillInv
  BY SubscriptionConstants DEF SubInit, BillInv, PaidUpTo, Settled, Pending
<1>2. BillInv /\ SubTypeOK' /\ [SubNext]_allVars => BillInv'
  <2> SUFFICES ASSUME BillInv, SubTypeOK', [SubNext]_allVars, NEW s \in Subs
               PROVE  PaidUpTo(s)'
    BY DEF BillInv
  <2> USE SubscriptionConstants
  <2>1. SubTypeOK /\ PaidUpTo(s)
    BY DEF BillInv
  <2>2. /\ day \in Nat /\ day' \in Nat
        /\ first[s] # None => first[s] \in Nat
        /\ next[s] \in Nat /\ bills[s] \in Nat /\ deaths[s] \in Nat
    BY <2>1 DEF SubTypeOK
  <2>3. first[s] = None => s \notin due /\ s # billing /\ s \notin active
    BY <2>1 DEF PaidUpTo
  <2>4. CASE UNCHANGED subVars
    BY <2>1, <2>4 DEF subVars, PaidUpTo, Settled, Pending
  <2>5. ASSUME NEW r \in Subs, Remove(r) PROVE PaidUpTo(s)'
    <3>1. UNCHANGED <<day, first, next, due, billing, accepted, bills, deaths>>
          /\ active' \subseteq active
      BY <2>5 DEF Remove
    <3> QED BY <2>1, <3>1 DEF PaidUpTo, Settled, Pending
  <2>6. ASSUME NEW r \in Subs, NEW d \in 0 .. MaxDay, Add(r, d) PROVE PaidUpTo(s)'
    <3>1. /\ UNCHANGED <<day, due, billing, accepted, bills, deaths>>
          /\ first[r] = None /\ first' = [first EXCEPT ![r] = d] /\ next' = [next EXCEPT ![r] = d]
          /\ active' = active \cup {r}
          /\ due = {} /\ billing = None
      BY <2>6 DEF Add, LoopFree
    <3>2. CASE r # s
      <4>1. first'[s] = first[s] /\ next'[s] = next[s] /\ (s \in active' => s \in active)
        BY <2>1, <3>1, <3>2 DEF SubTypeOK
      <4>2. Pending(s)' = Pending(s)
        BY <3>1 DEF Pending
      <4> QED BY <2>1, <2>2, <3>1, <4>1, <4>2 DEF PaidUpTo, Settled, Pending
    <3>3. CASE r = s
      <4>1. first'[s] = d /\ next'[s] = d /\ d # None /\ d \in Nat
        BY <2>1, <3>1, <3>3 DEF SubTypeOK
      <4>2. ~ Pending(s) /\ ~ Pending(s)' /\ s \notin due' /\ s # billing'
        BY <3>1 DEF Pending
      <4>3. bills[s] = 0 /\ bills[s] - deaths[s] \in Nat
        BY <2>1, <2>2, <3>1, <3>3, <4>2 DEF PaidUpTo, Settled
      <4>4. Settled(s)' = 0
        <5>1. bills[s] - deaths[s] = 0
          BY <2>2, <4>3
        <5> QED BY <3>1, <4>2, <5>1 DEF Settled
      <4>5. d + 0 * Period = d
        BY <4>1
      <4> QED BY <4>1, <4>2, <4>4, <4>5 DEF PaidUpTo
    <3> QED BY <3>2, <3>3
  <2>7. CASE DayTick
    <3>1. /\ UNCHANGED <<first, next, active, billing, accepted, bills, deaths>>
          /\ day' = day + 1 /\ due' = {t \in active : next[t] <= day'}
      BY <2>7 DEF DayTick, Due
    <3>2. Pending(s)' = Pending(s) /\ day' >= day /\ ~ Pending(s)
      BY <2>2, <2>7, <3>1 DEF Pending, DayTick, LoopFree
    <3> QED BY <2>1, <2>3, <3>1, <3>2, ChargesStand
  <2>8. ASSUME NEW r \in Subs, Bill(r) PROVE PaidUpTo(s)'
    <3>1. /\ UNCHANGED <<day, first, next, active, deaths>>
          /\ billing = None /\ r \in due /\ due' = due \ {r} /\ billing' = r
          /\ \/ accepted' /\ bills' = [bills EXCEPT ![r] = @ + 1]
             \/ ~ accepted' /\ bills' = bills
      BY <2>8 DEF Bill
    <3>2. ~ Pending(s)
      BY <3>1 DEF Pending
    <3>3. CASE r # s
      <4>1. bills'[s] = bills[s] /\ ~ Pending(s)' /\ s # billing' /\ (s \in due' => s \in due)
        BY <2>1, <3>1, <3>3 DEF Pending, SubTypeOK
      <4>2. Settled(s)' = Settled(s)
        BY <3>1, <3>2, <4>1 DEF Settled
      <4> QED BY <2>1, <3>1, <4>1, <4>2 DEF PaidUpTo
    <3>4. CASE r = s
      <4>1. first[s] # None /\ next[s] <= day /\ s \notin due'
        BY <2>1, <3>1, <3>4 DEF PaidUpTo
      <4>2. Settled(s)' = Settled(s)
        <5>1. CASE accepted'
          <6>1. bills'[s] = bills[s] + 1 /\ Pending(s)'
            BY <2>1, <3>1, <3>4, <5>1 DEF Pending, SubTypeOK
          <6> QED BY <2>2, <3>1, <3>2, <6>1 DEF Settled
        <5>2. CASE ~ accepted'
          <6>1. bills'[s] = bills[s] /\ ~ Pending(s)'
            BY <3>1, <5>2 DEF Pending
          <6> QED BY <3>1, <3>2, <6>1 DEF Settled
        <5> QED BY <5>1, <5>2
      <4> QED BY <2>1, <3>1, <4>1, <4>2 DEF PaidUpTo
    <3> QED BY <3>3, <3>4
  <2>9. CASE Settle
    <3>1. /\ UNCHANGED <<day, first, due, bills, deaths>>
          /\ billing' = None
          /\ active' \subseteq active
          /\ \/ accepted /\ next' = [next EXCEPT ![billing] = @ + Period]
             \/ ~ accepted /\ next' = next
      BY <2>9 DEF Settle
    <3>2. ~ Pending(s)'
      BY <3>1 DEF Pending
    <3>3. CASE ~ Pending(s)
      <4>1. next'[s] = next[s]
        BY <2>1, <3>1, <3>3 DEF Pending, SubTypeOK
      <4>2. Settled(s)' = Settled(s)
        BY <3>1, <3>2, <3>3 DEF Settled
      <4> QED BY <2>1, <3>1, <3>2, <4>1, <4>2 DEF PaidUpTo
    <3>4. CASE Pending(s)
      <4>1. billing = s /\ first[s] # None /\ next[s] <= day /\ next[s] = first[s] + Settled(s) * Period
        BY <2>1, <3>4 DEF Pending, PaidUpTo
      <4>2. next'[s] = next[s] + Period
        BY <2>1, <3>1, <3>4, <4>1 DEF Pending, SubTypeOK
      <4>3. Settled(s) \in Nat /\ Settled(s)' = Settled(s) + 1
        <5>1. Settled(s) = bills[s] - deaths[s] - 1 /\ Settled(s)' = bills[s] - deaths[s]
          BY <2>2, <3>1, <3>2, <3>4 DEF Settled
        <5> QED BY <2>1, <2>2, <5>1 DEF PaidUpTo
      <4>4. (Settled(s) + 1) * Period = Settled(s) * Period + Period
        BY <4>3
      <4>5. next'[s] = first[s] + Settled(s)' * Period
        BY <2>2, <4>1, <4>2, <4>3, <4>4
      <4>6. first[s] + (Settled(s)' - 1) * Period <= day
        BY <4>1, <4>3
      <4>7. s \notin due
        BY <2>1, <3>4 DEF PaidUpTo
      <4> QED BY <3>1, <3>2, <4>1, <4>3, <4>5, <4>6, <4>7 DEF PaidUpTo
    <3> QED BY <3>3, <3>4
  <2>10. CASE Abort
    <3>1. /\ UNCHANGED <<day, first, next, active, bills>>
          /\ due' = {} /\ billing' = None
          /\ deaths' = IF billing # None /\ accepted
                       THEN [deaths EXCEPT ![billing] = @ + 1] ELSE deaths
      BY <2>10 DEF Abort
    <3>2. ~ Pending(s)'
      BY <3>1 DEF Pending
    <3>3. deaths'[s] = deaths[s] + (IF Pending(s) THEN 1 ELSE 0)
      BY <2>1, <2>2, <3>1 DEF Pending, SubTypeOK
    <3>4. Settled(s)' = Settled(s)
      BY <2>2, <3>1, <3>2, <3>3 DEF Settled
    <3> QED BY <2>1, <3>1, <3>2, <3>4 DEF PaidUpTo
  <2> QED
    BY <2>4, <2>5, <2>6, <2>7, <2>8, <2>9, <2>10 DEF SubNext, OtherSpending, allVars
<1> QED BY <1>1, <1>2, SubTyping, PeriodsCounted, PTL DEF SubSpec
=============================================================================
