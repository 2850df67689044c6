--------------------------- MODULE ApprovalsProofs --------------------------
(***************************************************************************)
(* Proofs about the approval queue, for any requests, kinds, deciders and  *)
(* timeouts: typing, the security gate, the finality of outcomes, the      *)
(* closing events, and that the queue implements ApprovalPromise.  Then    *)
(* the same for Governance, which implements the queue, and its vetoes.    *)
(***************************************************************************)
EXTENDS Governance, FiniteSetTheorems, TLAPS

\* A row is never the absent row.
LEMMA RowExists ==
  ASSUME NEW x \in Row
  PROVE  x # NoRow
<1>1. x.status \in Status
  BY DEF Row
<1>2. NoRow.status = "none" /\ "none" \notin Status
  BY DEF NoRow, Status
<1> QED BY <1>1, <1>2

\* The row of an existing request.
LEMMA ExistingRow ==
  ASSUME TypeOK, NEW r \in Requests, Exists(r)
  PROVE  approvals[r] \in Row
  BY DEF TypeOK, Exists

\* A step keeps the types of the approvals table and of its events.
LEMMA TypingStep ==
  ASSUME TypeOK, [Next]_vars
  PROVE  TypeOK'
<1>1. ASSUME NEW r \in Requests, NEW k \in Kinds, NEW t \in Targets, NEW f \in BOOLEAN,
             Request(r, k, t, f)
      PROVE  TypeOK'
  <2> DEFINE x == [kind |-> k, target |-> t,
                   requireSecurity |-> f \/ k \in SecurityKinds,
                   status |-> "pending", securityDecision |-> "none",
                   decidedBy |-> Nobody,
                   expiresAt |-> now + Timeout[k]]
  <2>1. now + Timeout[k] \in Nat
    BY ApprovalConstants DEF TypeOK
  <2>2. x \in Row
    BY <2>1 DEF Row, Status
  <2>3. approvals' = [approvals EXCEPT ![r] = x]
    BY <1>1 DEF Request
  <2> HIDE DEF x
  <2>4. approvals' \in [Requests -> Row \cup {NoRow}]
    BY <2>2, <2>3 DEF TypeOK
  <2>5. unsent' \subseteq [kind : EventKinds, id : Requests]
    BY <1>1 DEF Request, Emit, EventKinds
  <2> QED BY <1>1, <2>4, <2>5 DEF Request, TypeOK
<1>2. ASSUME NEW r \in Requests, NEW who \in Deciders, DecideVeto(r, who) PROVE TypeOK'
  <2> DEFINE x == [approvals[r] EXCEPT !.securityDecision = "deny",
                                       !.status = "denied", !.decidedBy = who]
  <2>1. approvals[r] \in Row
    BY <1>2, ExistingRow DEF DecideVeto, Decidable
  <2>2. x \in Row
    BY <2>1 DEF Row, Status, Decision
  <2>3. approvals' = [approvals EXCEPT ![r] = x]
    BY <1>2 DEF DecideVeto
  <2> HIDE DEF x
  <2>4. approvals' \in [Requests -> Row \cup {NoRow}]
    BY <2>2, <2>3 DEF TypeOK
  <2>5. unsent' \subseteq [kind : EventKinds, id : Requests]
    BY <1>2 DEF DecideVeto, Emit, EventKinds
  <2> QED BY <1>2, <2>4, <2>5 DEF DecideVeto, TypeOK
<1>3. ASSUME NEW r \in Requests, NEW who \in Deciders, DecideClear(r, who) PROVE TypeOK'
  <2> DEFINE x == [approvals[r] EXCEPT !.securityDecision = "approve"]
  <2>1. approvals[r] \in Row
    BY <1>3, ExistingRow DEF DecideClear, Decidable
  <2>2. x \in Row
    BY <2>1 DEF Row, Decision
  <2>3. approvals' = [approvals EXCEPT ![r] = x]
    BY <1>3 DEF DecideClear
  <2> HIDE DEF x
  <2>4. approvals' \in [Requests -> Row \cup {NoRow}]
    BY <2>2, <2>3 DEF TypeOK
  <2> QED BY <1>3, <2>4 DEF DecideClear, TypeOK
<1>4. ASSUME NEW r \in Requests, NEW who \in Deciders, NEW d \in Decision,
             DecideFinal(r, who, d)
      PROVE  TypeOK'
  <2> DEFINE x == [approvals[r] EXCEPT
                     !.status = IF d = "approve" THEN "approved" ELSE "denied",
                     !.decidedBy = who]
  <2>1. approvals[r] \in Row
    BY <1>4, ExistingRow DEF DecideFinal, Decidable
  <2>2. x \in Row
    BY <2>1 DEF Row, Status
  <2>3. approvals' = [approvals EXCEPT ![r] = x]
    BY <1>4 DEF DecideFinal
  <2> HIDE DEF x
  <2>4. approvals' \in [Requests -> Row \cup {NoRow}]
    BY <2>2, <2>3 DEF TypeOK
  <2>5. unsent' \subseteq [kind : EventKinds, id : Requests]
    BY <1>4 DEF DecideFinal, Emit, EventKinds
  <2> QED BY <1>4, <2>4, <2>5 DEF DecideFinal, TypeOK
<1>5. ASSUME NEW r \in Requests, NEW who \in Deciders, Cancel(r, who) PROVE TypeOK'
  <2> DEFINE x == [approvals[r] EXCEPT !.status = "cancelled", !.decidedBy = who]
  <2>1. approvals[r] \in Row
    BY <1>5, ExistingRow DEF Cancel, Decidable
  <2>2. x \in Row
    BY <2>1 DEF Row, Status
  <2>3. approvals' = [approvals EXCEPT ![r] = x]
    BY <1>5 DEF Cancel
  <2> HIDE DEF x
  <2>4. approvals' \in [Requests -> Row \cup {NoRow}]
    BY <2>2, <2>3 DEF TypeOK
  <2>5. unsent' \subseteq [kind : EventKinds, id : Requests]
    BY <1>5 DEF Cancel, Emit, EventKinds
  <2> QED BY <1>5, <2>4, <2>5 DEF Cancel, TypeOK
<1>6. CASE ProcessTimeouts
  <2>1. ASSUME NEW r \in Requests PROVE approvals'[r] \in Row \cup {NoRow}
    <3>1. CASE r \in Expired
      <4> DEFINE st == IF approvals[r].kind \in AutoDenyKinds THEN "denied" ELSE "timeout"
      <4>1. approvals[r] \in Row
        BY <3>1, ExistingRow DEF Expired
      <4>2. st \in Status
        BY DEF Status
      <4>3. approvals'[r] = [approvals[r] EXCEPT !.status = st]
        BY <1>6, <3>1 DEF ProcessTimeouts
      <4> HIDE DEF st
      <4> QED BY <4>1, <4>2, <4>3 DEF Row
    <3>2. CASE r \notin Expired
      BY <1>6, <3>2 DEF ProcessTimeouts, TypeOK
    <3> QED BY <3>1, <3>2
  <2>2. approvals' \in [Requests -> Row \cup {NoRow}]
    BY <1>6, <2>1 DEF ProcessTimeouts
  <2>3. unsent' \subseteq [kind : EventKinds, id : Requests]
    BY <1>6 DEF ProcessTimeouts, Emit, EventKinds, Expired
  <2> QED BY <1>6, <2>2, <2>3 DEF ProcessTimeouts, TypeOK
<1>7. CASE AppendEvent
  BY <1>7 DEF AppendEvent, TypeOK
<1>8. CASE Crash
  BY <1>8 DEF Crash, TypeOK
<1>9. CASE Tick
  BY <1>9, ApprovalConstants DEF Tick, TypeOK
<1>10. CASE UNCHANGED vars
  BY <1>10 DEF vars, TypeOK
<1> QED BY <1>1, <1>2, <1>3, <1>4, <1>5, <1>6, <1>7, <1>8, <1>9, <1>10 DEF Next, Decide

\* The queue starts with its types.
LEMMA InitTyping ==
  ASSUME Init
  PROVE  TypeOK
<1>1. approvals \in [Requests -> Row \cup {NoRow}]
  BY DEF Init
<1>2. now \in 0 .. MaxTime
  BY ApprovalConstants DEF Init
<1>3. closings \in [Requests -> Nat]
  BY DEF Init
<1> QED BY <1>1, <1>2, <1>3 DEF Init, TypeOK

\* The type invariant of the approvals table and its events.
THEOREM Typing == Spec => []TypeOK
<1>1. Init => TypeOK
  BY InitTyping
<1>2. TypeOK /\ [Next]_vars => TypeOK'
  BY TypingStep
<1> QED BY <1>1, <1>2, PTL DEF Spec

-----------------------------------------------------------------------------
(* What the steps do to one row. *)

\* The rows a step leaves alone.
RowKept(q) == approvals'[q] = approvals[q]

\* Every step touches only pending or absent rows, and a row it touches
\* changes in one of these ways.
RowOpened(q) ==
    ~ Exists(q) /\ Exists(q)' /\ Pending(q)' /\ approvals'[q].securityDecision = "none"
RowVetoed(q) ==
    /\ Exists(q) /\ Pending(q) /\ InSecurityStep(q) /\ Exists(q)'
    /\ approvals'[q].status = "denied" /\ approvals'[q].securityDecision = "deny"
RowCleared(q) ==
    /\ Exists(q) /\ Pending(q) /\ InSecurityStep(q) /\ Exists(q)' /\ Pending(q)'
    /\ approvals'[q].securityDecision = "approve"
RowApproved(q) ==
    /\ Exists(q) /\ Pending(q) /\ ~ InSecurityStep(q) /\ Exists(q)'
    /\ approvals'[q].status = "approved"
    /\ approvals'[q].securityDecision = approvals[q].securityDecision
    /\ approvals'[q].requireSecurity = approvals[q].requireSecurity
RowRefused(q) ==
    /\ Exists(q) /\ Pending(q) /\ Exists(q)'
    /\ approvals'[q].status \in {"denied", "cancelled", "timeout"}
    /\ approvals'[q].securityDecision = approvals[q].securityDecision

\* The step moves one row and keeps the others.
Only(r, P) == P /\ \A q \in Requests : q # r => RowKept(q)

LEMMA RequestRow ==
  ASSUME TypeOK, NEW r \in Requests, NEW k \in Kinds, NEW t \in Targets, NEW f \in BOOLEAN,
         Request(r, k, t, f), TypeOK'
  PROVE  Only(r, RowOpened(r))
<1>1. ~ Exists(r)
  BY DEF Request
<1>2. approvals'[r].status = "pending" /\ approvals'[r].securityDecision = "none"
  BY DEF Request, TypeOK
<1>3. approvals'[r] # NoRow
  BY <1>2 DEF NoRow
<1>4. \A q \in Requests : q # r => RowKept(q)
  BY DEF Request, TypeOK, RowKept
<1> QED BY <1>1, <1>2, <1>3, <1>4 DEF Only, RowOpened, Exists, Pending

LEMMA VetoRow ==
  ASSUME TypeOK, NEW r \in Requests, NEW who \in Deciders, DecideVeto(r, who)
  PROVE  Only(r, RowVetoed(r))
<1>1. approvals[r] \in Row /\ Exists(r) /\ Pending(r) /\ InSecurityStep(r)
  BY ExistingRow DEF DecideVeto, Decidable
<1>2. approvals'[r].status = "denied" /\ approvals'[r].securityDecision = "deny"
  BY <1>1 DEF DecideVeto, TypeOK, Row
<1>3. approvals'[r] # NoRow
  BY <1>2 DEF NoRow
<1>4. \A q \in Requests : q # r => RowKept(q)
  BY DEF DecideVeto, TypeOK, RowKept
<1> QED BY <1>1, <1>2, <1>3, <1>4 DEF Only, RowVetoed, Exists

LEMMA ClearRow ==
  ASSUME TypeOK, NEW r \in Requests, NEW who \in Deciders, DecideClear(r, who)
  PROVE  Only(r, RowCleared(r))
<1>1. approvals[r] \in Row /\ Exists(r) /\ Pending(r) /\ InSecurityStep(r)
  BY ExistingRow DEF DecideClear, Decidable
<1>2. approvals'[r].status = "pending" /\ approvals'[r].securityDecision = "approve"
  BY <1>1 DEF DecideClear, TypeOK, Row, Pending
<1>3. approvals'[r] # NoRow
  BY <1>2 DEF NoRow
<1>4. \A q \in Requests : q # r => RowKept(q)
  BY DEF DecideClear, TypeOK, RowKept
<1> QED BY <1>1, <1>2, <1>3, <1>4 DEF Only, RowCleared, Exists, Pending

LEMMA FinalRow ==
  ASSUME TypeOK, NEW r \in Requests, NEW who \in Deciders, NEW d \in Decision,
         DecideFinal(r, who, d)
  PROVE  Only(r, RowApproved(r)) \/ Only(r, RowRefused(r))
<1>1. approvals[r] \in Row /\ Exists(r) /\ Pending(r) /\ ~ InSecurityStep(r)
  BY ExistingRow DEF DecideFinal, Decidable
<1>2. /\ approvals'[r].status = IF d = "approve" THEN "approved" ELSE "denied"
      /\ approvals'[r].securityDecision = approvals[r].securityDecision
      /\ approvals'[r].requireSecurity = approvals[r].requireSecurity
  BY <1>1 DEF DecideFinal, TypeOK, Row
<1>3. approvals'[r] # NoRow
  BY <1>2 DEF NoRow
<1>4. \A q \in Requests : q # r => RowKept(q)
  BY DEF DecideFinal, TypeOK, RowKept
<1> QED BY <1>1, <1>2, <1>3, <1>4 DEF Only, RowApproved, RowRefused, Exists

LEMMA CancelRow ==
  ASSUME TypeOK, NEW r \in Requests, NEW who \in Deciders, Cancel(r, who)
  PROVE  Only(r, RowRefused(r))
<1>1. approvals[r] \in Row /\ Exists(r) /\ Pending(r)
  BY ExistingRow DEF Cancel, Decidable
<1>2. /\ approvals'[r].status = "cancelled"
      /\ approvals'[r].securityDecision = approvals[r].securityDecision
  BY <1>1 DEF Cancel, TypeOK, Row
<1>3. approvals'[r] # NoRow
  BY <1>2 DEF NoRow
<1>4. \A q \in Requests : q # r => RowKept(q)
  BY DEF Cancel, TypeOK, RowKept
<1> QED BY <1>1, <1>2, <1>3, <1>4 DEF Only, RowRefused, Exists

LEMMA TimeoutRows ==
  ASSUME TypeOK, ProcessTimeouts
  PROVE  \A q \in Requests : IF q \in Expired THEN RowRefused(q) ELSE RowKept(q)
<1> SUFFICES ASSUME NEW q \in Requests
             PROVE  IF q \in Expired THEN RowRefused(q) ELSE RowKept(q)
  OBVIOUS
<1>1. CASE q \notin Expired
  BY <1>1 DEF ProcessTimeouts, RowKept
<1>2. CASE q \in Expired
  <2>1. approvals[q] \in Row /\ Exists(q) /\ Pending(q)
    BY <1>2, ExistingRow DEF Expired
  <2>2. /\ approvals'[q].status \in {"denied", "timeout"}
        /\ approvals'[q].securityDecision = approvals[q].securityDecision
    BY <1>2, <2>1 DEF ProcessTimeouts, Row
  <2>3. approvals'[q] # NoRow
    BY <2>2 DEF NoRow
  <2> QED BY <1>2, <2>1, <2>2, <2>3 DEF RowRefused, Exists
<1> QED BY <1>1, <1>2

\* The steps that do not write the table.
LEMMA QuietSteps ==
  ASSUME AppendEvent \/ Crash \/ Tick \/ UNCHANGED vars
  PROVE  approvals' = approvals
  BY DEF AppendEvent, Crash, Tick, vars

\* The cases of a step, for the theorems below.
LEMMA RowSteps ==
  ASSUME TypeOK, TypeOK', [Next]_vars
  PROVE  \/ \E r \in Requests : \/ Only(r, RowOpened(r))
                               \/ Only(r, RowVetoed(r))
                               \/ Only(r, RowCleared(r))
                               \/ Only(r, RowApproved(r))
                               \/ Only(r, RowRefused(r))
         \/ \A q \in Requests : IF q \in Expired THEN RowRefused(q) ELSE RowKept(q)
         \/ approvals' = approvals
  BY RequestRow, VetoRow, ClearRow, FinalRow, CancelRow, TimeoutRows, QuietSteps DEF Next, Decide

-----------------------------------------------------------------------------

\* The security gate of one request.
GateOf(q) ==
    Exists(q) =>
        /\ approvals[q].securityDecision = "deny" => approvals[q].status = "denied"
        /\ approvals[q].status = "approved" /\ approvals[q].requireSecurity
              => approvals[q].securityDecision = "approve"

\* One row's gate survives each way a row can change.
LEMMA GateStep ==
  ASSUME TypeOK, TypeOK', NEW q \in Requests, GateOf(q),
         \/ RowKept(q) \/ RowOpened(q) \/ RowVetoed(q) \/ RowCleared(q)
         \/ RowApproved(q) \/ RowRefused(q)
  PROVE  GateOf(q)'
<1>1. CASE RowKept(q)
  BY <1>1 DEF RowKept, GateOf, Exists
<1>2. CASE RowOpened(q)
  BY <1>2 DEF RowOpened, GateOf, Pending
<1>3. CASE RowVetoed(q)
  BY <1>3 DEF RowVetoed, GateOf
<1>4. CASE RowCleared(q)
  BY <1>4 DEF RowCleared, GateOf, Pending
<1>5. CASE RowApproved(q)
  <2>1. approvals[q] \in Row
    BY <1>5, ExistingRow DEF RowApproved
  <2>2. approvals[q].securityDecision \in {"approve", "deny", "none"}
    BY <2>1 DEF Row, Decision
  <2>3. approvals[q].securityDecision # "deny"
    BY <1>5 DEF RowApproved, GateOf, Pending
  <2> QED BY <1>5, <2>2, <2>3 DEF RowApproved, GateOf, InSecurityStep
<1>6. CASE RowRefused(q)
  <2>1. approvals[q].securityDecision # "deny"
    BY <1>6 DEF RowRefused, GateOf, Pending
  <2> QED BY <1>6, <2>1 DEF RowRefused, GateOf
<1> QED BY <1>1, <1>2, <1>3, <1>4, <1>5, <1>6

\* The security pre-veto can be neither overridden nor skipped.
THEOREM Gate == Spec => []SecurityGate
<1>1. Init => SecurityGate
  BY DEF Init, SecurityGate, Exists
<1>2. TypeOK /\ TypeOK' /\ SecurityGate /\ [Next]_vars => SecurityGate'
  <2> SUFFICES ASSUME TypeOK, TypeOK', SecurityGate, [Next]_vars, NEW q \in Requests
               PROVE  GateOf(q)'
    BY DEF SecurityGate, GateOf
  <2>1. GateOf(q)
    BY DEF SecurityGate, GateOf
  <2>2. ASSUME NEW r \in Requests,
               \/ Only(r, RowOpened(r)) \/ Only(r, RowVetoed(r)) \/ Only(r, RowCleared(r))
               \/ Only(r, RowApproved(r)) \/ Only(r, RowRefused(r))
        PROVE  GateOf(q)'
    <3>1. CASE q = r
      BY <2>1, <2>2, <3>1, GateStep DEF Only
    <3>2. CASE q # r
      BY <2>1, <2>2, <3>2, GateStep DEF Only
    <3> QED BY <3>1, <3>2
  <2>3. ASSUME IF q \in Expired THEN RowRefused(q) ELSE RowKept(q) PROVE GateOf(q)'
    BY <2>1, <2>3, GateStep
  <2>4. CASE approvals' = approvals
    BY <2>1, <2>4, GateStep DEF RowKept
  <2> QED BY <2>2, <2>3, <2>4, RowSteps
<1> QED BY <1>1, <1>2, Typing, PTL DEF Spec

\* A step leaves a closed row alone.
LEMMA ClosedRowsStay ==
  ASSUME TypeOK, TypeOK', [Next]_vars, NEW q \in Requests, Exists(q), ~ Pending(q)
  PROVE  approvals'[q] = approvals[q]
<1>1. ~ RowOpened(q) /\ ~ RowVetoed(q) /\ ~ RowCleared(q) /\ ~ RowApproved(q) /\ ~ RowRefused(q)
  BY DEF RowOpened, RowVetoed, RowCleared, RowApproved, RowRefused
<1>2. ASSUME NEW r \in Requests,
             \/ Only(r, RowOpened(r)) \/ Only(r, RowVetoed(r)) \/ Only(r, RowCleared(r))
             \/ Only(r, RowApproved(r)) \/ Only(r, RowRefused(r))
      PROVE  RowKept(q)
  <2>1. q # r
    BY <1>1, <1>2 DEF Only
  <2> QED BY <1>2, <2>1 DEF Only
<1>3. ASSUME \A p \in Requests : IF p \in Expired THEN RowRefused(p) ELSE RowKept(p)
      PROVE  RowKept(q)
  BY <1>1, <1>3
<1>4. approvals' = approvals => RowKept(q)
  BY DEF RowKept
<1>5. RowKept(q)
  BY <1>2, <1>3, <1>4, RowSteps
<1> QED BY <1>5 DEF RowKept

\* A closed request never changes again.
THEOREM Finality == Spec => OutcomeIsFinal
<1>1. TypeOK /\ TypeOK' /\ [Next]_vars =>
        [\A r \in Requests : Exists(r) /\ ~ Pending(r) => approvals'[r] = approvals[r]]_vars
  BY ClosedRowsStay
<1> QED BY <1>1, Typing, PTL DEF Spec, OutcomeIsFinal

-----------------------------------------------------------------------------
(* The closing events. *)

\* The closing events of a request that are still to be appended.
Closing(r) == {e \in unsent : e.id = r /\ e.kind # "APPROVAL_REQUESTED"}

ClosedRow(r) == Exists(r) /\ ~ Pending(r)

LogOf(r) ==
    /\ closings[r] + Cardinality(Closing(r)) <= 1
    /\ closings[r] + Cardinality(Closing(r)) = 1 => ClosedRow(r)
    /\ ClosedRow(r) /\ ~ lost => closings[r] + Cardinality(Closing(r)) = 1

\* ClosedOnceInLog, request by request.
LEMMA LogByRequest == ClosedOnceInLog <=> \A r \in Requests : LogOf(r)
  BY DEF ClosedOnceInLog, LogOf, ClosingEvents, Closing, ClosedRow

\* They are few, so that they can be counted.
LEMMA ClosingCounted ==
  ASSUME TypeOK, NEW r \in Requests
  PROVE  IsFiniteSet(Closing(r)) /\ Cardinality(Closing(r)) \in Nat /\ closings[r] \in Nat
<1> DEFINE a == [kind |-> "APPROVAL_DECIDED", id |-> r]
           b == [kind |-> "APPROVAL_TIMEOUT", id |-> r]
<1>1. ASSUME NEW e \in Closing(r) PROVE e \in {a, b}
  <2>1. e \in [kind : EventKinds, id : Requests] /\ e.id = r /\ e.kind # "APPROVAL_REQUESTED"
    BY DEF Closing, TypeOK
  <2> QED BY <2>1 DEF EventKinds
<1>2. {a} \cup {b} = {a, b}
  OBVIOUS
<1> HIDE DEF a, b
<1>3. IsFiniteSet({a, b})
  <2>1. IsFiniteSet({a}) /\ IsFiniteSet({b})
    BY FS_Singleton
  <2>2. IsFiniteSet({a} \cup {b})
    BY <2>1, FS_Union
  <2> QED BY <1>2, <2>2
<1>4. Closing(r) \subseteq {a, b}
  BY <1>1
<1>5. IsFiniteSet(Closing(r))
  BY <1>3, <1>4, FS_Subset
<1> QED BY <1>5, FS_CardinalityType DEF TypeOK

\* What a method emits when it starts on an empty outbox.
LEMMA EmittedClosings ==
  ASSUME NEW kind \in EventKinds, NEW S, Emit(kind, S), NEW r \in Requests
  PROVE  Closing(r)' = IF kind # "APPROVAL_REQUESTED" /\ r \in S
                       THEN {[kind |-> kind, id |-> r]} ELSE {}
  BY DEF Emit, Closing

\* A step that closes the rows of S says so of each of them.
LEMMA ClosingSteps ==
  ASSUME TypeOK, Idle, NEW kind \in EventKinds, NEW S, Emit(kind, S), UNCHANGED <<closings, lost>>,
         NEW q \in Requests, LogOf(q),
         IF q \in S THEN (~ Exists(q) \/ Pending(q)) ELSE RowKept(q),
         q \in S => (ClosedRow(q)' <=> kind # "APPROVAL_REQUESTED")
  PROVE  LogOf(q)'
<1>1. Closing(q) = {} /\ Cardinality(Closing(q)) = 0
  BY FS_EmptySet DEF Closing, Idle
<1>2. closings[q] \in Nat
  BY ClosingCounted
<1>3. q \in S => closings[q] = 0
  <2> SUFFICES ASSUME q \in S PROVE closings[q] = 0
    OBVIOUS
  <2>1. ~ ClosedRow(q)
    BY DEF ClosedRow
  <2> QED BY <1>1, <1>2, <2>1 DEF LogOf
<1>4. CASE q \in S /\ kind # "APPROVAL_REQUESTED"
  <2>1. Closing(q)' = {[kind |-> kind, id |-> q]}
    BY <1>4, EmittedClosings
  <2>2. Cardinality({[kind |-> kind, id |-> q]}) = 1
    BY FS_Singleton
  <2>3. Cardinality(Closing(q)') = 1
    BY <2>1, <2>2
  <2>4. closings'[q] + Cardinality(Closing(q)') = 1
    BY <1>3, <1>4, <2>3
  <2> QED BY <1>4, <2>4 DEF LogOf
<1>5. CASE ~ (q \in S /\ kind # "APPROVAL_REQUESTED")
  <2>1. Closing(q)' = {}
    BY <1>5, EmittedClosings
  <2>2. Cardinality(Closing(q)') = 0
    BY <2>1, FS_EmptySet
  <2>3. CASE q \in S
    BY <1>3, <1>5, <2>2, <2>3 DEF LogOf
  <2>4. CASE q \notin S
    <3>1. ClosedRow(q)' <=> ClosedRow(q)
      BY <2>4 DEF RowKept, ClosedRow, Exists, Pending
    <3> QED BY <1>1, <2>2, <3>1 DEF LogOf
  <2> QED BY <2>3, <2>4
<1> QED BY <1>4, <1>5

\* An append moves an event from the outbox to the store and counts it once.
LEMMA AppendedClosing ==
  ASSUME TypeOK, TypeOK', AppendEvent, NEW q \in Requests
  PROVE  closings'[q] + Cardinality(Closing(q)') = closings[q] + Cardinality(Closing(q))
<1>1. PICK e \in unsent :
        /\ unsent' = unsent \ {e}
        /\ closings' = IF e.kind = "APPROVAL_REQUESTED" THEN closings
                       ELSE [closings EXCEPT ![e.id] = @ + 1]
  BY DEF AppendEvent
<1>2. closings[q] \in Nat /\ IsFiniteSet(Closing(q)) /\ Cardinality(Closing(q)) \in Nat
  BY ClosingCounted
<1>3. CASE e \in Closing(q)
  <2>1. Closing(q)' = Closing(q) \ {e} /\ e.id = q /\ e.kind # "APPROVAL_REQUESTED"
    BY <1>1, <1>3 DEF Closing
  <2>2. closings'[q] = closings[q] + 1
    BY <1>1, <2>1 DEF TypeOK
  <2>3. Cardinality(Closing(q) \ {e}) = Cardinality(Closing(q)) - 1
    BY <1>2, <1>3, FS_RemoveElement
  <2>4. Cardinality(Closing(q)') = Cardinality(Closing(q)) - 1
    BY <2>1, <2>3
  <2> QED BY <1>2, <2>2, <2>4
<1>4. CASE e \notin Closing(q)
  <2>1. Closing(q)' = Closing(q)
    BY <1>1, <1>4 DEF Closing
  <2>2. closings'[q] = closings[q]
    BY <1>1, <1>4 DEF Closing, TypeOK
  <2> QED BY <2>1, <2>2
<1> QED BY <1>3, <1>4

\* Each request is reported closed at most once, never while it is pending, and
\* exactly once, unless a crash lost the event, when it is closed.
THEOREM ClosedOnce == Spec => []ClosedOnceInLog
<1>1. Init => ClosedOnceInLog
  <2> SUFFICES ASSUME Init, NEW r \in Requests PROVE LogOf(r)
    BY LogByRequest
  <2>1. Closing(r) = {} /\ closings[r] = 0 /\ ~ ClosedRow(r)
    BY DEF Init, Closing, ClosedRow, Exists
  <2>2. Cardinality(Closing(r)) = 0
    BY <2>1, FS_EmptySet
  <2> QED BY <2>1, <2>2 DEF LogOf
<1>2. TypeOK /\ TypeOK' /\ ClosedOnceInLog /\ [Next]_vars => ClosedOnceInLog'
  <2>1. ClosedOnceInLog' <=> \A r \in Requests : LogOf(r)'
    BY DEF ClosedOnceInLog, LogOf, ClosingEvents, Closing, ClosedRow
  <2> SUFFICES ASSUME TypeOK, TypeOK', ClosedOnceInLog, [Next]_vars, NEW q \in Requests
               PROVE  LogOf(q)'
    BY <2>1
  <2>2. LogOf(q)
    BY LogByRequest
  <2>3. closings[q] \in Nat /\ Cardinality(Closing(q)) \in Nat
    BY ClosingCounted
  <2>4. {"APPROVAL_DECIDED", "APPROVAL_TIMEOUT", "APPROVAL_REQUESTED"} \subseteq EventKinds
    BY DEF EventKinds
  <2>5. ASSUME NEW r \in Requests, NEW k \in Kinds, NEW t \in Targets, NEW f \in BOOLEAN,
               Request(r, k, t, f)
        PROVE  LogOf(q)'
    <3>1. Only(r, RowOpened(r))
      BY <2>5, RequestRow
    <3>2. Idle /\ Emit("APPROVAL_REQUESTED", {r}) /\ UNCHANGED <<closings, lost>>
      BY <2>5 DEF Request
    <3>3. ~ Exists(r) /\ ~ ClosedRow(r)'
      BY <3>1 DEF Only, RowOpened, ClosedRow
    <3>4. IF q \in {r} THEN ~ Exists(q) \/ Pending(q) ELSE RowKept(q)
      BY <3>1, <3>3 DEF Only
    <3> QED BY <2>2, <2>4, <3>2, <3>3, <3>4, ClosingSteps
  <2>6. ASSUME NEW r \in Requests, Idle, Emit("APPROVAL_DECIDED", {r}), UNCHANGED <<closings, lost>>,
               Only(r, RowVetoed(r)) \/ Only(r, RowApproved(r)) \/ Only(r, RowRefused(r))
        PROVE  LogOf(q)'
    <3>1. Pending(r) /\ ClosedRow(r)'
      BY <2>6 DEF Only, RowVetoed, RowApproved, RowRefused, ClosedRow, Pending
    <3>2. IF q \in {r} THEN ~ Exists(q) \/ Pending(q) ELSE RowKept(q)
      BY <2>6, <3>1 DEF Only
    <3>3. q \in {r} => (ClosedRow(q)' <=> "APPROVAL_DECIDED" # "APPROVAL_REQUESTED")
      BY <3>1
    <3> QED BY <2>2, <2>4, <2>6, <3>2, <3>3, ClosingSteps
  <2>7. ASSUME NEW r \in Requests, NEW who \in Deciders, NEW d \in Decision, Decide(r, who, d)
        PROVE  LogOf(q)'
    <3>1. CASE DecideVeto(r, who)
      BY <2>6, <3>1, VetoRow DEF DecideVeto, Decidable
    <3>2. CASE DecideFinal(r, who, d)
      BY <2>6, <3>2, FinalRow DEF DecideFinal, Decidable
    <3>3. CASE DecideClear(r, who)
      <4>1. Only(r, RowCleared(r)) /\ UNCHANGED <<unsent, closings, lost>>
        BY <3>3, ClearRow DEF DecideClear
      <4>2. ClosedRow(q)' <=> ClosedRow(q)
        BY <4>1 DEF Only, RowCleared, RowKept, ClosedRow, Exists, Pending
      <4>3. Closing(q)' = Closing(q)
        BY <4>1 DEF Closing
      <4> QED BY <2>2, <4>1, <4>2, <4>3 DEF LogOf
    <3> QED BY <2>7, <3>1, <3>2, <3>3 DEF Decide
  <2>8. ASSUME NEW r \in Requests, NEW who \in Deciders, Cancel(r, who) PROVE LogOf(q)'
    BY <2>6, <2>8, CancelRow DEF Cancel, Decidable
  <2>9. CASE ProcessTimeouts
    <3>1. Idle /\ Emit("APPROVAL_TIMEOUT", Expired) /\ UNCHANGED <<closings, lost>>
      BY <2>9 DEF ProcessTimeouts
    <3>2. IF q \in Expired THEN RowRefused(q) ELSE RowKept(q)
      BY <2>9, TimeoutRows
    <3>3. IF q \in Expired THEN ~ Exists(q) \/ Pending(q) ELSE RowKept(q)
      BY <3>2 DEF RowRefused
    <3>4. q \in Expired => (ClosedRow(q)' <=> "APPROVAL_TIMEOUT" # "APPROVAL_REQUESTED")
      BY <3>2 DEF RowRefused, ClosedRow, Pending
    <3> HIDE DEF Expired
    <3> QED BY <2>2, <2>4, <3>1, <3>3, <3>4, ClosingSteps
  <2>10. CASE AppendEvent
    <3>1. ClosedRow(q)' <=> ClosedRow(q)
      BY <2>10 DEF AppendEvent, ClosedRow, Exists, Pending
    <3>2. lost' = lost
      BY <2>10 DEF AppendEvent
    <3> QED BY <2>2, <2>10, <3>1, <3>2, AppendedClosing DEF LogOf
  <2>11. CASE Crash
    <3>1. lost' /\ closings' = closings /\ Closing(q)' = {} /\ (ClosedRow(q)' <=> ClosedRow(q))
      BY <2>11 DEF Crash, Closing, ClosedRow, Exists, Pending
    <3>2. Cardinality(Closing(q)') = 0
      BY <3>1, FS_EmptySet
    <3> QED BY <2>2, <2>3, <3>1, <3>2 DEF LogOf
  <2>12. CASE Tick \/ UNCHANGED vars
    <3>1. UNCHANGED <<approvals, unsent, closings, lost>>
      BY <2>12 DEF Tick, vars
    <3> QED BY <2>2, <3>1 DEF LogOf, Closing, ClosedRow, Exists, Pending
  <2> QED BY <2>5, <2>7, <2>8, <2>9, <2>10, <2>11, <2>12 DEF Next
<1> QED BY <1>1, <1>2, Typing, PTL DEF Spec

-----------------------------------------------------------------------------
(* The queue implements ApprovalPromise. *)

\* The phase of a row as each kind of change leaves it.
LEMMA PhaseSteps ==
  ASSUME TypeOK, TypeOK', NEW q \in Requests
  PROVE  /\ RowKept(q) => PhaseOf(q)' = PhaseOf(q)
         /\ RowOpened(q) => PhaseOf(q) = "none" /\ PhaseOf(q)' \in {"security", "main"}
         /\ RowVetoed(q) => PhaseOf(q) = "security" /\ PhaseOf(q)' = "refused"
         /\ RowCleared(q) => PhaseOf(q) = "security" /\ PhaseOf(q)' = "main"
         /\ RowApproved(q) => PhaseOf(q) = "main" /\ PhaseOf(q)' = "approved"
         /\ RowRefused(q) => PhaseOf(q) \in {"security", "main"} /\ PhaseOf(q)' = "refused"
<1>1. RowKept(q) => PhaseOf(q)' = PhaseOf(q)
  BY DEF RowKept, PhaseOf, Exists, Pending, InSecurityStep
<1>2. RowOpened(q) => PhaseOf(q) = "none" /\ PhaseOf(q)' \in {"security", "main"}
  <2> SUFFICES ASSUME RowOpened(q)
               PROVE  PhaseOf(q) = "none" /\ PhaseOf(q)' \in {"security", "main"}
    OBVIOUS
  <2>1. PhaseOf(q) = "none"
    BY DEF RowOpened, PhaseOf
  <2>2. CASE InSecurityStep(q)'
    BY <2>1, <2>2 DEF RowOpened, PhaseOf, Pending, Exists, InSecurityStep
  <2>3. CASE ~ InSecurityStep(q)'
    BY <2>1, <2>3 DEF RowOpened, PhaseOf, Pending, Exists, InSecurityStep
  <2> QED BY <2>2, <2>3
<1>3. RowVetoed(q) => PhaseOf(q) = "security" /\ PhaseOf(q)' = "refused"
  BY DEF RowVetoed, PhaseOf, Pending
<1>4. RowCleared(q) => PhaseOf(q) = "security" /\ PhaseOf(q)' = "main"
  <2> SUFFICES ASSUME RowCleared(q)
               PROVE  PhaseOf(q) = "security" /\ PhaseOf(q)' = "main"
    OBVIOUS
  <2>1. PhaseOf(q) = "security"
    BY DEF RowCleared, PhaseOf, Pending, Exists, InSecurityStep
  <2>2. ~ InSecurityStep(q)'
    BY DEF RowCleared, InSecurityStep
  <2>3. PhaseOf(q)' = "main"
    BY <2>2 DEF RowCleared, PhaseOf, Pending, Exists, InSecurityStep
  <2> QED BY <2>1, <2>3
<1>5. RowApproved(q) => PhaseOf(q) = "main" /\ PhaseOf(q)' = "approved"
  BY DEF RowApproved, PhaseOf, Pending
<1>6. RowRefused(q) => PhaseOf(q) \in {"security", "main"} /\ PhaseOf(q)' = "refused"
  BY DEF RowRefused, PhaseOf, Pending
<1> QED BY <1>1, <1>2, <1>3, <1>4, <1>5, <1>6

\* One request moves to phase p and the others stay.
LEMMA PhaseOnly ==
  ASSUME TypeOK, TypeOK', NEW r \in Requests, NEW p, PhaseOf(r)' = p,
         \A q \in Requests : q # r => RowKept(q)
  PROVE  [q \in Requests |-> PhaseOf(q)]' =
         [q \in Requests |-> IF q \in {r} THEN p ELSE [s \in Requests |-> PhaseOf(s)][q]]
<1>1. \A q \in Requests : PhaseOf(q)' = IF q \in {r} THEN p ELSE PhaseOf(q)
  BY PhaseSteps
<1> QED BY <1>1

\* A request is opened once, security precedes approval, outcomes stand.
THEOREM Implements == Spec => KeepsPromise
<1> DEFINE ph == [r \in Requests |-> PhaseOf(r)]
<1>1. Init => Promise!Init
  BY DEF Init, Promise!Init, PhaseOf, Exists
<1>2. TypeOK /\ TypeOK' /\ [Next]_vars => [Promise!Next]_ph
  <2> SUFFICES ASSUME TypeOK, TypeOK', [Next]_vars PROVE [Promise!Next]_ph
    OBVIOUS
  <2>1. ASSUME NEW r \in Requests, Only(r, RowOpened(r)) PROVE Promise!Open(r)
    <3>1. PhaseOf(r) = "none" /\ PhaseOf(r)' \in {"security", "main"}
      BY <2>1, PhaseSteps DEF Only
    <3>2. CASE PhaseOf(r)' = "security"
      BY <2>1, <3>1, <3>2, PhaseOnly DEF Only, Promise!Open, Promise!Move
    <3>3. CASE PhaseOf(r)' = "main"
      BY <2>1, <3>1, <3>3, PhaseOnly DEF Only, Promise!Open, Promise!Move
    <3> QED BY <3>1, <3>2, <3>3
  <2>2. ASSUME NEW r \in Requests, Only(r, RowCleared(r)) PROVE Promise!Clear(r)
    <3>1. PhaseOf(r) = "security" /\ PhaseOf(r)' = "main"
      BY <2>2, PhaseSteps DEF Only
    <3> QED BY <2>2, <3>1, PhaseOnly DEF Only, Promise!Clear, Promise!Move
  <2>3. ASSUME NEW r \in Requests, Only(r, RowApproved(r)) PROVE Promise!Approve(r)
    <3>1. PhaseOf(r) = "main" /\ PhaseOf(r)' = "approved"
      BY <2>3, PhaseSteps DEF Only
    <3> QED BY <2>3, <3>1, PhaseOnly DEF Only, Promise!Approve, Promise!Move
  <2>4. ASSUME NEW r \in Requests, Only(r, RowVetoed(r)) \/ Only(r, RowRefused(r))
        PROVE  Promise!Refuse({r})
    <3>1. PhaseOf(r) \in {"security", "main"} /\ PhaseOf(r)' = "refused"
      BY <2>4, PhaseSteps DEF Only
    <3> QED BY <2>4, <3>1, PhaseOnly DEF Only, Promise!Refuse, Promise!Move, Promise!Live
  <2>5. ASSUME \A q \in Requests : IF q \in Expired THEN RowRefused(q) ELSE RowKept(q)
        PROVE  Promise!Refuse(Expired)
    <3>1. \A q \in Expired : PhaseOf(q) \in {"security", "main"}
      BY <2>5, PhaseSteps DEF Expired
    <3>2. \A q \in Requests : PhaseOf(q)' = IF q \in Expired THEN "refused" ELSE PhaseOf(q)
      BY <2>5, PhaseSteps
    <3>3. Expired \subseteq Requests
      BY DEF Expired
    <3> QED BY <3>1, <3>2, <3>3 DEF Promise!Refuse, Promise!Move, Promise!Live
  <2>6. CASE approvals' = approvals
    <3>1. \A q \in Requests : PhaseOf(q)' = PhaseOf(q)
      BY <2>6, PhaseSteps DEF RowKept
    <3> QED BY <3>1
  <2>7. Expired \in SUBSET Requests /\ \A r \in Requests : {r} \in SUBSET Requests
    BY DEF Expired
  <2>8. (\E r \in Requests : Promise!Open(r) \/ Promise!Clear(r) \/ Promise!Approve(r)
                             \/ Promise!Refuse({r}))
        \/ Promise!Refuse(Expired) => Promise!Next
    BY <2>7, Zenon DEF Promise!Next
  <2> HIDE DEF ph
  <2> QED BY <2>1, <2>2, <2>3, <2>4, <2>5, <2>6, <2>8, RowSteps
<1> QED BY <1>1, <1>2, Typing, PTL DEF Spec, KeepsPromise, Promise!Spec

-----------------------------------------------------------------------------
(* Governance: the queue with its two deciders. *)

\* A review, the Board's route and a restart do to the queue what the queue
\* does by itself.
LEMMA GovernanceStep ==
  ASSUME TypeOK, [GovNext]_govVars
  PROVE  [Next]_vars
<1> USE ApprovalConstants, GovernanceConstants
<1>1. ASSUME NEW r \in Requests, NEW d \in Decision, Decide(r, Security, d) \/ Decide(r, Board, d)
      PROVE  Next
  BY <1>1 DEF Next
<1>2. {"approve", "deny"} \subseteq Decision
  BY DEF Decision
<1>3. CASE QueueStep
  BY <1>3 DEF QueueStep, Next
<1>4. ASSUME NEW r \in Requests, ReviewCritical(r) \/ ReviewClear(r) \/ ReviewStart(r)
      PROVE  [Next]_vars
  BY <1>1, <1>2, <1>4 DEF ReviewCritical, ReviewClear, ReviewStart
<1>5. ASSUME NEW r \in Requests, NEW d \in Decision,
             ReviewEnd(r, d) \/ ReviewConflict(r, d) \/ BoardDecide(r, d)
      PROVE  [Next]_vars
  BY <1>1, <1>5 DEF ReviewEnd, ReviewConflict, BoardDecide
<1>6. CASE Restart
  <2>1. CASE Idle
    <3>1. lost' = (lost \/ FALSE) /\ unsent' = {} /\ unsent = {}
      BY <1>6, <2>1 DEF Restart, Idle
    <3>2. lost' = lost
      BY <3>1 DEF TypeOK
    <3> QED BY <1>6, <3>1, <3>2 DEF Restart, vars
  <2>2. CASE ~ Idle
    <3>1. lost' = TRUE
      BY <1>6, <2>2 DEF Restart, TypeOK
    <3> QED BY <1>6, <2>2, <3>1 DEF Restart, Crash, Next
  <2> QED BY <2>1, <2>2
<1>7. CASE UNCHANGED govVars
  BY <1>7 DEF govVars
<1> QED BY <1>3, <1>4, <1>5, <1>6, <1>7 DEF GovNext

\* Whenever the LLM answers, whoever decides and wherever the process stops,
\* reviews and the Board together are a behaviour of the queue.
THEOREM GovernanceIsQueue == GovSpec => Spec
<1>1. GovInit => Init /\ TypeOK
  <2> SUFFICES ASSUME GovInit PROVE Init /\ TypeOK
    OBVIOUS
  <2>1. Init
    BY DEF GovInit
  <2> QED BY <2>1, InitTyping
<1>2. TypeOK /\ [GovNext]_govVars => TypeOK' /\ [Next]_vars
  BY GovernanceStep, TypingStep
<1> QED BY <1>1, <1>2, PTL DEF GovSpec, Spec

\* Hence the pre-veto can be neither overridden nor skipped by a late review or
\* by a request id that the Board was not shown.
THEOREM GovernanceGate == GovSpec => []SecurityGate
  BY GovernanceIsQueue, Gate, PTL

\* Nor does a late answer reopen or rewrite what is closed.
THEOREM GovernanceFinality == GovSpec => OutcomeIsFinal
  BY GovernanceIsQueue, Finality, PTL

\* Nor is a request reported closed twice.
THEOREM GovernanceClosedOnce == GovSpec => []ClosedOnceInLog
  BY GovernanceIsQueue, ClosedOnce, PTL

\* The tools and the connector may rely on what the queue promises them.
THEOREM GovernanceKeepsPromise == GovSpec => KeepsPromise
  BY GovernanceIsQueue, Implements, PTL

\* A denial by decide() closes the request as denied.
LEMMA DenialCloses ==
  ASSUME TypeOK, TypeOK', NEW r \in Requests, NEW who \in Deciders, Decide(r, who, "deny")
  PROVE  approvals'[r].status = "denied"
<1>1. CASE DecideVeto(r, who)
  BY <1>1, VetoRow DEF Only, RowVetoed
<1>2. CASE DecideFinal(r, who, "deny")
  <2>1. approvals[r] \in Row
    BY <1>2, ExistingRow DEF DecideFinal, Decidable
  <2> QED BY <1>2, <2>1 DEF DecideFinal, TypeOK, Row
<1> QED BY <1>1, <1>2 DEF Decide

\* A request with a SECURITY_VETO event is denied, and stays denied, whenever
\* the LLM's answer arrives and whatever the Board, the timeout loop or another
\* review has decided meanwhile.
THEOREM VetoIsFinal == GovSpec => []VetoHolds
<1> DEFINE VetoInv == vetoes \subseteq Requests /\ VetoHolds
<1>1. GovInit => VetoInv
  BY DEF GovInit, VetoHolds
<1>2. TypeOK /\ TypeOK' /\ VetoInv /\ [GovNext]_govVars => VetoInv'
  <2> SUFFICES ASSUME TypeOK, TypeOK', VetoInv, [GovNext]_govVars PROVE VetoInv'
    OBVIOUS
  <2> USE ApprovalConstants, GovernanceConstants
  <2>1. ASSUME NEW q \in vetoes PROVE approvals'[q].status = "denied"
    <3>1. q \in Requests /\ approvals[q].status = "denied"
      BY <2>1 DEF VetoHolds
    <3>2. Exists(q) /\ ~ Pending(q)
      BY <3>1 DEF Exists, Pending, NoRow
    <3> QED BY <3>1, <3>2, GovernanceStep, ClosedRowsStay
  <2>2. ASSUME NEW r \in Requests, vetoes' = vetoes \cup {r}, approvals'[r].status = "denied"
        PROVE  VetoInv'
    BY <2>1, <2>2 DEF VetoHolds
  <2>3. vetoes' = vetoes => VetoInv'
    BY <2>1 DEF VetoHolds
  <2>4. ASSUME NEW r \in Requests, ReviewCritical(r) PROVE VetoInv'
    BY <2>2, <2>4, DenialCloses DEF ReviewCritical
  <2>5. ASSUME NEW r \in Requests, NEW d \in Decision, ReviewEnd(r, d) PROVE VetoInv'
    <3>1. CASE d = "deny"
      <4>1. vetoes' = vetoes \cup {r}
        BY <2>5, <3>1 DEF ReviewEnd
      <4>2. CASE Decide(r, Security, d)
        BY <2>2, <3>1, <4>1, <4>2, DenialCloses
      <4>3. CASE SameOutcome(r, d) /\ UNCHANGED vars
        BY <2>2, <3>1, <4>1, <4>3 DEF SameOutcome, vars
      <4> QED BY <2>5, <4>2, <4>3 DEF ReviewEnd
    <3>2. CASE d # "deny"
      BY <2>3, <2>5, <3>2 DEF ReviewEnd
    <3> QED BY <3>1, <3>2
  <2>6. ASSUME NEW r \in Requests, NEW d \in Decision,
               ReviewClear(r) \/ ReviewStart(r) \/ ReviewConflict(r, d) \/ BoardDecide(r, d)
        PROVE  VetoInv'
    BY <2>3, <2>6 DEF ReviewClear, ReviewStart, ReviewConflict, BoardDecide
  <2>7. CASE QueueStep \/ Restart \/ UNCHANGED govVars
    BY <2>3, <2>7 DEF QueueStep, Restart, govVars
  <2>8. "deny" \in Decision
    BY DEF Decision
  <2> QED BY <2>4, <2>5, <2>6, <2>7, <2>8 DEF GovNext
<1>3. GovSpec => []TypeOK
  BY GovernanceIsQueue, Typing, PTL
<1> QED BY <1>1, <1>2, <1>3, PTL DEF GovSpec
=============================================================================
