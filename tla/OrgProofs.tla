----------------------------- MODULE OrgProofs -----------------------------
(***************************************************************************)
(* The org chart stays a forest, sound and within its limits, a restart    *)
(* reunites it, the event log tells it, and everybody keeps a workspace,   *)
(* for any finite pool of members, any limits and any number of crashes.   *)
(*                                                                         *)
(* What the actions share is stated once: an action either leaves every    *)
(* agent where it is, puts one member under a manager with room, takes the *)
(* reports of a fired agent away, or puts the orphans under the CEO.  The  *)
(* chart is a forest because its agents can be ranked with every manager   *)
(* below its reports; a rank is found again after each of the four.        *)
(***************************************************************************)
EXTENDS Org, FiniteSetTheorems, WellFoundedInduction, TLAPS

Rows ==
    /\ status \in [Agents -> {"absent", "active", "fired"}]
    /\ file \in [Agents -> File]
    /\ hiring \in Pool \cup {Nobody}

\* The four ways in which an action changes the chart.
Still ==
    /\ UNCHANGED <<status, overfull>>
    /\ \A a \in Agents : ManagerOf(a)' = ManagerOf(a)

Places(a, m) ==
    /\ MayManage(m)
    /\ status[a] = "absent" \/ (a # m /\ ~ WouldCycle(a, m))
    /\ \A b \in Agents \ {a} : status'[b] = status[b] /\ ManagerOf(b)' = ManagerOf(b)
    /\ status'[a] = "active" /\ ManagerOf(a)' = m
    /\ UNCHANGED overfull

Removes(t) ==
    /\ \A b \in Agents \ {t} : status'[b] = status[b]
    /\ status'[t] = "fired"
    /\ \A b \in Agents : ManagerOf(b)' = IF b \in Reports(t) THEN Nobody ELSE ManagerOf(b)
    /\ UNCHANGED overfull

Repairs ==
    /\ UNCHANGED status
    /\ CEO \in Active
    /\ \A b \in Agents : ManagerOf(b)' = IF b \in Unmanaged THEN CEO ELSE ManagerOf(b)
    /\ overfull' = (overfull \/ Cardinality(Reports(CEO) \cup Unmanaged) > MaxCeoReports)

LEMMA RowsInit == Init => Rows
BY OrgConstants DEF OrgConstants, Init, Rows, File, Managers, Agents, Core

\* The members are not the agents of the bootstrap.
LEMMA Members == Pool \subseteq Agents /\ Core \subseteq Agents /\ Nobody \notin Agents
                    /\ \A a \in Pool : a \notin {CEO, HR, Security, Nobody}
BY OrgConstants DEF OrgConstants, Agents, Core

LEMMA HireRows ==
    ASSUME Rows, NEW a \in Pool, NEW m \in Agents, ProposeHire(a, m)
    PROVE  Rows' /\ Places(a, m)
<1> a \in Agents
    BY Members
<1>1. Rows'
    BY DEF ProposeHire, HireMember, AddAgent, Rows, File, Managers
<1>2. Places(a, m)
    BY DEF ProposeHire, HireMember, AddAgent, Rows, File, Managers, Places, ManagerOf, pastVars
<1> QED
    BY <1>1, <1>2

LEMMA ReassignRows ==
    ASSUME Rows, NEW actor \in Agents, NEW t \in Agents, NEW m \in Agents,
           ProposeReassign(actor, t, m)
    PROVE  Rows' /\ Places(t, m)
<1>1. Rows'
    BY DEF ProposeReassign, Reassign, Rows, File, Managers
<1>2. Places(t, m)
    BY DEF ProposeReassign, Reassign, Rows, File, Managers, Places, ManagerOf, IsActive, pastVars
<1> QED
    BY <1>1, <1>2

LEMMA FireRows ==
    ASSUME Rows, NEW t \in Agents, NEW caller, ProposeFire(caller, t)
    PROVE  Rows' /\ Removes(t) /\ t \notin {CEO, HR}
<1>1. /\ status' = [status EXCEPT ![t] = "fired"]
      /\ file' = Detached(t)
      /\ UNCHANGED <<hiring, overfull>>
      /\ t \notin {CEO, HR}
    BY DEF ProposeFire, Fire, DoFire, pastVars
<1>2. Rows'
    BY <1>1 DEF Rows, Detached, File, Managers
<1>3. Removes(t)
    BY <1>1 DEF Rows, Detached, File, Managers, Removes, ManagerOf
<1> QED
    BY <1>1, <1>2, <1>3

LEMMA NoteRows ==
    ASSUME Rows, NEW t \in Agents, UNCHANGED <<status, hiring, overfull>>,
           \/ \E rating \in Ratings : file' = [file EXCEPT ![t].rating = rating]
           \/ \E title \in Titles : file' = [file EXCEPT ![t].title = title]
    PROVE  Rows' /\ Still
<1>1. Rows'
    BY DEF Rows, File
<1>2. Still
    BY DEF Rows, File, Still, ManagerOf
<1> QED
    BY <1>1, <1>2

LEMMA RestartRows ==
    ASSUME Rows, Restart PROVE Rows' /\ Repairs
<1>1. Rows'
    BY DEF Restart, Die, Rows, File, Managers, Agents, Core
<1>2. Repairs
    BY Members DEF Restart, Die, Rows, File, Managers, Repairs, ManagerOf, Core
<1> QED
    BY <1>1, <1>2

LEMMA QuietRows ==
    ASSUME Rows, AppendEvent \/ EndHire \/ RestartFails \/ UNCHANGED vars
    PROVE  Rows' /\ Still
BY DEF AppendEvent, EndHire, RestartFails, Die, vars, pastVars, Rows, Still, ManagerOf

\* Every step is one of the four, and keeps the rows' types.
LEMMA Shapes ==
    ASSUME Rows, [Next]_vars
    PROVE  /\ Rows'
           /\ \/ Still
              \/ \E a \in Agents \ Core, m \in Agents : Places(a, m)
              \/ \E t \in Agents \ {CEO, HR} : Removes(t)
              \/ Repairs
<1> DEFINE Goal == /\ Rows'
                   /\ \/ Still
                      \/ \E a \in Agents \ Core, m \in Agents : Places(a, m)
                      \/ \E t \in Agents \ {CEO, HR} : Removes(t)
                      \/ Repairs
<1>1. ASSUME AppendEvent \/ EndHire \/ RestartFails \/ UNCHANGED vars PROVE Goal
    BY <1>1, QuietRows
<1>2. ASSUME NEW a \in Pool, NEW m \in Agents, ProposeHire(a, m) PROVE Goal
    <2> a \in Agents \ Core
        BY Members DEF Core
    <2> QED
        BY <1>2, HireRows
<1>3. ASSUME NEW actor \in Agents, NEW t \in Agents, NEW m \in Agents,
             ProposeReassign(actor, t, m)
      PROVE  Goal
    <2> t \in Agents \ Core
        BY <1>3 DEF ProposeReassign, Reassign
    <2> QED
        BY <1>3, ReassignRows
<1>4. ASSUME NEW caller, NEW t \in Agents, ProposeFire(caller, t) PROVE Goal
    BY <1>4, FireRows
<1>5. ASSUME NEW caller, NEW t \in Agents, NEW rating \in Ratings,
             GiveFeedback(caller, t, rating)
      PROVE  Goal
    BY <1>5, NoteRows DEF GiveFeedback, Note, pastVars
<1>6. ASSUME NEW caller, NEW t \in Agents, NEW title \in Titles,
             ProposeRoleChange(caller, t, title)
      PROVE  Goal
    BY <1>6, NoteRows
       DEF ProposeRoleChange, ApplyRoleChange, UpdateRoleDetails, Note, pastVars
<1>7. ASSUME Restart PROVE Goal
    BY <1>7, RestartRows
<1> HIDE DEF Goal
<1>8. ASSUME NEW self \in Agents, NEW t \in Agents,
             \/ ExecProposeFire(self, t)
             \/ \E rating \in Ratings : ExecGiveFeedback(self, t, rating)
             \/ \E title \in Titles : ExecProposeRoleChange(self, t, title)
      PROVE  Goal
    BY <1>4, <1>5, <1>6, <1>8 DEF ExecProposeFire, ExecGiveFeedback, ExecProposeRoleChange
<1>9. ASSUME NEW named \in Managers, NEW t \in Agents,
             \/ BoardFire(named, t)
             \/ \E rating \in Ratings : BoardFeedback(named, t, rating)
             \/ \E title \in Titles : BoardRoleChange(named, t, title)
      PROVE  Goal
    BY <1>4, <1>5, <1>6, <1>9 DEF BoardFire, BoardFeedback, BoardRoleChange
<1>10. Goal
    BY <1>1, <1>2, <1>3, <1>7, <1>8, <1>9 DEF Next
<1> QED
    BY <1>10 DEF Goal

-----------------------------------------------------------------------------
(* The chart. *)

ChartInv == Rows /\ ChartSound

LEMMA ChartStep == ChartInv /\ [Next]_vars => ChartInv'
<1> SUFFICES ASSUME ChartInv, [Next]_vars PROVE ChartSound'
    BY Shapes DEF ChartInv
<1> USE DEF ChartInv, ChartSound, Active, IsActive
<1>1. CASE Still
    BY <1>1 DEF Still, Core
<1>2. ASSUME NEW a \in Agents \ Core, NEW m \in Agents, Places(a, m) PROVE ChartSound'
    BY <1>2, Members DEF Places, MayManage, Core
<1>3. ASSUME NEW t \in Agents \ {CEO, HR}, Removes(t) PROVE ChartSound'
    BY <1>3, Members DEF Removes, Reports, Core
<1>4. CASE Repairs
    BY <1>4, Members DEF Repairs, Unmanaged, Core
<1> QED
    BY <1>1, <1>2, <1>3, <1>4, Shapes

\* Whatever the tools, the Board and the restarts do to the chart, an active
\* agent has an active manager or none, and the CEO and HR stay where they are.
THEOREM ChartStaysSound == Spec => []ChartSound
<1>1. Init => ChartInv
    BY RowsInit, Members, OrgConstants
       DEF OrgConstants, Init, ChartInv, ChartSound, Active, IsActive, ManagerOf, Core
<1> QED
    BY <1>1, ChartStep, PTL DEF Spec, ChartInv

-----------------------------------------------------------------------------
(* Workspaces. *)

HousedInv == Rows /\ EverybodyHoused

LEMMA HousedStep == HousedInv /\ [Next]_vars => HousedInv'
<1> SUFFICES ASSUME HousedInv, [Next]_vars PROVE EverybodyHoused'
    BY Shapes DEF HousedInv
<1> USE DEF HousedInv, EverybodyHoused, Active, IsActive
<1>1. CASE AppendEvent \/ UNCHANGED vars
    BY <1>1 DEF AppendEvent, vars, pastVars
<1>2. ASSUME NEW a \in Pool, NEW m \in Agents, ProposeHire(a, m) PROVE EverybodyHoused'
    <2>1. hiring = Nobody /\ hiring' = a /\ UNCHANGED <<housed, cutShort>>
        BY <1>2 DEF ProposeHire, LoopFree, HireMember, pastVars
    <2> QED
        BY <1>2, <2>1, HireRows, Members DEF Places
<1>3. CASE EndHire
    BY <1>3 DEF EndHire, pastVars
<1>4. ASSUME UNCHANGED <<housed, hiring, cutShort>>,
             \A b \in Agents : status'[b] = "active" => status[b] = "active"
      PROVE  EverybodyHoused'
    BY <1>4
<1>5. ASSUME NEW actor \in Agents, NEW t \in Agents, NEW m \in Agents,
             ProposeReassign(actor, t, m)
      PROVE  EverybodyHoused'
    BY <1>4, <1>5 DEF ProposeReassign, pastVars
<1>6. ASSUME NEW caller, NEW t \in Agents, ProposeFire(caller, t) PROVE EverybodyHoused'
    <2>1. UNCHANGED <<housed, hiring, cutShort>>
        BY <1>6 DEF ProposeFire, pastVars
    <2> QED
        BY <1>4, <1>6, <2>1, FireRows DEF Removes
<1>7. ASSUME NEW caller, NEW t \in Agents, NEW rating \in Ratings, GiveFeedback(caller, t, rating)
      PROVE  EverybodyHoused'
    BY <1>4, <1>7 DEF GiveFeedback, Note, pastVars
<1>8. ASSUME NEW caller, NEW t \in Agents, NEW title \in Titles,
             ProposeRoleChange(caller, t, title)
      PROVE  EverybodyHoused'
    BY <1>4, <1>8 DEF ProposeRoleChange, Note, pastVars
<1>9. CASE Restart \/ RestartFails
    BY <1>9, Members DEF Restart, RestartFails, Die
<1>10. ASSUME NEW self \in Agents, NEW t \in Agents,
             \/ ExecProposeFire(self, t)
             \/ \E rating \in Ratings : ExecGiveFeedback(self, t, rating)
             \/ \E title \in Titles : ExecProposeRoleChange(self, t, title)
      PROVE  EverybodyHoused'
    BY <1>6, <1>7, <1>8, <1>10 DEF ExecProposeFire, ExecGiveFeedback, ExecProposeRoleChange
<1>11. ASSUME NEW named \in Managers, NEW t \in Agents,
             \/ BoardFire(named, t)
             \/ \E rating \in Ratings : BoardFeedback(named, t, rating)
             \/ \E title \in Titles : BoardRoleChange(named, t, title)
      PROVE  EverybodyHoused'
    BY <1>6, <1>7, <1>8, <1>11 DEF BoardFire, BoardFeedback, BoardRoleChange
<1> QED
    BY <1>1, <1>2, <1>3, <1>5, <1>9, <1>10, <1>11 DEF Next

\* An active agent has a workspace, but for the one whose hire is under way and
\* those whose hire a crash cut short.
THEOREM EverybodyIsHoused == Spec => []EverybodyHoused
<1>1. Init => HousedInv
    BY RowsInit DEF Init, HousedInv, EverybodyHoused, Active, IsActive
<1> QED
    BY <1>1, HousedStep, PTL DEF Spec, HousedInv

-----------------------------------------------------------------------------
(* Span of control. *)

SpanInv == Rows /\ SpanOfControl

LEMMA FiniteAgents == IsFiniteSet(Agents)
<1>1. IsFiniteSet(Core)
    <2>1. IsFiniteSet({CEO}) /\ IsFiniteSet({HR}) /\ IsFiniteSet({Security})
        BY FS_Singleton
    <2>2. IsFiniteSet({CEO} \cup {HR})
        BY <2>1, FS_Union
    <2>3. IsFiniteSet(({CEO} \cup {HR}) \cup {Security})
        BY <2>1, <2>2, FS_Union
    <2>4. Core = ({CEO} \cup {HR}) \cup {Security}
        BY DEF Core
    <2> QED
        BY <2>3, <2>4
<1> QED
    BY <1>1, OrgConstants, FS_Union DEF OrgConstants, Agents

LEMMA AddOne ==
    ASSUME NEW S, IsFiniteSet(S), NEW x
    PROVE  /\ IsFiniteSet(S \cup {x})
           /\ Cardinality(S \cup {x}) \in Nat
           /\ Cardinality(S \cup {x}) <= Cardinality(S) + 1
<1>1. Cardinality(S) \in Nat
    BY FS_CardinalityType
<1>2. /\ IsFiniteSet(S \cup {x})
      /\ Cardinality(S \cup {x}) = IF x \in S THEN Cardinality(S) ELSE Cardinality(S) + 1
    BY FS_AddElement
<1> QED
    BY <1>1, <1>2

LEMMA Limits == \A m \in Agents : Limit(m) \in Nat
BY OrgConstants DEF OrgConstants, Limit

LEMMA ReportsFinite ==
    \A m : IsFiniteSet(Reports(m)) /\ Cardinality(Reports(m)) \in Nat
BY FiniteAgents, FS_Subset, FS_CardinalityType DEF Reports, Active

\* A manager whose reports only become fewer stays within its limit.
LEMMA FewerReports ==
    ASSUME SpanOfControl, UNCHANGED overfull,
           NEW m \in Agents, Reports(m)' \subseteq Reports(m)
    PROVE  Cardinality(Reports(m)') > Limit(m) => m = CEO /\ overfull'
<1>1. Cardinality(Reports(m)') <= Cardinality(Reports(m)) /\ Cardinality(Reports(m)') \in Nat
    BY ReportsFinite, FS_Subset, FS_CardinalityType
<1> QED
    BY <1>1, ReportsFinite, Limits DEF SpanOfControl

LEMMA SpanStep == SpanInv /\ [Next]_vars => SpanInv'
<1> SUFFICES ASSUME SpanInv, [Next]_vars,
                    NEW x \in Agents
             PROVE  Cardinality(Reports(x)') > Limit(x) => x = CEO /\ overfull'
    BY Shapes DEF SpanInv, SpanOfControl, Limit
<1>1. CASE Still
    <2>1. Reports(x)' \subseteq Reports(x)
        BY <1>1 DEF Still, Reports, Active, IsActive
    <2> QED
        BY <1>1, <2>1, FewerReports DEF Still, SpanInv
<1>2. ASSUME NEW a \in Agents \ Core, NEW m \in Agents, Places(a, m)
      PROVE  Cardinality(Reports(x)') > Limit(x) => x = CEO /\ overfull'
    <2>1. CASE x # m
        <3>1. Reports(x)' \subseteq Reports(x)
            BY <1>2, <2>1 DEF Places, Reports, Active, IsActive
        <3> QED
            BY <1>2, <3>1, FewerReports DEF Places, SpanInv
    <2>2. CASE x = m
        <3>1. Reports(x)' \subseteq Reports(x) \cup {a}
            BY <1>2 DEF Places, Reports, Active, IsActive
        <3>2. /\ IsFiniteSet(Reports(x) \cup {a})
              /\ Cardinality(Reports(x) \cup {a}) \in Nat
              /\ Cardinality(Reports(x) \cup {a}) <= Cardinality(Reports(x)) + 1
            BY ReportsFinite, AddOne
        <3>3. Cardinality(Reports(x)') <= Cardinality(Reports(x) \cup {a})
              /\ Cardinality(Reports(x)') \in Nat
            BY <3>1, <3>2, FS_Subset, FS_CardinalityType
        <3>4. Cardinality(Reports(x)) < Limit(x)
            BY <1>2, <2>2 DEF Places, MayManage, HasRoom
        <3> QED
            BY <3>2, <3>3, <3>4, ReportsFinite, Limits
    <2> QED
        BY <2>1, <2>2
<1>3. ASSUME NEW t \in Agents \ {CEO, HR}, Removes(t)
      PROVE  Cardinality(Reports(x)') > Limit(x) => x = CEO /\ overfull'
    <2>1. Reports(x)' \subseteq Reports(x)
        BY <1>3, Members DEF Removes, Reports, Active, IsActive
    <2> QED
        BY <1>3, <2>1, FewerReports DEF Removes, SpanInv
<1>4. CASE Repairs
    <2>1. CASE x # CEO
        <3>1. Reports(x)' \subseteq Reports(x)
            BY <1>4, <2>1 DEF Repairs, Reports, Active, IsActive
        <3>2. Cardinality(Reports(x)') <= Cardinality(Reports(x))
              /\ Cardinality(Reports(x)') \in Nat
            BY <3>1, ReportsFinite, FS_Subset, FS_CardinalityType
        <3> QED
            BY <2>1, <3>2, ReportsFinite, Limits DEF SpanInv, SpanOfControl
    <2>2. CASE x = CEO
        <3>1. Reports(x)' \subseteq Reports(CEO) \cup Unmanaged
            BY <1>4, <2>2 DEF Repairs, Reports, Active, IsActive
        <3>2. Reports(CEO) \cup Unmanaged \subseteq Agents
            BY Members DEF Reports, Active, Unmanaged
        <3>3. /\ IsFiniteSet(Reports(CEO) \cup Unmanaged)
              /\ Cardinality(Reports(CEO) \cup Unmanaged) \in Nat
            BY <3>2, FiniteAgents, FS_Subset, FS_CardinalityType
        <3>4. Cardinality(Reports(x)') <= Cardinality(Reports(CEO) \cup Unmanaged)
              /\ Cardinality(Reports(x)') \in Nat
            BY <3>1, <3>3, FS_Subset, FS_CardinalityType
        <3>5. Limit(x) = MaxCeoReports /\ MaxCeoReports \in Nat
            BY <2>2, OrgConstants DEF OrgConstants, Limit
        <3>6. ASSUME Cardinality(Reports(x)') > Limit(x) PROVE overfull'
            <4>1. Cardinality(Reports(CEO) \cup Unmanaged) > MaxCeoReports
                BY <3>3, <3>4, <3>5, <3>6
            <4> QED
                BY <1>4, <4>1 DEF Repairs
        <3> QED
            BY <2>2, <3>6
    <2> QED
        BY <2>1, <2>2
<1> QED
    BY <1>1, <1>2, <1>3, <1>4, Shapes DEF SpanInv

\* Nobody has more direct reports than add_agent and reassign allow, however
\* the members are hired, moved and fired; only the repair of a restart can take
\* the CEO over its limit.
THEOREM SpanIsKept == Spec => []SpanOfControl
<1>1. ASSUME Init PROVE SpanInv
    <2>1. ASSUME NEW m \in Agents PROVE Cardinality(Reports(m)) <= Limit(m)
        <3>1. Reports(m) \subseteq IF m = CEO THEN {HR, Security} ELSE {}
            BY <1>1, Members DEF Init, Reports, Active, IsActive, ManagerOf, Core
        <3>2. CASE m = CEO
            <4> DEFINE S == {Security}
            <4>1. IsFiniteSet(S) /\ Cardinality(S) = 1
                BY FS_Singleton
            <4> HIDE DEF S
            <4>2. IsFiniteSet(S \cup {HR})
                  /\ Cardinality(S \cup {HR}) <= 2
                  /\ Cardinality(S \cup {HR}) \in Nat
                BY <4>1, AddOne
            <4>3. Reports(m) \subseteq S \cup {HR}
                BY <3>1, <3>2 DEF S
            <4>4. Cardinality(Reports(m)) <= Cardinality(S \cup {HR})
                BY <4>2, <4>3, FS_Subset
            <4>5. Limit(m) >= 2 /\ Limit(m) \in Nat
                BY <3>2, OrgConstants DEF OrgConstants, Limit
            <4> QED
                BY <4>2, <4>4, <4>5, ReportsFinite
        <3>3. CASE m # CEO
            <4>1. Reports(m) = {}
                BY <3>1, <3>3
            <4> QED
                BY <4>1, FS_EmptySet, Limits
        <3> QED
            BY <3>2, <3>3
    <2> QED
        BY <1>1, <2>1, RowsInit, ReportsFinite, Limits DEF SpanInv, SpanOfControl
<1> QED
    BY <1>1, SpanStep, PTL DEF Spec, SpanInv
-----------------------------------------------------------------------------
(* The forest.  ChainUp is a recursive function cut off after as many      *)
(* steps as there are agents.  In a ranked chart its chains end before     *)
(* that, by the pigeonhole principle, so ChainUp is all that stands above  *)
(* an agent.  From there on the proofs use only that.                      *)

\* A non-empty set of naturals has a least element.
LEMMA Least ==
    ASSUME NEW T, T \subseteq Nat, T # {}
    PROVE  \E m \in T : \A k \in T : m <= k
<1> DEFINE R == OpToRel(<, Nat)
<1>1. IsWellFoundedOn(R, Nat)
    BY NatLessThanWellFounded
<1>2. \A x, y \in Nat : y < x => <<y, x>> \in R
    BY DEF OpToRel
<1> HIDE DEF R
<1>3. PICK x \in T : \A y \in T : ~ (<<y, x>> \in R)
    BY <1>1, WFMin
<1>4. ASSUME NEW y \in T PROVE x <= y
    <2>1. x \in Nat /\ y \in Nat
        OBVIOUS
    <2>2. ~ (y < x)
        BY <1>2, <1>3, <2>1
    <2> QED
        BY <2>1, <2>2
<1> QED
    BY <1>4

\* What holds at 0 and is handed on holds up to n.
LEMMA UpTo ==
    ASSUME NEW n \in Nat, NEW T, 0 \in T, \A i \in 0 .. n - 1 : i \in T => i + 1 \in T
    PROVE  0 .. n \subseteq T
<1> SUFFICES ASSUME (0 .. n) \ T # {} PROVE FALSE
    OBVIOUS
<1> DEFINE Rest == (0 .. n) \ T
<1>1. Rest \subseteq Nat /\ Rest # {}
    OBVIOUS
<1> HIDE DEF Rest
<1>2. PICK m \in Rest : \A k \in Rest : m <= k
    BY <1>1, Least
<1> USE DEF Rest
<1>3. m # 0 /\ m - 1 \in 0 .. n - 1
    BY <1>2
<1> QED
    BY <1>2, <1>3

Ranked(rank) ==
    /\ rank \in [Agents -> Nat]
    /\ \A a \in Agents : ManagerOf(a) \in Agents => rank[ManagerOf(a)] < rank[a]

Managed == \A a \in Agents : ManagerOf(a) \in Managers

\* c is the chain above a, filled up with Nobody, for n steps.
IsChain(c, a, n) ==
    /\ c \in [0 .. n -> Managers]
    /\ c[0] = ManagerOf(a)
    /\ \A i \in 1 .. n : c[i] = IF c[i - 1] = Nobody THEN Nobody ELSE ManagerOf(c[i - 1])

LEMMA AgentCount == Cardinality(Agents) \in Nat
BY FiniteAgents, FS_CardinalityType

LEMMA ChainExists ==
    ASSUME Managed, NEW a \in Agents, NEW n \in Nat
    PROVE  \E c : IsChain(c, a, n)
<1> DEFINE T == {k \in Nat : \E c : IsChain(c, a, k)}
<1>1. 0 \in T
    <2>1. IsChain([i \in 0 .. 0 |-> ManagerOf(a)], a, 0)
        BY DEF IsChain, Managed
    <2> QED
        BY <2>1
<1>2. ASSUME NEW k \in 0 .. n - 1, k \in T PROVE k + 1 \in T
    <2>1. PICK c : IsChain(c, a, k)
        BY <1>2
    <2> DEFINE d == [i \in 0 .. k + 1 |->
                        IF i = k + 1 THEN IF c[k] = Nobody THEN Nobody ELSE ManagerOf(c[k])
                        ELSE c[i]]
    <2>2. /\ c \in [0 .. k -> Managers] /\ c[0] = ManagerOf(a)
          /\ \A i \in 1 .. k : c[i] = IF c[i - 1] = Nobody THEN Nobody ELSE ManagerOf(c[i - 1])
        BY <2>1 DEF IsChain
    <2>3. d \in [0 .. k + 1 -> Managers]
        BY <2>2 DEF Managed, Managers
    <2>4. d[0] = ManagerOf(a)
        BY <2>2
    <2>5. ASSUME NEW i \in 1 .. k + 1
          PROVE  d[i] = IF d[i - 1] = Nobody THEN Nobody ELSE ManagerOf(d[i - 1])
        <3>1. CASE i = k + 1
            BY <3>1
        <3>2. CASE i # k + 1
            <4>1. i \in 1 .. k /\ i \in 0 .. k + 1 /\ i - 1 \in 0 .. k + 1 /\ i - 1 # k + 1
                BY <3>2
            <4>2. d[i] = c[i] /\ d[i - 1] = c[i - 1]
                BY <3>2, <4>1
            <4> QED
                BY <2>2, <4>1, <4>2
        <3> QED
            BY <3>1, <3>2
    <2>6. IsChain(d, a, k + 1)
        BY <2>3, <2>4, <2>5 DEF IsChain
    <2> QED
        BY <2>6
<1> HIDE DEF T
<1>3. 0 .. n \subseteq T
    BY <1>1, <1>2, UpTo
<1> QED
    BY <1>3 DEF T

\* ChainUp collects that chain.
LEMMA ChainUpIs ==
    ASSUME Managed, NEW a \in Agents
    PROVE  \E c : /\ IsChain(c, a, Cardinality(Agents))
                  /\ ChainUp(a) = {c[i] : i \in 0 .. Cardinality(Agents)} \ {Nobody}
<1> DEFINE N == Cardinality(Agents)
           F(f) == [n \in 0 .. N |->
                       IF n = 0 THEN ManagerOf(a)
                       ELSE IF f[n - 1] = Nobody THEN Nobody ELSE ManagerOf(f[n - 1])]
           C == CHOOSE f : f = F(f)
<1>1. N \in Nat
    BY AgentCount
<1> HIDE DEF N
<1>2. PICK c : IsChain(c, a, N)
    BY <1>1, ChainExists
<1>3. c = F(c)
    BY <1>1, <1>2 DEF IsChain
<1>4. C = F(C)
    <2> HIDE DEF F
    <2> QED
        BY <1>3
<1>5. ChainUp(a) = {C[i] : i \in 0 .. N} \ {Nobody}
    BY DEF ChainUp, N
<1> HIDE DEF C
<1>6. C[0] = ManagerOf(a)
    <2>1. C[0] = F(C)[0]
        BY <1>4
    <2> QED
        BY <1>1, <2>1
<1>7. ASSUME NEW i \in 1 .. N
      PROVE  C[i] = IF C[i - 1] = Nobody THEN Nobody ELSE ManagerOf(C[i - 1])
    <2>1. C[i] = F(C)[i]
        BY <1>4
    <2> QED
        BY <1>1, <2>1
<1>8. \A i \in 0 .. N : C[i] \in Managers
    <2> DEFINE T == {i \in Nat : C[i] \in Managers}
    <2>1. 0 \in T
        BY <1>6 DEF Managed
    <2>2. ASSUME NEW i \in 0 .. N - 1, i \in T PROVE i + 1 \in T
        <3>1. i + 1 \in 1 .. N /\ (i + 1) - 1 = i /\ i + 1 \in Nat
            BY <1>1
        <3>2. C[i + 1] = IF C[i] = Nobody THEN Nobody ELSE ManagerOf(C[i])
            BY <1>7, <3>1
        <3> QED
            BY <2>2, <3>1, <3>2 DEF Managed, Managers
    <2> HIDE DEF T
    <2>3. 0 .. N \subseteq T
        BY <1>1, <2>1, <2>2, UpTo
    <2> QED
        BY <2>3 DEF T
<1>9. C \in [0 .. N -> Managers]
    <2>1. C = [n \in 0 .. N |-> C[n]]
        BY <1>4
    <2> QED
        BY <1>8, <2>1
<1>10. IsChain(C, a, N)
    BY <1>6, <1>7, <1>9 DEF IsChain
<1> QED
    BY <1>5, <1>10 DEF N

\* In a ranked chart a chain goes down in rank until it ends.
LEMMA ChainFalls ==
    ASSUME Managed, NEW rank, Ranked(rank), NEW a \in Agents, NEW n \in Nat, NEW c,
           IsChain(c, a, n)
    PROVE  /\ \A j \in 0 .. n : c[j] # Nobody => c[j] \in Agents /\ rank[c[j]] < rank[a]
           /\ \A j \in 0 .. n : c[j] # Nobody =>
                 \A i \in 0 .. n : i < j => c[i] # Nobody /\ rank[c[j]] < rank[c[i]]
<1>1. /\ c \in [0 .. n -> Managers] /\ c[0] = ManagerOf(a)
      /\ \A i \in 1 .. n : c[i] = IF c[i - 1] = Nobody THEN Nobody ELSE ManagerOf(c[i - 1])
    BY DEF IsChain
<1>2. \A i \in 0 .. n : c[i] # Nobody => c[i] \in Agents /\ rank[c[i]] \in Nat
    BY <1>1 DEF Managers, Ranked
<1>3. rank[a] \in Nat
    BY DEF Ranked
<1> DEFINE Falls(j) ==
              c[j] # Nobody =>
                 /\ rank[c[j]] < rank[a]
                 /\ \A i \in 0 .. n : i < j => c[i] # Nobody /\ rank[c[j]] < rank[c[i]]
           T == {j \in 0 .. n : Falls(j)}
<1>4. 0 \in T
    BY <1>1, <1>2 DEF Ranked
<1>5. ASSUME NEW j \in 0 .. n - 1, j \in T PROVE j + 1 \in T
    <2>1. j + 1 \in 0 .. n /\ j + 1 \in 1 .. n /\ (j + 1) - 1 = j /\ j \in 0 .. n
        OBVIOUS
    <2> SUFFICES ASSUME c[j + 1] # Nobody
                 PROVE  /\ rank[c[j + 1]] < rank[a]
                        /\ \A i \in 0 .. n : i < j + 1 =>
                              c[i] # Nobody /\ rank[c[j + 1]] < rank[c[i]]
        BY <2>1
    <2>2. c[j + 1] = ManagerOf(c[j]) /\ c[j] # Nobody
        BY <1>1, <2>1
    <2>3. c[j] \in Agents /\ c[j + 1] \in Agents
          /\ rank[c[j]] \in Nat /\ rank[c[j + 1]] \in Nat
        BY <1>2, <2>1, <2>2
    <2>4. rank[c[j + 1]] < rank[c[j]]
        BY <2>2, <2>3 DEF Ranked
    <2>5. Falls(j)
        BY <1>5
    <2>6. rank[c[j + 1]] < rank[a]
        BY <1>3, <2>2, <2>3, <2>4, <2>5
    <2>7. ASSUME NEW i \in 0 .. n, i < j + 1
          PROVE  c[i] # Nobody /\ rank[c[j + 1]] < rank[c[i]]
        <3>1. CASE i = j
            BY <2>2, <2>4, <3>1
        <3>2. CASE i # j
            <4>1. i < j
                BY <2>7, <3>2
            <4>2. c[i] # Nobody /\ rank[c[j]] < rank[c[i]]
                BY <2>2, <2>5, <4>1
            <4>3. rank[c[i]] \in Nat
                BY <1>2, <4>2
            <4> QED
                BY <2>3, <2>4, <4>2, <4>3
        <3> QED
            BY <3>1, <3>2
    <2> QED
        BY <2>6, <2>7
<1> HIDE DEF T
<1>6. 0 .. n \subseteq T
    BY <1>4, <1>5, UpTo
<1>7. \A j \in 0 .. n : Falls(j)
    BY <1>6 DEF T
<1> QED
    BY <1>2, <1>7

\* It has ended when it is as long as there are agents.
LEMMA ChainEnds ==
    ASSUME Managed, NEW rank, Ranked(rank), NEW a \in Agents, NEW c,
           IsChain(c, a, Cardinality(Agents))
    PROVE  c[Cardinality(Agents)] = Nobody
<1> DEFINE N == Cardinality(Agents)
<1>1. N \in Nat
    BY AgentCount
<1>2. IsChain(c, a, N)
    OBVIOUS
<1> HIDE DEF N
<1> SUFFICES ASSUME c[N] # Nobody PROVE FALSE
    BY DEF N
<1>3. \A j \in 0 .. N : c[j] # Nobody =>
         \A i \in 0 .. N : i < j => c[i] # Nobody /\ rank[c[j]] < rank[c[i]]
    BY <1>1, <1>2, ChainFalls
<1>4. \A i \in 0 .. N : c[i] # Nobody
    <2>1. N \in 0 .. N /\ \A i \in 0 .. N : i # N => i < N
        BY <1>1
    <2> QED
        BY <1>3, <2>1
<1>5. c \in [0 .. N -> Agents]
    BY <1>2, <1>4 DEF IsChain, Managers
<1>6. IsFiniteSet(0 .. N) /\ Cardinality(0 .. N) = N + 1
    <2>1. IsFiniteSet(0 .. N) /\ Cardinality(0 .. N) = IF 0 > N THEN 0 ELSE N - 0 + 1
        BY <1>1, FS_Interval
    <2> QED
        BY <1>1, <2>1
<1>7. PICK x, y \in 0 .. N : x # y /\ c[x] = c[y]
    <2>1. Cardinality(Agents) < Cardinality(0 .. N)
        BY <1>1, <1>6 DEF N
    <2> QED
        BY <1>5, <1>6, <2>1, FiniteAgents, FS_PigeonHole
<1>8. x < y \/ y < x
    BY <1>7
<1>9. rank[c[x]] < rank[c[y]] \/ rank[c[y]] < rank[c[x]]
    BY <1>3, <1>4, <1>8
<1>10. rank[c[x]] \in Nat
    BY <1>5 DEF Ranked
<1> QED
    BY <1>7, <1>9, <1>10

\* What stands above an agent: everybody's manager up to the top, and never
\* the agent itself.
LEMMA ChainUpClosed ==
    ASSUME Managed, NEW rank, Ranked(rank), NEW a \in Agents
    PROVE  /\ ChainUp(a) \subseteq Agents
           /\ a \notin ChainUp(a)
           /\ \A b \in ChainUp(a) \cup {a} : ManagerOf(b) \in ChainUp(a) \cup {Nobody}
<1> DEFINE N == Cardinality(Agents)
<1>1. N \in Nat
    BY AgentCount
<1>2. PICK c : IsChain(c, a, N) /\ ChainUp(a) = {c[i] : i \in 0 .. N} \ {Nobody}
    BY ChainUpIs
<1>3. c[N] = Nobody
    BY <1>2, ChainEnds
<1> HIDE DEF N
<1>4. \A j \in 0 .. N : c[j] # Nobody => c[j] \in Agents /\ rank[c[j]] < rank[a]
    BY <1>1, <1>2, ChainFalls
<1>5. ChainUp(a) \subseteq Agents
    BY <1>2, <1>4
<1>6. a \notin ChainUp(a)
    <2>1. rank[a] \in Nat
        BY DEF Ranked
    <2> QED
        BY <1>2, <1>4, <2>1
<1>7. ManagerOf(a) \in ChainUp(a) \cup {Nobody}
    <2>1. 0 \in 0 .. N /\ c[0] = ManagerOf(a)
        BY <1>1, <1>2 DEF IsChain
    <2> QED
        BY <1>2, <2>1
<1>8. ASSUME NEW b \in ChainUp(a) PROVE ManagerOf(b) \in ChainUp(a) \cup {Nobody}
    <2>1. PICK i \in 0 .. N : c[i] = b /\ b # Nobody
        BY <1>2
    <2>2. i + 1 \in 1 .. N /\ i + 1 \in 0 .. N /\ (i + 1) - 1 = i
        BY <1>1, <1>3, <2>1
    <2>3. c[i + 1] = ManagerOf(b)
        BY <1>2, <2>1, <2>2 DEF IsChain
    <2> QED
        BY <1>2, <2>2, <2>3
<1> QED
    BY <1>5, <1>6, <1>7, <1>8

\* A chart that can be ranked, and what keeps it so: nobody reports to an agent
\* that does not exist yet, which reports to nobody either.
Forest ==
    /\ Managed
    /\ \E rank : Ranked(rank)
    /\ \A a \in Agents :
          status[a] = "absent" =>
             ManagerOf(a) = Nobody /\ \A b \in Agents : ManagerOf(b) # a

ForestInv == Rows /\ ChartSound /\ ManagerOf(Security) = CEO /\ Forest

\* A forest has no cycle.
LEMMA ForestNoCycle == Forest => NoCycle
BY ChainUpClosed DEF Forest, NoCycle

\* A member is put, with all that stands below it, under a manager that does
\* not stand below it: everything below it moves up in rank by as much.
LEMMA RankPlaced ==
    ASSUME Managed, NEW rank, Ranked(rank), NEW a \in Agents, NEW m \in Agents,
           \A b \in Agents \ {a} : ManagerOf(b)' = ManagerOf(b),
           ManagerOf(a)' = m,
           NEW U, U \subseteq Agents, m \in U, a \notin U,
           \A b \in U : ManagerOf(b) \in U \cup {Nobody}
    PROVE  \E new : Ranked(new)'
<1> DEFINE Closed(T) == a \in T /\ \A b \in Agents : ManagerOf(b) \in T => b \in T
           Below == {x \in Agents : \A T \in SUBSET Agents : Closed(T) => x \in T}
<1>1. Closed(Agents \ U)
    BY Members
<1>2. m \notin Below
    BY <1>1
<1>3. a \in Below
    OBVIOUS
<1>4. ASSUME NEW x \in Agents, x # a, ManagerOf(x) \in Agents
      PROVE  x \in Below <=> ManagerOf(x) \in Below
    <2>1. ManagerOf(x) \in Below => x \in Below
        OBVIOUS
    <2>2. ASSUME x \in Below, ManagerOf(x) \notin Below PROVE FALSE
        <3>1. Below \subseteq Agents /\ Closed(Below)
            OBVIOUS
        <3> HIDE DEF Below
        <3>2. Closed(Below \ {x})
            BY <1>3, <1>4, <2>2, <3>1
        <3> QED
            BY <2>2, <3>1, <3>2 DEF Below
    <2> QED
        BY <2>1, <2>2
<1> HIDE DEF Below
<1>5. PICK B : B = Below
    OBVIOUS
<1>6. PICK r \in [Agents -> Nat] : r = rank
    BY DEF Ranked
<1>7. PICK k \in Nat : k = rank[m] + 1
    BY DEF Ranked
<1> DEFINE new == [x \in Agents |-> IF x \in B THEN r[x] + k ELSE r[x]]
<1>8. new \in [Agents -> Nat]
    OBVIOUS
<1>9. ASSUME NEW x \in Agents, ManagerOf(x)' \in Agents PROVE new[ManagerOf(x)'] < new[x]
    <2>1. CASE x = a
        <3>1. new[a] = r[a] + k /\ new[m] = r[m] /\ r[m] = k - 1 /\ r[a] \in Nat
            BY <1>2, <1>3, <1>5, <1>6, <1>7
        <3> QED
            BY <2>1, <3>1
    <2>2. CASE x # a
        <3>1. ManagerOf(x)' = ManagerOf(x)
            BY <2>2
        <3>2. r[ManagerOf(x)] < r[x] /\ r[ManagerOf(x)] \in Nat /\ r[x] \in Nat
            BY <1>6, <1>9, <3>1 DEF Ranked
        <3>3. x \in B <=> ManagerOf(x) \in B
            BY <1>4, <1>5, <1>9, <2>2, <3>1
        <3>4. new[ManagerOf(x)] < new[x]
            BY <1>9, <3>1, <3>2, <3>3
        <3> QED
            BY <3>1, <3>4
    <2> QED
        BY <2>1, <2>2
<1>10. PICK n : n = new
    OBVIOUS
<1> HIDE DEF new
<1>11. Ranked(n)'
    BY <1>8, <1>9, <1>10 DEF Ranked
<1> QED
    BY <1>11

\* The orphans are put right under the CEO: everybody else moves up by one.
LEMMA RankRepaired ==
    ASSUME Managed, NEW rank, Ranked(rank), ManagerOf(CEO) = Nobody, Repairs
    PROVE  \E new : Ranked(new)'
<1>1. PICK r \in [Agents -> Nat] : r = rank
    BY DEF Ranked
<1> DEFINE new == [x \in Agents |-> IF x = CEO THEN 0 ELSE r[x] + 1]
<1>2. new \in [Agents -> Nat]
    OBVIOUS
<1>3. ASSUME NEW x \in Agents, ManagerOf(x)' \in Agents PROVE new[ManagerOf(x)'] < new[x]
    <2>1. x # CEO
        BY <1>3, Members DEF Repairs, Unmanaged
    <2>2. new[x] = r[x] + 1 /\ r[x] \in Nat
        BY <2>1
    <2>3. CASE x \in Unmanaged
        BY <2>2, <2>3, Members DEF Repairs, Core
    <2>4. CASE x \notin Unmanaged
        <3>1. ManagerOf(x)' = ManagerOf(x)
            BY <2>4 DEF Repairs
        <3>2. r[ManagerOf(x)] < r[x] /\ r[ManagerOf(x)] \in Nat
            BY <1>1, <1>3, <3>1 DEF Ranked
        <3>3. new[ManagerOf(x)] < new[x]
            BY <1>3, <2>2, <3>1, <3>2
        <3> QED
            BY <3>1, <3>3
    <2> QED
        BY <2>3, <2>4
<1>4. PICK n : n = new
    OBVIOUS
<1> HIDE DEF new
<1>5. Ranked(n)'
    BY <1>2, <1>3, <1>4 DEF Ranked
<1> QED
    BY <1>5

LEMMA ForestStep == ForestInv /\ [Next]_vars => ForestInv'
<1> SUFFICES ASSUME ForestInv, [Next]_vars PROVE ForestInv'
    OBVIOUS
<1>1. Rows' /\ ChartSound'
    BY Shapes, ChartStep DEF ForestInv, ChartInv
<1>2. PICK rank : Ranked(rank)
    BY DEF ForestInv, Forest
<1>3. /\ Managed /\ ManagerOf(Security) = CEO /\ ManagerOf(CEO) = Nobody /\ CEO \in Active
      /\ \A a \in Agents :
            status[a] = "absent" =>
               ManagerOf(a) = Nobody /\ \A b \in Agents : ManagerOf(b) # a
    BY DEF ForestInv, Forest, ChartSound
<1> DEFINE Rest == /\ Managed
                   /\ ManagerOf(Security) = CEO
                   /\ \A a \in Agents :
                         status[a] = "absent" =>
                            ManagerOf(a) = Nobody /\ \A b \in Agents : ManagerOf(b) # a
<1>4. CASE Still
    <2>1. Rest'
        BY <1>3, <1>4, Members DEF Still, Managed, Core
    <2>2. Ranked(rank)'
        BY <1>2, <1>4 DEF Still, Ranked
    <2> QED
        BY <1>1, <2>1, <2>2 DEF ForestInv, Forest
<1>5. ASSUME NEW a \in Agents \ Core, NEW m \in Agents, Places(a, m) PROVE ForestInv'
    <2>1. /\ \A b \in Agents \ {a} : status'[b] = status[b] /\ ManagerOf(b)' = ManagerOf(b)
          /\ status'[a] = "active" /\ ManagerOf(a)' = m /\ status[m] = "active"
        BY <1>5 DEF Places, MayManage, IsActive
    <2>2. Rest'
        BY <1>3, <2>1, Members DEF Managed, Managers, Core
    <2>3. PICK U \in SUBSET Agents : /\ m \in U /\ a \notin U
                                     /\ \A b \in U : ManagerOf(b) \in U \cup {Nobody}
        <3>1. CASE status[a] = "absent"
            <4>1. m \in Agents \ {a}
                BY <2>1, <3>1
            <4>2. \A b \in Agents \ {a} : ManagerOf(b) \in (Agents \ {a}) \cup {Nobody}
                BY <1>3, <3>1 DEF Managed, Managers
            <4> QED
                BY <4>1, <4>2
        <3>2. CASE a # m /\ a \notin ChainUp(m)
            <4>1. /\ ChainUp(m) \subseteq Agents
                  /\ \A b \in ChainUp(m) \cup {m} : ManagerOf(b) \in ChainUp(m) \cup {Nobody}
                BY <1>2, <1>3, ChainUpClosed
            <4> DEFINE V == ChainUp(m) \cup {m}
            <4>2. V \in SUBSET Agents /\ m \in V /\ a \notin V
                BY <3>2, <4>1
            <4>3. \A b \in V : ManagerOf(b) \in V \cup {Nobody}
                BY <4>1
            <4> HIDE DEF V
            <4> QED
                BY <4>2, <4>3
        <3> QED
            BY <1>5, <3>1, <3>2 DEF Places, WouldCycle
    <2>4. \E new : Ranked(new)'
        BY <1>2, <1>3, <2>1, <2>3, RankPlaced
    <2> QED
        BY <1>1, <2>2, <2>4 DEF ForestInv, Forest
<1>6. ASSUME NEW t \in Agents \ {CEO, HR}, Removes(t) PROVE ForestInv'
    <2>1. \A b \in Agents : ManagerOf(b)' = ManagerOf(b) \/ ManagerOf(b)' = Nobody
        BY <1>6 DEF Removes
    <2>2. ManagerOf(Security)' = CEO \/ t = CEO
        BY <1>3, <1>6, Members DEF Removes, Reports, Core
    <2>3. \A a \in Agents : status'[a] = "absent" => status[a] = "absent"
        BY <1>6 DEF Removes
    <2>4. Rest'
        BY <1>3, <2>1, <2>2, <2>3, Members DEF Managed, Managers
    <2>5. Ranked(rank)'
        BY <1>2, <2>1, Members DEF Ranked
    <2> QED
        BY <1>1, <2>4, <2>5 DEF ForestInv, Forest
<1>7. CASE Repairs
    <2>1. \A b \in Agents : ManagerOf(b)' = IF b \in Unmanaged THEN CEO ELSE ManagerOf(b)
        BY <1>7 DEF Repairs
    <2>2. \A b \in Unmanaged : b # Security /\ status[b] = "active"
        BY Members DEF Unmanaged, IsActive
    <2>3. status' = status /\ status[CEO] = "active" /\ CEO \in Agents /\ Security \in Agents
        BY <1>3, <1>7, Members DEF Repairs, Active, IsActive, Core
    <2>4. Managed'
        BY <1>3, <2>1, <2>3 DEF Managed, Managers
    <2>5. ManagerOf(Security)' = CEO
        BY <1>3, <2>1, <2>3
    <2>6. ASSUME NEW a \in Agents, status'[a] = "absent"
          PROVE  ManagerOf(a)' = Nobody /\ \A b \in Agents : ManagerOf(b)' # a
        BY <1>3, <2>1, <2>2, <2>3, <2>6
    <2>7. \E new : Ranked(new)'
        BY <1>2, <1>3, <1>7, RankRepaired
    <2> QED
        BY <1>1, <2>4, <2>5, <2>6, <2>7 DEF ForestInv, Forest
<1> QED
    BY <1>4, <1>5, <1>6, <1>7, Shapes DEF ForestInv

LEMMA ForestInit == Init => ForestInv
<1> SUFFICES ASSUME Init PROVE ForestInv
    OBVIOUS
<1>1. /\ status = [a \in Agents |-> IF a \in Core THEN "active" ELSE "absent"]
      /\ \A a \in Agents : ManagerOf(a) = IF a \in {HR, Security} THEN CEO ELSE Nobody
    BY DEF Init, ManagerOf
<1>2. Core \subseteq Agents /\ Nobody \notin Agents /\ CEO \in Core /\ HR \in Core
      /\ Security \in Core /\ CEO # HR /\ CEO # Security
    BY Members, OrgConstants DEF OrgConstants, Core
<1>3. Managed /\ ManagerOf(Security) = CEO
    BY <1>1, <1>2 DEF Managed, Managers
<1>4. ChartSound
    BY <1>1, <1>2 DEF ChartSound, Active, IsActive
<1>5. ASSUME NEW a \in Agents, status[a] = "absent"
      PROVE  ManagerOf(a) = Nobody /\ \A b \in Agents : ManagerOf(b) # a
    BY <1>1, <1>2, <1>5 DEF Core
<1>6. Ranked([a \in Agents |-> IF a = CEO THEN 0 ELSE 1])
    BY <1>1, <1>2 DEF Ranked
<1> QED
    BY <1>3, <1>4, <1>5, <1>6, RowsInit DEF ForestInv, Forest

\* Nobody is ever its own superior, however members are moved, orphaned, fired
\* and repaired, so that the walks of depth() and all_descendants() end.
THEOREM NobodyIsOwnSuperior == Spec => []NoCycle
BY ForestInit, ForestStep, ForestNoCycle, PTL DEF Spec, ForestInv

\* Where only the CEO has no manager, everybody stands under the CEO: whoever
\* of an agent's superiors ranks lowest is the CEO.
LEMMA Reunited ==
    ForestInv /\ (\A a \in Active : ManagerOf(a) = Nobody => a = CEO)
       => \A a \in Active \ {CEO} : CEO \in ChainUp(a)
<1> SUFFICES ASSUME ForestInv, \A a \in Active : ManagerOf(a) = Nobody => a = CEO,
                    NEW a \in Active \ {CEO}
             PROVE  CEO \in ChainUp(a)
    OBVIOUS
<1>1. PICK rank : Ranked(rank)
    BY DEF ForestInv, Forest
<1>2. /\ ChainUp(a) \subseteq Agents
      /\ \A b \in ChainUp(a) \cup {a} : ManagerOf(b) \in ChainUp(a) \cup {Nobody}
    BY <1>1, ChainUpClosed DEF ForestInv, Forest, Active
<1> DEFINE Line == (ChainUp(a) \cup {a}) \cap Active
           Ranks == {rank[b] : b \in Line}
<1>3. Ranks \subseteq Nat /\ Ranks # {}
    BY <1>1 DEF Ranked, Active
<1>4. PICK low \in Ranks : \A k \in Ranks : low <= k
    <2> HIDE DEF Ranks
    <2> QED
        BY <1>3, Least
<1>5. PICK b \in Line : rank[b] = low
    OBVIOUS
<1>6. ManagerOf(b) = Nobody
    <2> SUFFICES ASSUME ManagerOf(b) # Nobody PROVE FALSE
        OBVIOUS
    <2>1. ManagerOf(b) \in Active /\ ManagerOf(b) \in ChainUp(a)
        BY <1>2, <1>5 DEF ForestInv, ChartSound
    <2>2. low <= rank[ManagerOf(b)]
        BY <1>4, <2>1
    <2>3. rank[ManagerOf(b)] < rank[b] /\ rank[ManagerOf(b)] \in Nat /\ rank[b] \in Nat
        BY <1>1, <1>5, <2>1 DEF Ranked, Active
    <2> QED
        BY <1>5, <2>2, <2>3
<1> QED
    BY <1>5, <1>6

\* A restart leaves no orphan: every active agent stands under the CEO again,
\* the whole branch of a fired manager included.
THEOREM RestartsReunite == Spec => RestartReunites
<1>1. ASSUME ForestInv, ForestInv', Restart
      PROVE  (\A a \in Active \ {CEO} : CEO \in ChainUp(a))'
    <2>1. Repairs
        BY <1>1, RestartRows DEF ForestInv
    <2>2. ASSUME NEW a \in Active', ManagerOf(a)' = Nobody PROVE a = CEO
        <3>1. a \in Agents /\ a \in Active
            BY <2>1 DEF Repairs, Active, IsActive
        <3>2. a \notin Unmanaged /\ ManagerOf(a) = Nobody
            BY <2>1, <2>2, <3>1, Members DEF Repairs, Core
        <3>3. a \notin Pool
            BY <3>1, <3>2 DEF Unmanaged, Active
        <3>4. a \in Core
            BY <3>1, <3>3 DEF Agents
        <3> QED
            BY <1>1, <3>2, <3>4, Members DEF ForestInv, ChartSound, Core
    <2>3. (\A a \in Active : ManagerOf(a) = Nobody => a = CEO)'
        BY <2>2
    <2> QED
        BY <1>1, <2>3, Reunited, PTL
<1>2. ForestInv /\ ForestInv' /\ [Next]_vars =>
         [Restart => \A a \in Active' \ {CEO} : CEO \in ChainUp(a)']_vars
    BY <1>1
<1> QED
    BY <1>2, ForestInit, ForestStep, PTL DEF Spec, RestartReunites
-----------------------------------------------------------------------------
(* The log.  A method that changes the chart starts when nothing is left   *)
(* to append, and queues an event for every entry that it changes; so what *)
(* is queued is always what the chart holds.                               *)

\* What the log has to say of an entry.
Current(a, e) == IF e = "manager" /\ status[a] = "fired" THEN Gone ELSE file[a][e]

Told == Managers \cup {Gone} \cup Titles \cup Ratings \cup {Unrated}

\* An event tells the entry as the rows have it.
Tells(event, rows, files) ==
    event.is = IF event.of = "manager" /\ rows[event.agent] = "fired" THEN Gone
               ELSE files[event.agent][event.of]

TrueNews == \A i \in DOMAIN unsent : Tells(unsent[i], status, file)

LogInv ==
    /\ Rows
    /\ view \in [Agents -> [Entries -> Told]]
    /\ unsent \in Seq(News)
    /\ TrueNews
    /\ LogTellsChart

\* A method queues its news.
Announces ==
    /\ unsent = <<>>
    /\ UNCHANGED logVars
    /\ unsent' \in Seq(News)
    /\ TrueNews'
    /\ \A a \in Agents, e \in Entries : <<a, e>> \notin Pending' => Current(a, e)' = Current(a, e)

LEMMA FilesTell == File \subseteq [Entries -> Told]
<1> SUFFICES ASSUME NEW f \in File PROVE f \in [Entries -> Told]
    OBVIOUS
<1>1. PICK m \in Managers \cup {Gone}, t \in Titles, r \in Ratings \cup {Unrated} :
         f = [manager |-> m, title |-> t, rating |-> r]
    BY DEF File
<1>2. f = [e \in Entries |-> IF e = "manager" THEN m ELSE IF e = "title" THEN t ELSE r]
    BY <1>1 DEF Entries
<1> QED
    BY <1>2 DEF Told

LEMMA TellsKeeps == LogInv /\ Rows' /\ Announces => LogInv'
<1> SUFFICES ASSUME LogInv, Rows', Announces,
                    NEW a \in Agents, NEW e \in Entries, <<a, e>> \notin untold' \cup Pending'
             PROVE  view'[a][e] = Current(a, e)'
    BY DEF LogInv, Announces, logVars, LogTellsChart, Current
<1>1. Pending = {}
    BY DEF Announces, Pending
<1>2. view[a][e] = Current(a, e)
    BY <1>1 DEF LogInv, LogTellsChart, Announces, logVars, Current
<1> QED
    BY <1>2 DEF Announces, logVars

\* One event that tells the one entry that changed.
LEMMA TellsOne ==
    ASSUME Rows, Rows', unsent = <<>>, UNCHANGED logVars,
           NEW t \in Agents, NEW entry \in Entries, NEW value,
           unsent' = <<Tell(t, entry, value)>>, value \in Managers \cup {Gone} \cup Titles \cup Ratings,
           Current(t, entry)' = value,
           \A a \in Agents, e \in Entries :
              <<a, e>> # <<t, entry>> => Current(a, e)' = Current(a, e)
    PROVE  Announces
<1> DEFINE n == Tell(t, entry, value)
<1>1. n \in News /\ n.agent = t /\ n.of = entry /\ n.is = value
    BY DEF News, Tell
<1>2. unsent' \in Seq(News) /\ DOMAIN unsent' = {1} /\ unsent'[1] = n
    BY <1>1
<1> HIDE DEF n
<1>3. TrueNews'
    BY <1>1, <1>2 DEF TrueNews, Tells, Current
<1>4. Pending' = {<<t, entry>>}
    BY <1>1, <1>2 DEF Pending
<1> QED
    BY <1>2, <1>3, <1>4 DEF Announces

LEMMA HireTells ==
    ASSUME Rows, Rows', NEW a \in Pool, NEW m \in Agents, ProposeHire(a, m) PROVE Announces
<1>1. /\ a \in Agents /\ unsent = <<>> /\ UNCHANGED logVars
      /\ status' = [status EXCEPT ![a] = "active"]
      /\ file' = [file EXCEPT ![a].manager = m]
      /\ unsent' = <<Tell(a, "manager", m)>>
    BY Members DEF ProposeHire, LoopFree, HireMember, AddAgent, logVars
<1>2. Current(a, "manager")' = m
    BY <1>1 DEF Rows, File, Current
<1>3. ASSUME NEW b \in Agents, NEW e \in Entries, <<b, e>> # <<a, "manager">>
      PROVE  Current(b, e)' = Current(b, e)
    BY <1>1, <1>3 DEF Rows, File, Current, Entries
<1> QED
    BY <1>1, <1>2, <1>3, TellsOne DEF Entries, Managers

LEMMA ReassignTells ==
    ASSUME Rows, Rows', NEW actor \in Agents, NEW t \in Agents, NEW m \in Agents,
           ProposeReassign(actor, t, m)
    PROVE  Announces
<1>1. /\ unsent = <<>> /\ UNCHANGED <<status, logVars>> /\ status[t] = "active"
      /\ file' = [file EXCEPT ![t].manager = m]
      /\ unsent' = <<Tell(t, "manager", m)>>
    BY DEF ProposeReassign, LoopFree, Reassign, IsActive
<1>2. Current(t, "manager")' = m
    BY <1>1 DEF Rows, File, Current
<1>3. ASSUME NEW b \in Agents, NEW e \in Entries, <<b, e>> # <<t, "manager">>
      PROVE  Current(b, e)' = Current(b, e)
    BY <1>1, <1>3 DEF Rows, File, Current, Entries
<1> QED
    BY <1>1, <1>2, <1>3, TellsOne DEF Entries, Managers

LEMMA FeedbackTells ==
    ASSUME Rows, Rows', NEW caller, NEW t \in Agents, NEW rating \in Ratings,
           GiveFeedback(caller, t, rating)
    PROVE  Announces
<1>1. /\ unsent = <<>> /\ UNCHANGED <<status, logVars>>
      /\ file' = [file EXCEPT ![t].rating = rating]
      /\ unsent' = <<Tell(t, "rating", rating)>>
    BY DEF GiveFeedback, LoopFree, Note
<1>2. Current(t, "rating")' = rating
    BY <1>1 DEF Rows, File, Current
<1>3. ASSUME NEW b \in Agents, NEW e \in Entries, <<b, e>> # <<t, "rating">>
      PROVE  Current(b, e)' = Current(b, e)
    BY <1>1, <1>3 DEF Rows, File, Current, Entries
<1> QED
    BY <1>1, <1>2, <1>3, TellsOne DEF Entries

LEMMA RoleChangeTells ==
    ASSUME Rows, Rows', NEW caller, NEW t \in Agents, NEW title \in Titles,
           ProposeRoleChange(caller, t, title)
    PROVE  Announces
<1>1. /\ unsent = <<>> /\ UNCHANGED <<status, logVars>>
      /\ file' = [file EXCEPT ![t].title = title]
      /\ unsent' = <<Tell(t, "title", title)>>
    BY DEF ProposeRoleChange, ApplyRoleChange, UpdateRoleDetails, LoopFree, Note
<1>2. Current(t, "title")' = title
    BY <1>1 DEF Rows, File, Current
<1>3. ASSUME NEW b \in Agents, NEW e \in Entries, <<b, e>> # <<t, "title">>
      PROVE  Current(b, e)' = Current(b, e)
    BY <1>1, <1>3 DEF Rows, File, Current, Entries
<1> QED
    BY <1>1, <1>2, <1>3, TellsOne DEF Entries

LEMMA Prepended ==
    ASSUME NEW S, NEW x \in S, NEW n \in Nat, NEW f \in [1 .. n -> S]
    PROVE  /\ <<x>> \o f \in Seq(S)
           /\ DOMAIN (<<x>> \o f) = 1 .. n + 1
           /\ (<<x>> \o f)[1] = x
           /\ \A i \in 1 .. n : (<<x>> \o f)[i + 1] = f[i]
<1>1. f \in Seq(S) /\ Len(f) = n
    OBVIOUS
<1>2. <<x>> \in Seq(S) /\ Len(<<x>>) = 1
    OBVIOUS
<1> QED
    BY <1>1, <1>2

\* Firing tells the fired agent gone and every report of it an orphan.
LEMMA FireTells ==
    ASSUME Rows, Rows', \A a \in Agents : ManagerOf(a) # a,
           NEW caller, NEW t \in Agents, ProposeFire(caller, t)
    PROVE  Announces
<1>1. /\ unsent = <<>> /\ UNCHANGED logVars
      /\ status' = [status EXCEPT ![t] = "fired"]
      /\ file' = Detached(t)
    BY DEF ProposeFire, LoopFree, Fire, DoFire
<1> DEFINE n == Cardinality(Reports(t))
<1>2. PICK order \in [1 .. n -> Reports(t)] :
         /\ {order[i] : i \in DOMAIN order} = Reports(t)
         /\ unsent' = <<Tell(t, "manager", Gone)>>
                         \o [i \in DOMAIN order |-> Tell(order[i], "manager", Nobody)]
    BY DEF ProposeFire, Fire, DoFire
<1>3. n \in Nat /\ Reports(t) \subseteq Agents /\ t \notin Reports(t)
    BY ReportsFinite DEF Reports, Active
<1> HIDE DEF n
<1> DEFINE first == Tell(t, "manager", Gone)
           rest == [i \in 1 .. n |-> Tell(order[i], "manager", Nobody)]
<1>4. \A x \in Agents : Tell(x, "manager", Gone) \in News /\ Tell(x, "manager", Nobody) \in News
    BY DEF News, Tell, Entries, Managers
<1>5. first \in News /\ rest \in [1 .. n -> News]
    BY <1>3, <1>4
<1>6. unsent' = <<first>> \o rest
    BY <1>2
<1>7. /\ first = Tell(t, "manager", Gone)
      /\ \A i \in 1 .. n : rest[i] = Tell(order[i], "manager", Nobody)
    OBVIOUS
<1> HIDE DEF first, rest
<1>8. /\ unsent' \in Seq(News) /\ DOMAIN unsent' = 1 .. n + 1
      /\ unsent'[1] = first
      /\ \A i \in 1 .. n : unsent'[i + 1] = rest[i]
    <2>1. /\ <<first>> \o rest \in Seq(News)
          /\ DOMAIN (<<first>> \o rest) = 1 .. n + 1
          /\ (<<first>> \o rest)[1] = first
          /\ \A i \in 1 .. n : (<<first>> \o rest)[i + 1] = rest[i]
        BY <1>3, <1>5, Prepended
    <2> QED
        BY <1>6, <2>1
<1>9. \A i \in 2 .. n + 1 : i - 1 \in 1 .. n /\ unsent'[i] = rest[i - 1]
    <2>1. ASSUME NEW i \in 2 .. n + 1 PROVE i - 1 \in 1 .. n /\ unsent'[i] = rest[i - 1]
        <3>1. i - 1 \in 1 .. n /\ (i - 1) + 1 = i
            BY <1>3
        <3> QED
            BY <1>8, <3>1
    <2> QED
        BY <2>1
<1>10. Current(t, "manager")' = Gone
    BY <1>1 DEF Rows, Current
<1>11. \A r \in Reports(t) : Current(r, "manager")' = Nobody
    BY <1>1, <1>3 DEF Rows, File, Current, Detached, Reports, Active, IsActive
<1>12. TrueNews'
    <2>1. ASSUME NEW i \in 1 .. n + 1 PROVE Tells(unsent'[i], status', file')
        <3>1. CASE i = 1
            BY <1>7, <1>8, <1>10, <3>1 DEF Tell, Tells, Current
        <3>2. CASE i # 1
            <4>1. i - 1 \in 1 .. n /\ unsent'[i] = Tell(order[i - 1], "manager", Nobody)
                BY <1>3, <1>7, <1>9, <3>2
            <4>2. order[i - 1] \in Reports(t)
                BY <1>2, <4>1
            <4> QED
                BY <1>11, <4>1, <4>2 DEF Tell, Tells, Current
        <3> QED
            BY <3>1, <3>2
    <2> QED
        BY <1>8, <2>1 DEF TrueNews
<1>13. ASSUME NEW a \in Agents, NEW e \in Entries, <<a, e>> \notin Pending'
       PROVE  Current(a, e)' = Current(a, e)
    <2>1. \A i \in 1 .. n + 1 : <<a, e>> # <<unsent'[i].agent, unsent'[i].of>>
        BY <1>8, <1>13 DEF Pending
    <2>2. <<a, e>> # <<t, "manager">>
        <3>1. 1 \in 1 .. n + 1
            BY <1>3
        <3> QED
            BY <1>7, <1>8, <2>1, <3>1 DEF Tell
    <2>3. e = "manager" => a \notin Reports(t)
        <3> SUFFICES ASSUME e = "manager", a \in Reports(t) PROVE FALSE
            OBVIOUS
        <3>1. PICK i \in 1 .. n : order[i] = a
            BY <1>2
        <3>2. i + 1 \in 1 .. n + 1 /\ unsent'[i + 1] = Tell(a, "manager", Nobody)
            BY <1>3, <1>7, <1>8, <3>1
        <3> QED
            BY <2>1, <3>2 DEF Tell
    <2> QED
        BY <1>1, <2>2, <2>3 DEF Rows, File, Current, Detached, Entries
<1> QED
    BY <1>1, <1>8, <1>12, <1>13 DEF Announces

\* The first event in the queue is told.
LEMMA AppendKeeps == LogInv /\ Rows' /\ AppendEvent => LogInv'
<1> SUFFICES ASSUME LogInv, Rows', AppendEvent PROVE LogInv'
    OBVIOUS
<1>1. /\ unsent # <<>> /\ unsent \in Seq(News) /\ unsent' = Tail(unsent)
      /\ UNCHANGED <<status, file>>
    BY DEF AppendEvent, LogInv
<1>2. PICK x \in Agents, e \in Entries, v \in Told :
         Head(unsent) = [agent |-> x, of |-> e, is |-> v]
    <2>1. Head(unsent) \in News
        BY <1>1
    <2> QED
        BY <2>1 DEF News, Told
<1>3. /\ view' = [view EXCEPT ![x][e] = v]
      /\ untold' = untold \ {<<x, e>>}
    <2> DEFINE h == Head(unsent)
    <2>1. /\ view' = [view EXCEPT ![h.agent][h.of] = h.is]
          /\ untold' = untold \ {<<h.agent, h.of>>}
        BY DEF AppendEvent
    <2>2. h.agent = x /\ h.of = e /\ h.is = v
        BY <1>2
    <2> HIDE DEF h
    <2> QED
        BY <2>1, <2>2
<1>4. /\ unsent' \in Seq(News)
      /\ DOMAIN unsent = 1 .. Len(unsent) /\ DOMAIN unsent' = 1 .. Len(unsent) - 1
      /\ 1 \in 1 .. Len(unsent) /\ unsent[1] = Head(unsent)
      /\ \A i \in 1 .. Len(unsent) - 1 : i + 1 \in 1 .. Len(unsent) /\ unsent'[i] = unsent[i + 1]
    BY <1>1
<1>5. view' \in [Agents -> [Entries -> Told]]
    BY <1>3 DEF LogInv
<1>6. TrueNews'
    BY <1>1, <1>4 DEF LogInv, TrueNews
<1>7. v = Current(x, e)
    <2>1. Tells(unsent[1], status, file)
        BY <1>4 DEF LogInv, TrueNews
    <2> QED
        BY <1>2, <1>4, <2>1 DEF Tells, Current
<1>8. Pending \subseteq Pending' \cup {<<x, e>>}
    <2>1. ASSUME NEW i \in 1 .. Len(unsent)
          PROVE  <<unsent[i].agent, unsent[i].of>> \in Pending' \cup {<<x, e>>}
        <3>1. CASE i = 1
            BY <1>2, <1>4, <3>1
        <3>2. CASE i # 1
            <4>1. i - 1 \in 1 .. Len(unsent) - 1 /\ (i - 1) + 1 = i
                BY <1>1, <3>2
            <4>2. unsent'[i - 1] = unsent[i]
                BY <1>4, <4>1
            <4> QED
                BY <1>4, <4>1, <4>2 DEF Pending
        <3> QED
            BY <3>1, <3>2
    <2> QED
        BY <1>4, <2>1 DEF Pending
<1>9. ASSUME NEW a \in Agents, NEW f \in Entries, <<a, f>> \notin untold' \cup Pending'
      PROVE  view'[a][f] = Current(a, f)
    <2>1. CASE <<a, f>> = <<x, e>>
        <3>1. view'[x][e] = v
            BY <1>3 DEF LogInv
        <3> QED
            BY <1>7, <2>1, <3>1
    <2>2. CASE <<a, f>> # <<x, e>>
        <3>1. <<a, f>> \notin untold \cup Pending
            BY <1>3, <1>8, <1>9, <2>2
        <3>2. view'[a][f] = view[a][f]
            BY <1>3, <2>2 DEF LogInv
        <3> QED
            BY <3>1, <3>2 DEF LogInv, LogTellsChart, Current
    <2> QED
        BY <2>1, <2>2
<1>10. LogTellsChart'
    BY <1>1, <1>9 DEF LogTellsChart, Current
<1> QED
    BY <1>4, <1>5, <1>6, <1>10 DEF LogInv

\* A death loses what is queued, and a restart changes no more than the
\* managers of the orphans; both are noted as untold.
LEMMA DeathKeeps == LogInv /\ Rows' /\ (Restart \/ RestartFails) => LogInv'
<1> SUFFICES ASSUME LogInv, Rows', Restart \/ RestartFails PROVE LogInv'
    OBVIOUS
<1>1. UNCHANGED <<status, view>> /\ unsent' = <<>> /\ Pending \subseteq untold'
      /\ untold \subseteq untold'
    BY DEF Restart, RestartFails, Die
<1>2. \A a \in Agents, e \in Entries :
         <<a, e>> \in untold' \/ file'[a][e] = file[a][e]
    <2>1. CASE RestartFails
        BY <2>1 DEF RestartFails
    <2>2. CASE Restart
        <3>1. ASSUME NEW a \in Agents, NEW e \in Entries, <<a, e>> \notin untold'
              PROVE  file'[a][e] = file[a][e]
            <4>1. a \notin Unmanaged \/ e # "manager"
                BY <2>2, <3>1 DEF Restart
            <4>2. file'[a] = IF a \in Unmanaged THEN [file[a] EXCEPT !.manager = CEO] ELSE file[a]
                BY <2>2 DEF Restart
            <4> QED
                BY <4>1, <4>2 DEF LogInv, Rows, File, Entries
        <3> QED
            BY <3>1
    <2> QED
        BY <2>1, <2>2
<1>3. unsent' \in Seq(News) /\ TrueNews'
    BY <1>1 DEF TrueNews
<1>4. ASSUME NEW a \in Agents, NEW e \in Entries, <<a, e>> \notin untold'
      PROVE  view'[a][e] = IF e = "manager" /\ status'[a] = "fired" THEN Gone ELSE file'[a][e]
    BY <1>1, <1>2, <1>4 DEF LogInv, LogTellsChart
<1> QED
    BY <1>1, <1>3, <1>4 DEF LogInv, LogTellsChart

LEMMA LogStep == LogInv /\ ForestInv /\ [Next]_vars => LogInv'
<1> SUFFICES ASSUME LogInv, ForestInv, [Next]_vars PROVE LogInv'
    OBVIOUS
<1>1. Rows /\ Rows'
    BY Shapes DEF LogInv
<1>2. CASE AppendEvent
    BY <1>1, <1>2, AppendKeeps
<1>3. CASE Restart \/ RestartFails
    BY <1>1, <1>3, DeathKeeps
<1>4. CASE EndHire \/ UNCHANGED vars
    <2>1. UNCHANGED <<status, file, unsent, view, untold>>
        BY <1>4 DEF EndHire, logVars, vars
    <2>2. Pending' = Pending /\ (TrueNews <=> TrueNews')
        BY <2>1 DEF Pending, TrueNews
    <2> QED
        BY <1>1, <2>1, <2>2 DEF LogInv, LogTellsChart
<1>5. ASSUME NEW a \in Pool, NEW m \in Agents, ProposeHire(a, m) PROVE Announces
    BY <1>1, <1>5, HireTells
<1>6. ASSUME NEW actor \in Agents, NEW t \in Agents, NEW m \in Agents,
             ProposeReassign(actor, t, m)
      PROVE  Announces
    BY <1>1, <1>6, ReassignTells
<1>7. ASSUME NEW caller, NEW t \in Agents, ProposeFire(caller, t) PROVE Announces
    <2>1. PICK rank : Ranked(rank)
        BY DEF ForestInv, Forest
    <2>2. \A a \in Agents : ManagerOf(a) # a
        BY <2>1 DEF Ranked
    <2> QED
        BY <1>1, <1>7, <2>2, FireTells
<1>8. ASSUME NEW caller, NEW t \in Agents, NEW rating \in Ratings, GiveFeedback(caller, t, rating)
      PROVE  Announces
    BY <1>1, <1>8, FeedbackTells
<1>9. ASSUME NEW caller, NEW t \in Agents, NEW title \in Titles,
             ProposeRoleChange(caller, t, title)
      PROVE  Announces
    BY <1>1, <1>9, RoleChangeTells
<1>10. ASSUME NEW self \in Agents, NEW t \in Agents,
             \/ ExecProposeFire(self, t)
             \/ \E rating \in Ratings : ExecGiveFeedback(self, t, rating)
             \/ \E title \in Titles : ExecProposeRoleChange(self, t, title)
      PROVE  Announces
    BY <1>7, <1>8, <1>9, <1>10 DEF ExecProposeFire, ExecGiveFeedback, ExecProposeRoleChange
<1>11. ASSUME NEW named \in Managers, NEW t \in Agents,
             \/ BoardFire(named, t)
             \/ \E rating \in Ratings : BoardFeedback(named, t, rating)
             \/ \E title \in Titles : BoardRoleChange(named, t, title)
      PROVE  Announces
    BY <1>7, <1>8, <1>9, <1>11 DEF BoardFire, BoardFeedback, BoardRoleChange
<1>12. CASE Announces
    BY <1>1, <1>12, TellsKeeps
<1> QED
    BY <1>2, <1>3, <1>4, <1>5, <1>6, <1>10, <1>11, <1>12 DEF Next

\* The log tells every agent's manager, title and rating as the rows have them,
\* but for what is queued, what a crash took and what a restart repaired.
THEOREM LogIsChart == Spec => []LogTellsChart
<1>1. ASSUME Init PROVE LogInv
    <2>1. view = file /\ unsent = <<>> /\ \A a \in Agents : status[a] # "fired"
        BY <1>1 DEF Init
    <2>2. Rows
        BY <1>1, RowsInit
    <2>3. view \in [Agents -> [Entries -> Told]]
        BY <2>1, <2>2, FilesTell DEF Rows
    <2>4. unsent \in Seq(News) /\ TrueNews
        BY <2>1 DEF TrueNews
    <2>5. LogTellsChart
        BY <2>1 DEF LogTellsChart
    <2> QED
        BY <2>2, <2>3, <2>4, <2>5 DEF LogInv
<1>2. ForestInv /\ LogInv /\ [Next]_vars => (ForestInv /\ LogInv)'
    BY ForestStep, LogStep
<1>3. LogInv => LogTellsChart
    BY DEF LogInv
<1> QED
    BY <1>1, <1>2, <1>3, ForestInit, PTL DEF Spec
=============================================================================
