-------------------------------- MODULE Org --------------------------------
(***************************************************************************)
(* The org chart of one company (modules/identity/org.py), changed by the  *)
(* agents' governance tools (modules/tools/builtin.py) and the Board's     *)
(* agent routes (modules/board_api/routes/agents.py) through               *)
(* modules/performance/service.py, and by the hire and repair steps of     *)
(* modules/factory/bootstrap.py.                                           *)
(*                                                                         *)
(* All of this code runs on one event loop and awaits nothing between its  *)
(* checks and its transaction, so a method is one step, followed by one    *)
(* step for every event it appends after COMMIT, and in a hire by one for  *)
(* the new workspace; the process may die between any two.                 *)
(*                                                                         *)
(* Requests of the kinds hire, role_change and fire_depth_1 cannot be made *)
(* any more, and what an older version left of them is cancelled at every  *)
(* start, so complete_fire and complete_role_change are never reached.     *)
(***************************************************************************)
EXTENDS Integers, Sequences, FiniteSets

CONSTANTS
    CEO, HR, Security,  \* the agents that bootstrap creates
    Pool,               \* ids of the members that may be hired
    Nobody,             \* NULL
    MaxActiveAgents,    \* MAX_ACTIVE_AGENTS
    MaxCeoReports,      \* MAX_CEO_DIRECT_REPORTS
    MaxManagerReports,  \* MAX_MANAGER_DIRECT_REPORTS
    Titles,             \* role titles
    FirstTitle,         \* the title that everybody starts with
    Ratings,            \* ratings of a feedback
    Unrated,
    MaxNotes,           \* bound: role changes and feedbacks
    MaxCrashes          \* bound: crashes of the process

Core == {CEO, HR, Security}   \* SPECIAL_ROLES; every other agent is a MEMBER
Agents == Core \cup Pool

ASSUME OrgConstants ==
    /\ CEO # HR /\ CEO # Security /\ HR # Security
    /\ IsFiniteSet(Pool)
    /\ Core \cap Pool = {}
    /\ Nobody \notin Agents
    /\ {MaxActiveAgents, MaxCeoReports, MaxManagerReports, MaxNotes,
        MaxCrashes} \subseteq Nat
    /\ MaxCeoReports >= 2   \* HR and Security
    /\ FirstTitle \in Titles

VARIABLES
    status,     \* of the row of each agent, "absent" without one
    file,       \* the rest of its row and its last feedback
    housed,     \* agents with a workspace
    hiring,     \* the member that is being hired
    unsent,     \* events that the method in progress still has to append
    view,       \* the files as the event log tells them
    untold,     \* entries of files whose last change the log does not tell
    cutShort,   \* members whose hire the process did not survive
    overfull,   \* the repair at a restart took the CEO over its limit
    notes,      \* role changes and feedbacks so far
    crashes,    \* crashes so far
    up          \* the company is attached; FALSE once its restart failed

vars == <<status, file, housed, hiring, unsent, view, untold, cutShort, overfull, notes,
          crashes, up>>
logVars == <<view, untold>>
pastVars == <<cutShort, overfull, crashes, up>>

Managers == Agents \cup {Nobody}
Gone == "gone"   \* what AGENT_FIRED tells instead of a manager

File == [manager : Managers \cup {Gone}, title : Titles, rating : Ratings \cup {Unrated}]
Entries == {"manager", "title", "rating"}
News == [agent : Agents, of : Entries, is : Managers \cup {Gone} \cup Titles \cup Ratings]

TypeOK ==
    /\ status \in [Agents -> {"absent", "active", "fired"}]
    /\ file \in [Agents -> File]
    /\ housed \subseteq Agents
    /\ hiring \in Pool \cup {Nobody}
    /\ unsent \in Seq(News)
    /\ view \in [Agents -> File]
    /\ untold \subseteq Agents \X Entries
    /\ cutShort \subseteq Agents
    /\ overfull \in BOOLEAN
    /\ notes \in 0 .. MaxNotes
    /\ crashes \in 0 .. MaxCrashes
    /\ up \in BOOLEAN

-----------------------------------------------------------------------------
(* Queries. *)

IsActive(a) == status[a] = "active"   \* _get_active
Active == {a \in Agents : IsActive(a)}
ManagerOf(a) == file[a].manager

\* direct_reports, direct_report_count
Reports(m) == {a \in Active : ManagerOf(a) = m}

\* _direct_report_limit
Limit(m) == IF m = CEO THEN MaxCeoReports ELSE MaxManagerReports

\* chain_up, as depth() and the cycle check of reassign() walk it: through
\* reports_to, whatever the status of the agents on the way.
ChainUp(a) ==
    LET above[n \in 0 .. Cardinality(Agents)] ==
            IF n = 0 THEN ManagerOf(a)
            ELSE IF above[n - 1] = Nobody THEN Nobody ELSE ManagerOf(above[n - 1])
    IN {above[n] : n \in 0 .. Cardinality(Agents)} \ {Nobody}

\* The loop is free: no method is appending its events, no hire is under way.
LoopFree == up /\ unsent = <<>> /\ hiring = Nobody

Tell(a, entry, value) == [agent |-> a, of |-> entry, is |-> value]
Pending == {<<unsent[i].agent, unsent[i].of>> : i \in DOMAIN unsent}

\* Events are appended one at a time after COMMIT.
AppendEvent ==
    /\ up
    /\ unsent # <<>>
    /\ LET e == Head(unsent)
       IN /\ view' = [view EXCEPT ![e.agent][e.of] = e.is]
          /\ untold' = untold \ {<<e.agent, e.of>>}
    /\ unsent' = Tail(unsent)
    /\ UNCHANGED <<status, file, housed, hiring, notes, pastVars>>

-----------------------------------------------------------------------------
(* Hiring. *)

\* Mutant: the limit counts up to and including the limit.
HasRoomOffByOne(m) == Cardinality(Reports(m)) <= Limit(m)

\* The span-of-control check of add_agent and reassign.
HasRoom(m) == Cardinality(Reports(m)) < Limit(m)

\* What a member's manager has to be: active, not HR (HR manages only HR
\* agents, and every hire is a MEMBER), and with room for one more.
MayManage(m) ==
    /\ IsActive(m)
    /\ m # HR
    /\ HasRoom(m)

\* add_agent; AGENT_HIRED tells the manager and the title.
AddAgent(a, m) ==
    /\ status[a] = "absent"
    /\ Cardinality(Active) < MaxActiveAgents
    /\ MayManage(m)
    /\ status' = [status EXCEPT ![a] = "active"]
    /\ file' = [file EXCEPT ![a].manager = m]
    /\ unsent' = <<Tell(a, "manager", m)>>

\* hire_member of the runtime's hire service: the row comes first.  The
\* duplicate hire approvals that it cancels at the end do not exist any more.
HireMember(a, m) ==
    /\ AddAgent(a, m)
    /\ hiring' = a

\* propose_hire, a tool of HR only.
ProposeHire(a, m) ==
    /\ LoopFree
    /\ IsActive(HR)
    /\ HireMember(a, m)
    /\ UNCHANGED <<housed, logVars, notes, pastVars>>

\* The rest of _hire_member_from_payload: the workspace is created, the agent
\* registered and started, and the new hire, its manager and HR are sent their
\* messages.  No call of it suspends.
EndHire ==
    /\ up /\ unsent = <<>> /\ hiring # Nobody
    /\ housed' = housed \cup {hiring}
    /\ hiring' = Nobody
    /\ UNCHANGED <<status, file, unsent, logVars, notes, pastVars>>

-----------------------------------------------------------------------------
(* Moving and firing. *)

\* Mutant: only the new manager itself is looked at, not the chain above it.
WouldCycleDirect(t, m) == ManagerOf(m) = t

\* The cycle check of reassign.
WouldCycle(t, m) == t \in ChainUp(m)

\* reassign.  To the manager it has already: no-op.
Reassign(actor, t, m) ==
    /\ t # m
    /\ IsActive(t) /\ t \notin Core
    /\ ManagerOf(t) # m
    /\ IsActive(actor)
    /\ actor = CEO \/ actor = ManagerOf(t)
    /\ MayManage(m)
    /\ ~ WouldCycle(t, m)
    /\ file' = [file EXCEPT ![t].manager = m]
    /\ unsent' = <<Tell(t, "manager", m)>>

\* propose_reassign, a tool of everybody.
ProposeReassign(actor, t, m) ==
    /\ LoopFree
    /\ Reassign(actor, t, m)
    /\ UNCHANGED <<status, housed, hiring, logVars, notes, pastVars>>

Detached(t) ==
    [a \in Agents |-> IF a \in Reports(t) THEN [file[a] EXCEPT !.manager = Nobody] ELSE file[a]]

\* Mutant: the reports of a fired agent keep it as their manager.
DoFireKeepsReports(t) ==
    /\ status' = [status EXCEPT ![t] = "fired"]
    /\ UNCHANGED file
    /\ unsent' = <<Tell(t, "manager", Gone)>>

\* Mutant: the reports of a fired agent are detached and not announced.
DoFireQuietly(t) ==
    /\ status' = [status EXCEPT ![t] = "fired"]
    /\ file' = Detached(t)
    /\ unsent' = <<Tell(t, "manager", Gone)>>

\* _do_fire: the reports of t are detached and t keeps its own manager.  The
\* events follow: AGENT_FIRED, AGENT_FIRE_NOTIFY (which tells nothing of the
\* chart) and one AGENT_ORPHANED for each report.
DoFire(t) ==
    /\ status' = [status EXCEPT ![t] = "fired"]
    /\ file' = Detached(t)
    /\ \E order \in [1 .. Cardinality(Reports(t)) -> Reports(t)] :
          /\ {order[i] : i \in DOMAIN order} = Reports(t)
          /\ unsent' = <<Tell(t, "manager", Gone)>>
                           \o [i \in DOMAIN order |-> Tell(order[i], "manager", Nobody)]

\* fire(): the CEO and the last HR are protected (there is never a second HR),
\* and the actor has to stand above the target.
Fire(actor, t) ==
    /\ IsActive(actor) /\ IsActive(t)
    /\ actor # t
    /\ t \notin {CEO, HR}
    /\ actor \in ChainUp(t)
    /\ DoFire(t)

\* propose_fire of the performance service asks for nothing more.
ProposeFire(caller, t) ==
    /\ LoopFree
    /\ Fire(caller, t)
    /\ UNCHANGED <<housed, hiring, logVars, notes, pastVars>>

\* The tool propose_fire, of everybody.
ExecProposeFire(self, t) == ProposeFire(self, t)

\* _default_manager: who acts for the Board when it names nobody.  Without a
\* manager the route refuses.
DefaultManager(named, t) == IF named = Nobody THEN ManagerOf(t) ELSE named

\* The Board's route.
BoardFire(named, t) ==
    LET caller == DefaultManager(named, t)
    IN caller # Nobody /\ ProposeFire(caller, t)

-----------------------------------------------------------------------------
(* Performance: what a manager notes in the file of a report. *)

\* _require_feedback_authority
RequireFeedbackAuthority(caller, t) ==
    /\ IsActive(caller) /\ IsActive(t)
    /\ ManagerOf(t) = caller \/ caller = CEO

\* _require_direct_manager
RequireDirectManager(caller, t) ==
    /\ IsActive(caller) /\ IsActive(t)
    /\ ManagerOf(t) = caller

Note ==
    /\ notes < MaxNotes
    /\ notes' = notes + 1
    /\ UNCHANGED <<status, housed, hiring, logVars, pastVars>>

\* give_feedback
GiveFeedback(caller, t, rating) ==
    /\ LoopFree
    /\ RequireFeedbackAuthority(caller, t)
    /\ file' = [file EXCEPT ![t].rating = rating]
    /\ unsent' = <<Tell(t, "rating", rating)>>
    /\ Note

\* update_role_details, of an active agent
UpdateRoleDetails(t, title) ==
    /\ IsActive(t)
    /\ file' = [file EXCEPT ![t].title = title]

\* _apply_role_change.  It tells the change twice: as AGENT_PROMOTED and as a
\* message to HR, which is an event only.
ApplyRoleChange(t, title) ==
    /\ UpdateRoleDetails(t, title)
    /\ unsent' = <<Tell(t, "title", title)>>

\* propose_role_change
ProposeRoleChange(caller, t, title) ==
    /\ LoopFree
    /\ RequireDirectManager(caller, t)
    /\ ApplyRoleChange(t, title)
    /\ Note

\* The tools, of everybody.
ExecGiveFeedback(self, t, rating) == GiveFeedback(self, t, rating)
ExecProposeRoleChange(self, t, title) == ProposeRoleChange(self, t, title)

\* The Board's routes.
BoardFeedback(named, t, rating) ==
    LET caller == DefaultManager(named, t)
    IN caller # Nobody /\ GiveFeedback(caller, t, rating)

BoardRoleChange(named, t, title) ==
    LET caller == DefaultManager(named, t)
    IN caller # Nobody /\ ProposeRoleChange(caller, t, title)

-----------------------------------------------------------------------------
(* The process. *)

\* Mutant: nobody is found to be without a manager.
UnmanagedNone == {}

\* _repair_unmanaged_members_to_ceo: the members it finds.
Unmanaged == {a \in Pool : IsActive(a) /\ ManagerOf(a) = Nobody}

\* What was in memory is gone.
Die ==
    /\ up
    /\ crashes < MaxCrashes
    /\ crashes' = crashes + 1
    /\ unsent' = <<>>
    /\ hiring' = Nobody
    /\ cutShort' = cutShort \cup ({hiring} \ {Nobody})
    /\ UNCHANGED <<status, housed, view, notes>>

\* The process dies and the company is built again from its database.  The
\* repair puts members without a manager under the CEO, whatever the CEO's
\* limit, and tells it in a message, not as an event of the chart.
Restart ==
    /\ Die
    /\ Core \subseteq Active
    /\ file' = [a \in Agents |-> IF a \in Unmanaged THEN [file[a] EXCEPT !.manager = CEO]
                                  ELSE file[a]]
    /\ untold' = untold \cup Pending \cup (Unmanaged \X {"manager"})
    /\ overfull' = (overfull \/ Cardinality(Reports(CEO) \cup Unmanaged) > MaxCeoReports)
    /\ UNCHANGED up

\* _existing_core_ids raises when a bootstrap role is missing: the factory marks
\* the company FAILED and never attaches it again.
RestartFails ==
    /\ Die
    /\ ~ Core \subseteq Active
    /\ up' = FALSE
    /\ untold' = untold \cup Pending
    /\ UNCHANGED <<file, overfull>>

\* A fresh company: _bootstrap_core_agents.
Init ==
    /\ status = [a \in Agents |-> IF a \in Core THEN "active" ELSE "absent"]
    /\ file = [a \in Agents |-> [manager |-> IF a \in {HR, Security} THEN CEO ELSE Nobody,
                                 title |-> FirstTitle, rating |-> Unrated]]
    /\ housed = Core
    /\ hiring = Nobody
    /\ unsent = <<>>
    /\ view = file
    /\ untold = {}
    /\ cutShort = {}
    /\ overfull = FALSE
    /\ notes = 0
    /\ crashes = 0
    /\ up = TRUE

Next ==
    \/ AppendEvent
    \/ \E a \in Pool, m \in Agents : ProposeHire(a, m)
    \/ EndHire
    \/ \E actor, t, m \in Agents : ProposeReassign(actor, t, m)
    \/ \E self, t \in Agents :
          \/ ExecProposeFire(self, t)
          \/ \E rating \in Ratings : ExecGiveFeedback(self, t, rating)
          \/ \E title \in Titles : ExecProposeRoleChange(self, t, title)
    \/ \E named \in Managers, t \in Agents :
          \/ BoardFire(named, t)
          \/ \E rating \in Ratings : BoardFeedback(named, t, rating)
          \/ \E title \in Titles : BoardRoleChange(named, t, title)
    \/ Restart \/ RestartFails

Spec == Init /\ [][Next]_vars
-----------------------------------------------------------------------------
(* Properties. *)

\* The chart is a forest: no agent is its own superior, however members are
\* moved, orphaned, fired and repaired.  depth(), which fire() calls, and
\* all_descendants() walk the chart without a guard and would never return.
NoCycle == \A a \in Agents : a \notin ChainUp(a)

\* Nobody who works for the company reports to somebody who does not, and
\* neither the CEO nor the company's HR is ever gone or under anybody else: an
\* active agent's manager is active, or it is an orphan.
ChartSound ==
    /\ \A a \in Active : ManagerOf(a) \in Active \cup {Nobody}
    /\ {CEO, HR} \subseteq Active
    /\ ManagerOf(CEO) = Nobody
    /\ ManagerOf(HR) = CEO

\* Everybody who works for the company can write files, but for the members
\* whose hire died between their row and their workspace: nothing repairs them.
EverybodyHoused == Active \subseteq housed \cup cutShort \cup {hiring}

\* No manager has more direct reports than add_agent and reassign allow, but
\* the CEO after a repair that took in the orphans of a fired manager.
SpanOfControl ==
    \A m \in Agents : Cardinality(Reports(m)) > Limit(m) => m = CEO /\ overfull

\* The event log tells the chart: for every agent, the last event of each kind
\* names its manager (or says that it is an orphan, or fired), its title and
\* its rating.  What is missing is what a crash took between COMMIT and append,
\* and the repairs of a restart.
LogTellsChart ==
    \A a \in Agents, e \in Entries :
        <<a, e>> \notin untold \cup Pending =>
            view[a][e] = IF e = "manager" /\ status[a] = "fired" THEN Gone ELSE file[a][e]

\* A restart leaves no orphan: every active agent stands under the CEO again,
\* the whole branch of a fired manager included.
RestartReunites ==
    [][Restart => \A a \in Active' \ {CEO} : CEO \in ChainUp(a)']_vars
=============================================================================
