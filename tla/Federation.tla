----------------------------- MODULE Federation -----------------------------
(***************************************************************************)
(* Links between companies (modules/board_api/links.py and its routes) and *)
(* the messages sent over them (modules/inter_company/service.py and its   *)
(* connector service), on top of the companies of one server.              *)
(*                                                                         *)
(* No method here suspends: system_send awaits nothing on its way, so to   *)
(* send a message and to write its row in the outbox is one step.  A crash *)
(* between the two loses the queue, which is in memory, and the row: it    *)
(* leaves what a crash before the two would leave.                         *)
(*                                                                         *)
(* deliver_pending is a public operation of the service; nothing in the    *)
(* repository but its tests calls it.                                      *)
(***************************************************************************)
EXTENDS Companies

CONSTANTS
    Link,       \* ids of links
    Message,    \* messages that agents send over links
    InScope,    \* those of a kind and a size that the scope of a link allows
    HourlyCap   \* rate_limit_per_hour of every link; 0 is no limit

ASSUME FederationConstants ==
    /\ InScope \subseteq Message
    /\ HourlyCap \in Nat

VARIABLES
    link,    \* the table board_links
    outbox,  \* status of each message in the outbox, "none" without a row
    over,    \* the link it was sent over
    inbox,   \* "none", "waiting" in the memory of the target, or "read"
    reads,   \* how often it was read
    recent,  \* timestamps of the last hour in the bucket of each link
    paused   \* companies whose clock does not run

linkVars == <<link>>
crossVars == <<outbox, over, inbox, reads, recent, paused>>
vars == <<companyVars, linkVars, crossVars>>

NoLink == [from |-> None, to |-> None, status |-> "none"]
Live == {"approved", "suspended"}

FederationTypeOK ==
    /\ CompaniesTypeOK
    /\ link \in [Link -> [from : Company \cup {None}, to : Company \cup {None},
                          status : Live \cup {"none", "requested", "denied", "revoked"}]]
    /\ outbox \in [Message -> {"none", "queued", "delivered", "rejected"}]
    /\ over \in [Message -> Link \cup {None}]
    /\ inbox \in [Message -> {"none", "waiting", "read"}]
    /\ reads \in [Message -> Nat]
    /\ recent \in [Link -> Nat]
    /\ paused \subseteq Company

-----------------------------------------------------------------------------
(* Links. *)

\* UNIQUE (from_company, to_company, status), which also counts old rows.
Unique(table) ==
    \A k, l \in Link :
        k # l /\ table[k].status # "none" => table[k] # table[l]

\* An UPDATE or INSERT is rolled back when it breaks the constraint: request
\* reports it as LinkAlreadyExists, the others let IntegrityError through.
Write(table) == link' = IF Unique(table) THEN table ELSE link

\* request: both companies exist and are neither closed nor failed.
RequestLink(l, a, b) ==
    /\ LoopFree
    /\ link[l] = NoLink
    /\ a # b
    /\ {row[a], row[b]} \cap {"none", "closed", "failed"} = {}
    /\ Write([link EXCEPT ![l] = [from |-> a, to |-> b, status |-> "requested"]])
    /\ UNCHANGED <<companyVars, crossVars>>

SetStatus(l, from, to) ==
    /\ LoopFree
    /\ link[l].status \in from
    /\ Write([link EXCEPT ![l].status = to])
    /\ UNCHANGED <<companyVars, crossVars>>

Decide(l) == \E s \in {"approved", "denied"} : SetStatus(l, {"requested"}, s)
Revoke(l) == SetStatus(l, Live, "revoked")
Suspend(l) == SetStatus(l, {"approved"}, "suspended")
Resume(l) == SetStatus(l, {"suspended"}, "approved")

\* The route by which any user but an observer asks for a link, and those by
\* which an admin decides on it.
RequestRoute(l, a, b) == RequestLink(l, a, b)
LinkRoute(l) == Decide(l) \/ Revoke(l) \/ Suspend(l) \/ Resume(l)

LinksOf(c) == {l \in Link : c \in {link[l].from, link[l].to}}

\* revoke_for_company, with which the routes that close a company end: one
\* UPDATE of all its live links.
RevokeForCompany(r) ==
    LET mine == {l \in LinksOf(job[r].company) : link[l].status \in Live}
    IN /\ job[r].at = "deleted"
       /\ Write([l \in Link |-> IF l \in mine THEN [link[l] EXCEPT !.status = "revoked"]
                                ELSE link[l]])
       /\ job' = [job EXCEPT ![r] = Idle]
       /\ UNCHANGED <<up, born, row, disk, handles, live, watched, crossVars>>

-----------------------------------------------------------------------------
(* Messages. *)

\* _get_target_handle
Reachable(c) == row[c] \notin {"none", "closed", "failed"} /\ c \in handles

\* The clock of a company is running unless the Board or its close paused it.
Accepts(c) == c \in live \ paused

\* _map_result of what system_send returns: pushed, or the company is paused.
MapResult(c) == IF Accepts(c) THEN "delivered" ELSE "queued"

\* _lookup_link
LookupLink(l) == link[l] # NoLink

\* _enforce_direction: only the company the link starts at sends over it.
EnforceDirection(l, c) == link[l].from = c

\* _enforce_status
EnforceStatus(l) == link[l].status = "approved"

\* _enforce_scope
EnforceScope(m) == m \in InScope

\* _enforce_rate: the message takes its place in the bucket at once.
EnforceRate(l) ==
    /\ HourlyCap = 0 \/ recent[l] < HourlyCap
    /\ recent' = [recent EXCEPT ![l] = IF HourlyCap = 0 THEN @ ELSE @ + 1]

\* _record_and_emit
RecordAndEmit(m, l, status) ==
    /\ outbox' = [outbox EXCEPT ![m] = status]
    /\ over' = [over EXCEPT ![m] = l]

\* send_cross, by an agent of c.  A refusal leaves no row: one of the link
\* changes nothing, one of the target has taken its place in the bucket.  The
\* inbox agent, HR or the CEO, is always there (see Org, ChartSound).
SendCross(c, m, l) ==
    /\ outbox[m] = "none"
    /\ LookupLink(l)
    /\ EnforceDirection(l, c)
    /\ EnforceStatus(l)
    /\ EnforceScope(m)
    /\ EnforceRate(l)
    /\ LET target == link[l].to
       IN \/ /\ Reachable(target)
             /\ RecordAndEmit(m, l, MapResult(target))
             /\ inbox' = [inbox EXCEPT ![m] = IF Accepts(target) THEN "waiting" ELSE @]
          \/ /\ ~ Reachable(target)
             /\ UNCHANGED <<outbox, over, inbox>>

\* The executor of the connector service that every company is given: it turns
\* refusals into results, which the connector does not retry.
InterCompanySend(c, m, l) ==
    /\ LoopFree
    /\ c \in live
    /\ SendCross(c, m, l)
    /\ UNCHANGED <<companyVars, linkVars, reads, paused>>

\* _update_status
UpdateStatus(m, status) == outbox' = [outbox EXCEPT ![m] = status]

\* Mutant: a row that was delivered stays QUEUED.
DeliverPendingKeepsRow(m) ==
    /\ LoopFree
    /\ outbox[m] = "queued"
    /\ LET c == link[over[m]].to
       IN /\ Reachable(c)
          /\ link[over[m]].status = "approved" /\ Accepts(c)
          /\ outbox' = [outbox EXCEPT ![m] = IF inbox[m] = "none" THEN @ ELSE "rejected"]
          /\ inbox' = [inbox EXCEPT ![m] = "waiting"]
    /\ UNCHANGED <<companyVars, linkVars, over, reads, recent, paused>>

\* deliver_pending, for one row: rejected when its link is not approved any
\* more, sent with the id it would have had, or left while its target is paused.
DeliverPending(m) ==
    /\ LoopFree
    /\ outbox[m] = "queued"
    /\ LET c == link[over[m]].to
       IN /\ Reachable(c)
          /\ \/ /\ link[over[m]].status # "approved"
                /\ UpdateStatus(m, "rejected")
                /\ UNCHANGED inbox
             \/ /\ link[over[m]].status = "approved"
                /\ Accepts(c)
                /\ UpdateStatus(m, "delivered")
                /\ inbox' = [inbox EXCEPT ![m] = "waiting"]
    /\ UNCHANGED <<companyVars, linkVars, over, reads, recent, paused>>

\* The inbox agent of the target takes its turn.
ReadMessage(m) ==
    /\ LoopFree
    /\ inbox[m] = "waiting"
    /\ Accepts(link[over[m]].to)
    /\ inbox' = [inbox EXCEPT ![m] = "read"]
    /\ reads' = [reads EXCEPT ![m] = @ + 1]
    /\ UNCHANGED <<companyVars, linkVars, outbox, over, recent, paused>>

\* An hour passes for the messages in the bucket of a link.
HourPasses(l) ==
    /\ LoopFree
    /\ recent[l] > 0
    /\ recent' = [recent EXCEPT ![l] = 0]
    /\ UNCHANGED <<companyVars, linkVars, outbox, over, inbox, reads, paused>>

\* The pause and resume routes.
PauseOrResume(c) ==
    /\ LoopFree
    /\ c \in handles
    /\ paused' = IF c \in paused THEN paused \ {c} ELSE paused \cup {c}
    /\ UNCHANGED <<companyVars, linkVars, outbox, over, inbox, reads, recent>>

EndsDrain(r) == job[r].at = "draining" /\ job'[r].at = "stopping"

\* What a step of the companies does to the messages: a close pauses the clock
\* before it stops the agents, and what the memory of a company held is gone
\* once nothing of it runs.
Forget ==
    /\ paused' = paused \cup {job[r].company : r \in {q \in Request : EndsDrain(q)}}
    /\ inbox' = [m \in Message |->
                    IF inbox[m] = "waiting" /\ link[over[m]].to \notin live'
                    THEN "none" ELSE inbox[m]]
    /\ recent' = IF up' THEN recent ELSE [l \in Link |-> 0]
    /\ UNCHANGED <<linkVars, outbox, over, reads>>

-----------------------------------------------------------------------------
Init ==
    /\ CompaniesInit
    /\ link = [l \in Link |-> NoLink]
    /\ outbox = [m \in Message |-> "none"]
    /\ over = [m \in Message |-> None]
    /\ inbox = [m \in Message |-> "none"]
    /\ reads = [m \in Message |-> 0]
    /\ recent = [l \in Link |-> 0]
    /\ paused = {}

CompanyStep ==
    \/ \E c \in Company : CreateCompany(c) \/ CrashInCreate(c) \/ EfficiencyTick(c)
    \/ \E r \in Request, c \in Company : CloseCompany(r, c) \/ DeleteCompany(r, c)
    \/ \E r \in Request : EndDrain(r) \/ FinishClose(r) \/ CloseFails(r) \/ DeleteRow(r)
    \/ Crash
    \/ Startup

Next ==
    \/ CompanyStep /\ Forget
    \/ \E r \in Request : RevokeForCompany(r)
    \/ \E l \in Link, a, b \in Company : RequestRoute(l, a, b)
    \/ \E l \in Link : LinkRoute(l) \/ HourPasses(l)
    \/ \E c \in Company, m \in Message, l \in Link : InterCompanySend(c, m, l)
    \/ \E m \in Message : DeliverPending(m) \/ ReadMessage(m)
    \/ \E c \in Company : PauseOrResume(c)

Spec == Init /\ [][Next]_vars
-----------------------------------------------------------------------------
(* Properties. *)

\* The outbox tells what happened: a row DELIVERED was handed to a running
\* company, one QUEUED or REJECTED was not, and no message is read twice,
\* however often the process dies and the queue is flushed again.
OutboxTruthful ==
    \A m \in Message :
        /\ inbox[m] # "none" => outbox[m] = "delivered"
        /\ reads[m] <= 1
        /\ reads[m] = 1 => outbox[m] = "delivered"
=============================================================================
