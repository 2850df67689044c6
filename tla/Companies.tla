----------------------------- MODULE Companies -----------------------------
(***************************************************************************)
(* The life of the companies of one Board server: CompanyFactory           *)
(* (modules/factory/factory.py), the teardown of a company                 *)
(* (modules/factory/shutdown.py) and the Board routes that call them       *)
(* (modules/board_api/routes/companies.py).                                *)
(*                                                                         *)
(* Everything runs on one event loop.  Nothing that build_company awaits   *)
(* ever suspends, so creating a company is one step; a close suspends      *)
(* while it drains and while it stops agents, and two requests may close   *)
(* the same company.  Its tail, from the removal of the files to the       *)
(* revocation of the links, holds the loop, but the process may die        *)
(* between any two of its transactions.                                    *)
(*                                                                         *)
(* Ids are those the factory draws itself, so no id is used twice.         *)
(***************************************************************************)
EXTENDS Naturals, FiniteSets

CONSTANTS
    Company,    \* ids
    Request,    \* requests to close or delete a company
    None        \* no company

ASSUME CompaniesConstants == None \notin Company

VARIABLES
    up,      \* the server runs
    born,    \* ids that were ever used
    row,     \* status in the table companies, "none" without a row
    disk,    \* its directory: "none", with its "data", or an empty "stub"
    handles, \* CompanyFactory._handles
    live,    \* companies whose agents, clock and orchestrator run
    watched, \* companies whose efficiency loop runs
    job      \* what each request is at

companyVars == <<up, born, row, disk, handles, live, watched, job>>

Idle == [company |-> None, at |-> "idle"]
Stages == {"idle", "draining", "stopping", "scrubbed", "deleted"}

CompaniesTypeOK ==
    /\ up \in BOOLEAN
    /\ born \subseteq Company
    /\ row \in [Company -> {"none", "creating", "active", "closing", "closed", "failed"}]
    /\ disk \in [Company -> {"none", "data", "stub"}]
    /\ handles \subseteq Company
    /\ live \subseteq Company
    /\ watched \subseteq Company
    /\ job \in [Request -> [company : Company \cup {None}, at : Stages]]

CompaniesInit ==
    /\ up = TRUE
    /\ born = {}
    /\ row = [c \in Company |-> "none"]
    /\ disk = [c \in Company |-> "none"]
    /\ handles = {} /\ live = {} /\ watched = {}
    /\ job = [r \in Request |-> Idle]

\* No request is in the tail of a close, which never suspends.
LoopFree == up /\ \A r \in Request : job[r].at \notin {"scrubbed", "deleted"}

\* _mark_status: an UPDATE, without effect when the row is gone.
Mark(c, s) == [row EXCEPT ![c] = IF @ = "none" THEN @ ELSE s]

\* build_company, once for each of the companies good, and as far as it comes
\* for those of bad, for which it raises: what had been started by then is not
\* stopped.  The efficiency loop, started last, is best effort.
Build(good, bad) ==
    \E started \in SUBSET bad : \E looped \in SUBSET (good \cup started) :
        /\ live' = live \cup good \cup started
        /\ watched' = watched \cup looped

-----------------------------------------------------------------------------
(* Creating. *)

\* create_company: the row is reserved, the company built and registered.
Create(c) ==
    /\ LoopFree
    /\ c \notin born
    /\ born' = born \cup {c}
    /\ row' = [row EXCEPT ![c] = "active"]
    /\ disk' = [disk EXCEPT ![c] = "data"]
    /\ handles' = handles \cup {c}
    /\ Build({c}, {})
    /\ UNCHANGED <<up, job>>

\* build_company raises: FAILED, and the directory is removed.
CreateFails(c) ==
    /\ LoopFree
    /\ c \notin born
    /\ born' = born \cup {c}
    /\ row' = [row EXCEPT ![c] = "failed"]
    /\ Build({}, {c})
    /\ UNCHANGED <<up, disk, handles, job>>

\* The route that creates a company.
CreateCompany(c) == Create(c) \/ CreateFails(c)

-----------------------------------------------------------------------------
(* Closing. *)

\* The first half of purge_company: with a handle, close_company marks the
\* company CLOSING, logs it and waits until it is idle.
BeginClose(r, c) ==
    /\ LoopFree
    /\ job[r] = Idle
    /\ c \in handles
    /\ row' = Mark(c, "closing")
    /\ job' = [job EXCEPT ![r] = [company |-> c, at |-> "draining"]]
    /\ UNCHANGED <<up, born, disk, handles, live, watched>>

\* Mutant: purge_orphan deletes the row first and the files after it.
PurgeOrphanRowFirst(r, c) ==
    /\ LoopFree
    /\ job[r] = Idle
    /\ c \in born \ handles
    /\ row' = [row EXCEPT ![c] = "none"]
    /\ job' = [job EXCEPT ![r] = [company |-> c, at |-> "scrubbed"]]
    /\ UNCHANGED <<up, born, disk, handles, live, watched>>

\* Without one, purge_orphan removes the directory; DeleteRow follows.
PurgeOrphan(r, c) ==
    /\ LoopFree
    /\ job[r] = Idle
    /\ c \in born \ handles
    /\ disk' = [disk EXCEPT ![c] = "none"]
    /\ job' = [job EXCEPT ![r] = [company |-> c, at |-> "scrubbed"]]
    /\ UNCHANGED <<up, born, row, handles, live, watched>>

\* The two routes that end a company both purge it.
CloseCompany(r, c) == BeginClose(r, c) \/ PurgeOrphan(r, c)
DeleteCompany(r, c) == BeginClose(r, c) \/ PurgeOrphan(r, c)

\* The company is idle, or the deadline has passed and close_company starts
\* again by force: the clock is paused and the agents are being stopped.  If
\* another request has closed the company meanwhile, the log is gone and the
\* second attempt fails where it writes to it (see CloseFails).
EndDrain(r) ==
    /\ LoopFree
    /\ job[r].at = "draining"
    /\ job' = [job EXCEPT ![r].at = "stopping"]
    /\ UNCHANGED <<up, born, row, disk, handles, live, watched>>

\* Everything is stopped but the efficiency loop, the end is logged, and the
\* files go; finally the handle is dropped and the row marked CLOSED.
FinishClose(r) ==
    LET c == job[r].company
    IN /\ LoopFree
       /\ job[r].at = "stopping"
       /\ disk[c] = "data"
       /\ disk' = [disk EXCEPT ![c] = "none"]
       /\ handles' = handles \ {c}
       /\ live' = live \ {c}
       /\ row' = Mark(c, "closed")
       /\ job' = [job EXCEPT ![r].at = "scrubbed"]
       /\ UNCHANGED <<up, born, watched>>

\* Another request has closed the company: the event store opens the database
\* anew, which makes an empty one, and its append raises; so does the one of
\* the forced attempt.  The handle is dropped and the route ends with an error.
CloseFails(r) ==
    LET c == job[r].company
    IN /\ LoopFree
       /\ job[r].at \in {"draining", "stopping"}
       /\ disk[c] # "data"
       /\ disk' = [disk EXCEPT ![c] = "stub"]
       /\ handles' = handles \ {c}
       /\ live' = live \ {c}
       /\ row' = Mark(c, "closed")
       /\ job' = [job EXCEPT ![r] = Idle]
       /\ UNCHANGED <<up, born, watched>>

\* The second half of purge_company, and the end of purge_orphan.
DeleteRow(r) ==
    LET c == job[r].company
    IN /\ job[r].at = "scrubbed"
       /\ row' = [row EXCEPT ![c] = "none"]
       /\ handles' = handles \ {c}
       /\ job' = [job EXCEPT ![r].at = "deleted"]
       /\ UNCHANGED <<up, born, disk, live, watched>>

\* The efficiency loop, which no close stops, reads the log of a company whose
\* directory is gone: connect() makes a new one with an empty database.
EfficiencyTick(c) ==
    /\ LoopFree
    /\ c \in watched
    /\ disk[c] = "none"
    /\ disk' = [disk EXCEPT ![c] = "stub"]
    /\ UNCHANGED <<up, born, row, handles, live, watched, job>>

-----------------------------------------------------------------------------
(* The process. *)

Die ==
    /\ up
    /\ up' = FALSE
    /\ handles' = {} /\ live' = {} /\ watched' = {}
    /\ job' = [r \in Request |-> Idle]

Crash ==
    /\ Die
    /\ UNCHANGED <<born, row, disk>>

\* The process dies while it builds a company, whose row is committed.
CrashInCreate(c) ==
    /\ LoopFree
    /\ c \notin born
    /\ Die
    /\ born' = born \cup {c}
    /\ row' = [row EXCEPT ![c] = "creating"]
    /\ disk' \in {disk, [disk EXCEPT ![c] = "data"]}

\* Mutant: a company that cannot be built again keeps its status.
StartupForgives ==
    \E failed \in SUBSET {c \in Company : row[c] = "active"} :
        LET back == {c \in Company : row[c] = "active"} \ failed
        IN /\ ~ up
           /\ up' = TRUE
           /\ handles' = back
           /\ Build(back, failed)
           /\ UNCHANGED <<born, row, disk, job>>

\* restart_all_active, before any request is served: every ACTIVE company is
\* built again from its database; one that cannot be is marked FAILED.
Startup ==
    \E failed \in SUBSET {c \in Company : row[c] = "active"} :
        LET back == {c \in Company : row[c] = "active"} \ failed
        IN /\ ~ up
           /\ up' = TRUE
           /\ row' = [c \in Company |-> IF c \in failed THEN "failed" ELSE row[c]]
           /\ handles' = back
           /\ Build(back, failed)
           /\ UNCHANGED <<born, disk, job>>

-----------------------------------------------------------------------------
(* Properties. *)

\* No company's data is ever on disk without a row to reach it by, whatever
\* two closes do to each other and wherever the process dies.  Only an empty
\* stub may be left behind.
NoOrphanData == \A c \in Company : disk[c] = "data" => row[c] # "none"

\* A company that the Board lists as ACTIVE answers: the running server holds
\* its handle, its agents run and its data is there.
ActiveIsAttached ==
    up => \A c \in Company :
              row[c] = "active" => c \in handles \cap live /\ disk[c] = "data"
=============================================================================
