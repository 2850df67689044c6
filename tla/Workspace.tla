------------------------------ MODULE Workspace ------------------------------
(***************************************************************************)
(* The files of a company and their quotas (modules/storage/workspace.py,  *)
(* modules/storage/quota.py).                                              *)
(*                                                                         *)
(* A file is replaced on disk inside the transaction that books its size;  *)
(* the disk does not roll back, so a process that dies between the two     *)
(* leaves books that do not match.  Nothing else runs in between: no step  *)
(* of a write awaits.                                                      *)
(***************************************************************************)
EXTENDS Integers, FiniteSets, Functions

CONSTANTS
    Owner,         \* the agents and the shared project
    Project,       \* the shared project
    File,          \* relative paths
    MaxSize,       \* bound: bytes of a file
    Quotas,        \* quotas that the Board may set
    CompanyMb,     \* company_disk_quota_mb of the company's spec
    AgentMb,       \* default_agent_quota_mb
    None

ASSUME WorkspaceConstants ==
    /\ Project \in Owner /\ None \notin Owner \cup [owner : Owner, booked : Int]
    /\ IsFiniteSet(File)
    /\ {MaxSize, CompanyMb, AgentMb} \cup Quotas \subseteq Nat

VARIABLES
    disk,          \* size of each file of each workspace, 0 if it is missing
    used,          \* workspaces.used_bytes
    quota,         \* workspaces.quota_bytes
    companyQuota,  \* company_quota.quota_bytes
    writing,       \* the write that has replaced its file and not committed
    torn           \* workspaces with a file that a crash left unbooked

wsVars == <<disk, used, quota, companyQuota, writing, torn>>

SumOf(f) == FoldFunction(+, 0, f)   \* SUM(...)
OnDisk(w) == SumOf(disk[w])         \* _dir_size
Booked == SumOf(used)

WsInit ==
    /\ disk = [w \in Owner |-> [f \in File |-> 0]]
    /\ used = [w \in Owner |-> 0]
    /\ quota = [w \in Owner |-> IF w = Project THEN CompanyMb ELSE AgentMb]
    /\ companyQuota = CompanyMb
    /\ writing = None
    /\ torn = {}

\* Both quotas hold after the write.
Fits(w, growth) ==
    /\ used[w] + growth <= quota[w]
    /\ Booked + growth <= companyQuota

\* Mutant: what the file took before is not given back.
GrowthWhole(w, f, size) == size

Growth(w, f, size) == size - disk[w][f]

\* write(), as far as os.replace.  Fits is checked before the file is touched.
Replace(w, f, size) ==
    /\ writing = None
    /\ Fits(w, Growth(w, f, size))
    /\ disk' = [disk EXCEPT ![w][f] = size]
    /\ writing' = [owner |-> w, booked |-> used[w] + Growth(w, f, size)]
    /\ UNCHANGED <<used, quota, companyQuota, torn>>

\* delete(), as far as unlink.
Unlink(w, f) ==
    /\ writing = None
    /\ disk[w][f] > 0
    /\ disk' = [disk EXCEPT ![w][f] = 0]
    /\ writing' = [owner |-> w,
                   booked |-> IF used[w] > disk[w][f] THEN used[w] - disk[w][f] ELSE 0]
    /\ UNCHANGED <<used, quota, companyQuota, torn>>

\* The transaction of a write or of a delete commits.
Commit ==
    /\ writing # None
    /\ used' = [used EXCEPT ![writing.owner] = writing.booked]
    /\ writing' = None
    /\ UNCHANGED <<disk, quota, companyQuota, torn>>

\* reconcile_quota
ReconcileQuota ==
    /\ writing = None
    /\ used' = [w \in Owner |-> OnDisk(w)]
    /\ torn' = {}
    /\ UNCHANGED <<disk, quota, companyQuota, writing>>

\* set_limit of the company (w is None) or of an agent: also below what is used.
SetLimit(w, q) ==
    IF w = None THEN companyQuota' = q /\ UNCHANGED quota
    ELSE quota' = [quota EXCEPT ![w] = q] /\ UNCHANGED companyQuota

\* The Board's route, which sets one limit after the other.
UpdateDiskQuota ==
    /\ writing = None
    /\ \E q \in Quotas, w \in Owner \cup {None} : SetLimit(w, q)
    /\ UNCHANGED <<disk, used, writing, torn>>

\* What a crash leaves of a write that was not committed.
Tear ==
    /\ writing' = None
    /\ torn' = IF writing = None THEN torn ELSE torn \cup {writing.owner}
    /\ UNCHANGED <<disk, used>>

\* build_company sets the quotas of the company and of the project to those of
\* the spec again, whatever the Board had set since: ensure_for_agent.
EnsureForAgent ==
    /\ companyQuota' = CompanyMb
    /\ quota' = [quota EXCEPT ![Project] = CompanyMb]
-----------------------------------------------------------------------------
(* Properties. *)

\* The books tell what is on disk, after every sequence of writes, overwrites
\* and deletes; only a crash inside a write separates the two, and only in the
\* workspace it struck, until the quota is reconciled.
BooksMatchDisk ==
    writing = None => \A w \in Owner \ torn : used[w] = OnDisk(w)

=============================================================================
