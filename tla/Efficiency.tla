----------------------------- MODULE Efficiency -----------------------------
(***************************************************************************)
(* The efficiency service, which watches a company through its event log   *)
(* and its approvals and keeps findings (modules/efficiency).              *)
(*                                                                         *)
(* A tick of the detectors and a handler of the Board run on the event     *)
(* loop and never await, so nothing of the feed happens in between; but a  *)
(* row and the event that tells of it are two transactions, and the        *)
(* process may die between them.                                           *)
(***************************************************************************)
EXTENDS Feed

CONSTANTS
    Key,          \* subjects of a detector: agents, tools, managers, the company
    Approval,     \* requests for an approval
    Route,        \* the manager whom each of them waits for, or Nothing
    Threshold,    \* repeat_threshold, min_calls, min_spend_usd, min_count, ...
    ErrorPercent, \* error_rate
    TopPercent,   \* top1_share
    ReadLimit,    \* events that a tick reads (5000)
    Nothing,
    MaxLog        \* bound: events

ASSUME EfficiencyConstants ==
    /\ {Threshold, ErrorPercent, TopPercent, ReadLimit, MaxLog} \subseteq Nat \ {0}
    /\ Route \in [Approval -> Key \cup {Nothing}]
    /\ Nothing \notin Key \cup [kind : {"opened", "closed"}, about : Nat]

\* R1_DETECTORS
Detectors == {"loop.tool_repeat", "tool.error_storm", "cost.no_output", "stall.no_event",
              "approvals.backlog", "org.manager_bottleneck"}

VARIABLES
    detector,  \* the detector that each subject is judged by
    aged,      \* events outside the window of a detector
    expired,   \* those outside max_window_seconds, the largest window
    waiting,   \* the approvals: "none", pending or pending for too long ("old")
    finding,   \* the table efficiency_findings, in the order of opening
    due,       \* subjects that the running tick still has to reconcile
    emit,      \* the event that the running handler has to append
    untold     \* events that a crash kept out of the log

worldVars == <<detector, aged, expired, waiting>>
watchVars == <<worldVars, finding, due, emit, untold>>
allWatchVars == <<log, feedVars, watchVars>>

Event(kind, about) == [kind |-> kind, about |-> about]
WatchFree == due = {} /\ emit = Nothing

WatchInit ==
    /\ FeedInit
    /\ detector \in [Key -> Detectors]
    /\ aged = 0 /\ expired = 0
    /\ waiting = [a \in Approval |-> "none"]
    /\ due = {} /\ untold = {}
    /\ finding = <<>>
    /\ emit = Nothing

-----------------------------------------------------------------------------
(* The rest of the company. *)

\* The events that a detector looks for.
Signals(d) ==
    CASE d = "loop.tool_repeat" -> {"called"}
      [] d = "tool.error_storm" -> {"worked", "failed"}
      [] d = "cost.no_output" -> {"expense", "message"}
      [] d = "stall.no_event" -> {"active"}
      [] OTHER -> {}

Happens(k) ==
    /\ WatchFree
    /\ Len(log) < MaxLog
    /\ \E kind \in Signals(detector[k]) : StoreEvent(Event(kind, k))
    /\ UNCHANGED watchVars

TimePasses ==
    /\ WatchFree
    /\ \/ aged < Len(log) /\ aged' = aged + 1 /\ UNCHANGED expired
       \/ expired < aged /\ expired' = expired + 1 /\ UNCHANGED aged
    /\ UNCHANGED <<log, feedVars, detector, waiting, finding, due, emit, untold>>

\* An approval is requested, waits for too long, or is decided.
ApprovalMoves(a, state) ==
    /\ WatchFree
    /\ <<waiting[a], state>> \in {<<"none", "pending">>, <<"pending", "old">>,
                                  <<"pending", "none">>, <<"old", "none">>}
    /\ waiting' = [waiting EXCEPT ![a] = state]
    /\ UNCHANGED <<log, feedVars, detector, aged, expired, finding, due, emit, untold>>

-----------------------------------------------------------------------------
(* Detectors, on the oldest events of the log and the table of approvals. *)

\* What the tick hands to every detector.
Windowed == {i \in Range(Read(0, ReadLimit)) : i > expired}
Count(kind, k) == Cardinality({i \in Windowed : i > aged /\ log[i] = Event(kind, k)})

LoopToolRepeat(k) == Count("called", k) >= Threshold

ToolErrorStorm(k) ==
    LET errors == Count("failed", k)
        total == errors + Count("worked", k)
    IN total >= Threshold /\ errors > 0 /\ 100 * errors >= ErrorPercent * total

CostNoOutput(k) == Count("expense", k) >= Threshold /\ Count("message", k) = 0

\* The last event of the agent that the tick was handed is outside its window.
StallNoEvent(k) ==
    LET acts == {i \in Windowed : log[i] = Event("active", k)}
    IN acts # {} /\ Max(acts) <= aged

Pending == {a \in Approval : waiting[a] # "none"}

ApprovalsBacklog ==
    Cardinality(Pending) >= Threshold /\ \E a \in Pending : waiting[a] = "old"

\* One manager holds most of the approvals that wait for a manager.
ManagerBottleneck(k) ==
    LET Of(m) == Cardinality({a \in Pending : Route[a] = m})
        managed == Cardinality({a \in Pending : Route[a] # Nothing})
    IN /\ managed >= Threshold
       /\ \A m \in Key : Of(m) <= Of(k)
       /\ 100 * Of(k) >= TopPercent * managed

Fires(k) ==
    CASE detector[k] = "loop.tool_repeat" -> LoopToolRepeat(k)
      [] detector[k] = "tool.error_storm" -> ToolErrorStorm(k)
      [] detector[k] = "cost.no_output" -> CostNoOutput(k)
      [] detector[k] = "stall.no_event" -> StallNoEvent(k)
      [] detector[k] = "approvals.backlog" -> ApprovalsBacklog
      [] detector[k] = "org.manager_bottleneck" -> ManagerBottleneck(k)

-----------------------------------------------------------------------------
(* Findings. *)

Unclosed(k) == {f \in DOMAIN finding : finding[f].key = k /\ finding[f].status # "closed"}

\* Mutant: a finding that was acknowledged is no longer found.
FindOpenUnread(k) == {f \in DOMAIN finding : finding[f].key = k /\ finding[f].status = "open"}

\* find_open
FindOpen(k) == Unclosed(k)

\* tick: every detector is asked once, and what it finds is reconciled.
Tick ==
    /\ WatchFree
    /\ Len(log) + Cardinality(Key) <= MaxLog
    /\ due' = Key
    /\ UNCHANGED <<log, feedVars, worldVars, finding, emit, untold>>

\* _run_loop: again and again.
RunLoop == Tick

SetFinding(f, status) == finding' = [finding EXCEPT ![f].status = status]

\* upsert_from_candidate inserts a row only where find_open has none.
Opens(k) == Fires(k) /\ FindOpen(k) = {}

\* Mutant: nothing tells that the finding is resolved.
ReconcileQuietly(k) ==
    /\ k \in due /\ emit = Nothing
    /\ \/ /\ Opens(k)
          /\ finding' = Append(finding, [key |-> k, status |-> "open"])
          /\ emit' = Event("opened", Len(finding) + 1)
          /\ due' = due \ {k}
       \/ /\ ~Fires(k) /\ Unclosed(k) # {}
          /\ SetFinding(Min(Unclosed(k)), "closed")
          /\ UNCHANGED <<emit, due>>
       \/ /\ ~Opens(k) /\ (Fires(k) \/ Unclosed(k) = {})
          /\ due' = due \ {k}
          /\ UNCHANGED <<finding, emit>>
    /\ UNCHANGED <<log, feedVars, worldVars, untold>>

\* _reconcile, one row at a time: open what fires, close what no longer does.
Reconcile(k) ==
    /\ k \in due /\ emit = Nothing
    /\ \/ /\ Opens(k)
          /\ finding' = Append(finding, [key |-> k, status |-> "open"])
          /\ emit' = Event("opened", Len(finding) + 1)
          /\ due' = due \ {k}
       \/ /\ ~Fires(k) /\ Unclosed(k) # {}
          /\ SetFinding(Min(Unclosed(k)), "closed")
          /\ emit' = Event("closed", Min(Unclosed(k)))
          /\ UNCHANGED due
       \/ /\ ~Opens(k) /\ (Fires(k) \/ Unclosed(k) = {})
          /\ due' = due \ {k}
          /\ UNCHANGED <<finding, emit>>
    /\ UNCHANGED <<log, feedVars, worldVars, untold>>

\* acknowledge, from the Board.
Acknowledge(f) ==
    /\ WatchFree
    /\ finding[f].status # "closed"
    /\ SetFinding(f, "acknowledged")
    /\ UNCHANGED <<log, feedVars, worldVars, due, emit, untold>>

\* manual_close, from the Board: a closed finding is told of once more.
ManualClose(f) ==
    /\ WatchFree
    /\ Len(log) < MaxLog
    /\ SetFinding(f, "closed")
    /\ emit' = Event("closed", f)
    /\ UNCHANGED <<log, feedVars, worldVars, due, untold>>

-----------------------------------------------------------------------------
(* The rest of a handler, and the process. *)

\* _safe_emit_opened and _safe_emit_closed.
Emit ==
    /\ emit # Nothing
    /\ StoreEvent(emit)
    /\ emit' = Nothing
    /\ UNCHANGED <<worldVars, finding, due, untold>>

WatchCrash ==
    /\ breaks < MaxBreaks
    /\ Hangup
    /\ untold' = IF emit = Nothing THEN untold ELSE untold \cup {emit}
    /\ due' = {} /\ emit' = Nothing
    /\ UNCHANGED <<log, worldVars, finding>>

\* A step of the feed that the event loop takes.
FeedTurn == WatchFree /\ (FeedStep \/ Break) /\ UNCHANGED watchVars

WatchNext ==
    \/ \E k \in Key : Happens(k) \/ Reconcile(k)
    \/ \E a \in Approval, state \in {"none", "pending", "old"} : ApprovalMoves(a, state)
    \/ \E f \in DOMAIN finding : Acknowledge(f) \/ ManualClose(f)
    \/ TimePasses \/ RunLoop \/ Emit \/ WatchCrash
    \/ FeedTurn

WatchSpec == WatchInit /\ [][WatchNext]_allWatchVars
-----------------------------------------------------------------------------
(* Properties. *)

TypeOK ==
    /\ log \in Seq([kind : UNION {Signals(d) : d \in Detectors}, about : Key]
                       \cup [kind : {"opened", "closed"}, about : Nat])
    /\ conn \in {"off", "opening", "streaming"}
    /\ \A s \in {backlog, queue, shown} : Range(s) \subseteq Ids
    /\ finding \in Seq([key : Key, status : {"open", "acknowledged", "closed"}])
    /\ due \subseteq Key

\* A condition that lasts is one finding, however often it is seen, whether
\* somebody acknowledged it, and also over a restart.
OneOpenFinding == \A k \in Key : Cardinality(Unclosed(k)) <= 1

\* The log tells of every row, of its opening before its closing, and of no row
\* that does not exist; only what a crash took between a row and its event is
\* missing.
RowsTold ==
    LET At(kind, about) == {i \in Ids : log[i] = Event(kind, about)}
        Told(kind, about) == At(kind, about) # {} \/ Event(kind, about) \in untold \cup {emit}
    IN /\ \A f \in DOMAIN finding :
              /\ Told("opened", f)
              /\ Cardinality(At("opened", f)) <= 1
              /\ finding[f].status = "closed" => Told("closed", f)
              /\ \A i \in At("opened", f), j \in At("closed", f) : i < j
       /\ \A f \in Nat \cap {log[i].about : i \in {j \in Ids : log[j].kind = "closed"}} :
              finding[f].status = "closed"

=============================================================================
