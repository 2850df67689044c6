------------------------------- MODULE Clock -------------------------------
(***************************************************************************)
(* The company clock (modules/clock/clock.py): running, pausing, paused;   *)
(* company time that stands still while it is not running; one DAY_TICK    *)
(* event per company day; one clock_state row to restart from.             *)
(*                                                                         *)
(* Times are real seconds since epoch_real; the rate is a constant factor, *)
(* so company time is told by the seconds that count for it, and a company *)
(* day lasts DayLength of them.  Whether every agent is idle is left open. *)
(***************************************************************************)
EXTENDS Integers

CONSTANTS
    DayLength,    \* real_seconds_per_company_day
    MaxTime,      \* bound on the wall clock
    MaxStepBack   \* how far the wall clock is set back, in all

ASSUME ClockConstants ==
    /\ DayLength \in Nat \ {0}
    /\ MaxTime \in Nat
    /\ MaxStepBack \in Nat

VARIABLES
    wall,      \* datetime.now(UTC)
    setBack,   \* seconds by which the wall clock has been set back
    ran,       \* seconds during which the company was running
    up,        \* is the process running?
    row,       \* the clock_state row, and the same fields in memory
    lastSeen,  \* _last_company_time
    reported,  \* the latest company time that a caller has been told
    next,      \* the loop of _emit_day_ticks: the next day to announce
    target,    \* and the last one, 0 when the loop is not running
    unsent,    \* the event that pause or resume is still to append
    ticks,     \* the days with a DAY_TICK in the event store
    repeated,  \* the days with more than one
    lastEvent, \* the latest CLOCK_PAUSED or CLOCK_RESUMED in the store
    lost,      \* has a crash or an error lost one of them?
    cutShort,  \* has a crash or an error cut short an _emit_day_ticks?
    restarted  \* has the process been restarted?

time == <<wall, setBack, ran>>
seen == <<lastSeen, reported>>
loop == <<next, target>>
log == <<ticks, repeated, lastEvent, lost, cutShort, restarted>>
vars == <<time, up, row, seen, loop, unsent, log>>

ClockState == {"running", "pausing", "paused"}
NotPaused == -1
ClockEvents == {"none", "CLOCK_PAUSED", "CLOCK_RESUMED"}

RowType == [state : ClockState, pausedTotal : Nat,
            pauseStarted : Nat \cup {NotPaused}, lastDay : Nat]

TypeOK ==
    /\ wall \in Nat /\ setBack \in 0 .. MaxStepBack /\ ran \in Nat
    /\ up \in BOOLEAN
    /\ row \in RowType
    /\ row.state = "running" <=> row.pauseStarted = NotPaused
    /\ lastSeen \in Nat /\ reported \in Nat
    /\ next \in Nat /\ target \in Nat
    /\ unsent \in ClockEvents
    /\ ticks \subseteq Nat /\ repeated \subseteq ticks
    /\ lastEvent \in ClockEvents
    /\ lost \in BOOLEAN /\ cutShort \in BOOLEAN /\ restarted \in BOOLEAN

-----------------------------------------------------------------------------
(* Company time. *)

Larger(a, b) == IF a >= b THEN a ELSE b

\* _compute_company_time, frozen at the start of a pause
CompanySeconds ==
    LET anchor == IF row.state = "running" THEN wall ELSE row.pauseStarted
    IN Larger(0, anchor - row.pausedTotal)

\* now_company
NowCompany == Larger(lastSeen, CompanySeconds)

\* Now is what a caller is told, and what later answers do not fall below.
See == lastSeen' = NowCompany /\ reported' = NowCompany

-----------------------------------------------------------------------------
(* The methods.  None awaits, so one runs at a time. *)

Idle == up /\ unsent = "none" /\ target = 0

Pause ==
    /\ Idle
    /\ row.state = "running"
    /\ row' = [row EXCEPT !.state = "pausing", !.pauseStarted = wall]
    /\ unsent' = "CLOCK_PAUSED"
    /\ UNCHANGED <<time, up, seen, loop, log>>

\* _maybe_finalise_pause, when the idle probe says yes
FinalisePause ==
    /\ Idle
    /\ row.state = "pausing"
    /\ row' = [row EXCEPT !.state = "paused"]
    /\ UNCHANGED <<time, up, seen, loop, unsent, log>>

\* The length of the pause so far.
PauseElapsed == Larger(0, wall - row.pauseStarted)

Resume ==
    /\ Idle
    /\ row.state # "running"
    /\ row' = [row EXCEPT !.state = "running", !.pausedTotal = @ + PauseElapsed,
                          !.pauseStarted = NotPaused]
    /\ unsent' = "CLOCK_RESUMED"
    /\ UNCHANGED <<time, up, seen, loop, log>>

\* The event of a transition, appended after its _persist.
AppendEvent ==
    /\ up
    /\ unsent # "none"
    /\ lastEvent' = unsent
    /\ unsent' = "none"
    /\ UNCHANGED <<time, up, row, seen, loop, ticks, repeated, lost, cutShort, restarted>>

\* The append raises out of pause or resume, whose row is already written.
FailAppend ==
    /\ up
    /\ unsent # "none"
    /\ unsent' = "none"
    /\ lost' = TRUE
    /\ UNCHANGED <<time, up, row, seen, loop, ticks, repeated, lastEvent, cutShort, restarted>>

\* A caller asks for the company time.
Observe ==
    /\ Idle
    /\ See
    /\ UNCHANGED <<time, up, row, loop, unsent, log>>

\* _emit_day_ticks asks for it and finds that days have begun ...
BeginTicks ==
    /\ Idle
    /\ NowCompany \div DayLength > row.lastDay
    /\ See
    /\ next' = row.lastDay + 1
    /\ target' = NowCompany \div DayLength
    /\ UNCHANGED <<time, up, row, unsent, log>>

\* Mutant: the days that were missed are skipped.
EmitTickLatest ==
    /\ up
    /\ target # 0 /\ next <= target
    /\ ticks' = ticks \cup {target}
    /\ repeated' = IF target \in ticks THEN repeated \cup {target} ELSE repeated
    /\ next' = target + 1
    /\ UNCHANGED <<time, up, row, seen, target, unsent, lastEvent, lost, cutShort, restarted>>

\* ... announces each of them ...
EmitTick ==
    /\ up
    /\ target # 0 /\ next <= target
    /\ ticks' = ticks \cup {next}
    /\ repeated' = IF next \in ticks THEN repeated \cup {next} ELSE repeated
    /\ next' = next + 1
    /\ UNCHANGED <<time, up, row, seen, target, unsent, lastEvent, lost, cutShort, restarted>>

\* ... and then writes last_day_ticked.
EndTicks ==
    /\ up
    /\ target # 0 /\ next > target
    /\ row' = [row EXCEPT !.lastDay = target]
    /\ next' = 0 /\ target' = 0
    /\ UNCHANGED <<time, up, seen, unsent, log>>

\* An append fails; the background loop logs it and goes on.
FailTicks ==
    /\ up
    /\ target # 0 /\ next <= target
    /\ next' = 0 /\ target' = 0
    /\ cutShort' = TRUE
    /\ UNCHANGED <<time, up, row, seen, unsent, ticks, repeated, lastEvent, lost, restarted>>

\* The process dies.  Every change of the fields in memory is persisted by
\* the method that makes it, so a restart finds them all in the row.
Crash ==
    /\ up
    /\ up' = FALSE
    /\ lastSeen' = 0
    /\ next' = 0 /\ target' = 0
    /\ unsent' = "none"
    /\ lost' = (lost \/ unsent # "none")
    /\ cutShort' = (cutShort \/ target # 0)
    /\ restarted' = TRUE
    /\ UNCHANGED <<time, row, reported, ticks, repeated, lastEvent>>

\* Mutant: the pause is deducted and still counted from its start.
BootFromStart ==
    /\ ~ up
    /\ up' = TRUE
    /\ row' = IF row.state = "running" THEN row
              ELSE [row EXCEPT !.pausedTotal = @ + PauseElapsed]
    /\ UNCHANGED <<time, seen, loop, unsent, log>>

\* _load_or_init: a pause is deducted up to now and goes on from now.
Boot ==
    /\ ~ up
    /\ up' = TRUE
    /\ row' = IF row.state = "running" THEN row
              ELSE [row EXCEPT !.pausedTotal = @ + PauseElapsed, !.pauseStarted = wall]
    /\ UNCHANGED <<time, seen, loop, unsent, log>>

\* Real time passes, whether or not the process is up.
Tick ==
    /\ wall < MaxTime
    /\ wall' = wall + 1
    /\ ran' = IF row.state = "running" THEN ran + 1 ELSE ran
    /\ UNCHANGED <<setBack, up, row, seen, loop, unsent, log>>

\* The wall clock is corrected backwards.
StepBack ==
    /\ setBack < MaxStepBack
    /\ wall > 0
    /\ wall' = wall - 1
    /\ setBack' = setBack + 1
    /\ UNCHANGED <<ran, up, row, seen, loop, unsent, log>>

-----------------------------------------------------------------------------

Init ==
    /\ wall = 0 /\ setBack = 0 /\ ran = 0
    /\ up = TRUE
    /\ row = [state |-> "running", pausedTotal |-> 0, pauseStarted |-> NotPaused, lastDay |-> 0]
    /\ lastSeen = 0 /\ reported = 0
    /\ next = 0 /\ target = 0
    /\ unsent = "none"
    /\ ticks = {} /\ repeated = {}
    /\ lastEvent = "none"
    /\ lost = FALSE /\ cutShort = FALSE /\ restarted = FALSE

Next ==
    \/ Pause \/ FinalisePause \/ Resume \/ AppendEvent \/ FailAppend
    \/ Observe
    \/ BeginTicks \/ EmitTick \/ EndTicks \/ FailTicks
    \/ Crash \/ Boot
    \/ Tick \/ StepBack

Spec == Init /\ [][Next]_vars

-----------------------------------------------------------------------------
(* Properties. *)

\* Until the wall clock is set back, company time is exactly the time
\* the company was running: pauses, resumes before a pause has settled, and
\* crashes in any of them are deducted once and completely.
CountsRunningTime == setBack = 0 => CompanySeconds = ran

\* Days are announced in order and none is left out, although the loop may die
\* between any two appends or before it records how far it came.
DaysInOrder ==
    /\ \A d \in ticks : 1 .. d \subseteq ticks
    /\ 1 .. row.lastDay \subseteq ticks

\* A day is announced twice only if a crash or an error cut a loop short
\* between its first append and its record.
DaysOnce == repeated # {} => cutShort

\* The event store tells whether the company is running, unless a crash or an
\* error fell between a transition and its event.
TransitionsLogged ==
    /\ unsent = "none" /\ ~ lost
    => (row.state = "running" <=> lastEvent # "CLOCK_PAUSED")

\* The company time that callers are told goes backwards only if the wall clock
\* was set back and the process, whose memory smooths that over, died.
ToldInOrder == [][reported' >= reported \/ (setBack > 0 /\ restarted)]_vars
=============================================================================
