----------------------------- MODULE ClockProofs -----------------------------
(***************************************************************************)
(* Proofs about the company clock, for every day length, every bound on    *)
(* the wall clock and any amount by which it is set back.                  *)
(***************************************************************************)
EXTENDS Clock, TLAPS

-----------------------------------------------------------------------------
(* Types. *)

\* The clock's fields keep their types: in particular a pause has a start
\* exactly while the clock is not running.
THEOREM Typing == Spec => []TypeOK
<1>1. Init => TypeOK
  <2> SUFFICES ASSUME Init PROVE TypeOK
    OBVIOUS
  <2>1. row = [state |-> "running", pausedTotal |-> 0, pauseStarted |-> -1, lastDay |-> 0]
    BY DEF Init, NotPaused
  <2>2. row \in RowType
    BY <2>1 DEF RowType, ClockState, NotPaused
  <2>3. row.state = "running" <=> row.pauseStarted = NotPaused
    BY <2>1 DEF NotPaused
  <2>4. up \in BOOLEAN /\ lost \in BOOLEAN /\ cutShort \in BOOLEAN /\ restarted \in BOOLEAN
    BY DEF Init
  <2>5. setBack \in 0 .. MaxStepBack
    BY ClockConstants DEF ClockConstants, Init
  <2>6. QED
    BY <2>2, <2>3, <2>4, <2>5 DEF Init, TypeOK, ClockEvents
<1>2. TypeOK /\ [Next]_vars => TypeOK'
  <2> SUFFICES ASSUME TypeOK, [Next]_vars PROVE TypeOK'
    OBVIOUS
  <2> USE ClockConstants DEF ClockConstants, TypeOK, RowType, ClockState, ClockEvents, NotPaused,
          time, seen, loop, log, Idle
  <2>0. row.state # "running" => PauseElapsed \in Nat
    BY DEF PauseElapsed, Larger
  <2>1. CASE Pause
    <3>1. row' \in RowType /\ row'.state = "pausing" /\ row'.pauseStarted = wall
      BY <2>1 DEF Pause
    <3>2. unsent' \in ClockEvents
      BY <2>1 DEF Pause
    <3>3. QED
      BY <2>1, <3>1, <3>2 DEF Pause
  <2>2. CASE FinalisePause
    BY <2>2 DEF FinalisePause
  <2>3. CASE Resume
    <3> DEFINE total == row.pausedTotal + PauseElapsed
    <3>0. total \in Nat
      BY <2>0, <2>3 DEF Resume
    <3> HIDE DEF total
    <3>1. row' \in RowType /\ row'.state = "running" /\ row'.pauseStarted = NotPaused
      <4>1. row' = [row EXCEPT !.state = "running", !.pausedTotal = total,
                               !.pauseStarted = NotPaused]
        BY <2>3 DEF Resume, total
      <4>2. QED
        BY <3>0, <4>1
    <3>2. unsent' \in ClockEvents
      BY <2>3 DEF Resume
    <3>3. QED
      BY <2>3, <3>1, <3>2 DEF Resume
  <2>4. CASE AppendEvent
    BY <2>4 DEF AppendEvent
  <2>17. CASE FailAppend
    BY <2>17 DEF FailAppend
  <2>5. NowCompany \in Nat
    BY DEF NowCompany, CompanySeconds, Larger
  <2>6. CASE Observe
    BY <2>5, <2>6 DEF Observe, See
  <2>7. CASE BeginTicks
    BY <2>5, <2>7 DEF BeginTicks, See
  <2>8. CASE EmitTick
    BY <2>8 DEF EmitTick
  <2>9. CASE EndTicks
    BY <2>9 DEF EndTicks
  <2>10. CASE FailTicks
    BY <2>10 DEF FailTicks
  <2>11. CASE Crash
    BY <2>11 DEF Crash
  <2>12. CASE Boot
    <3> DEFINE total == row.pausedTotal + PauseElapsed
    <3>0. row.state # "running" => total \in Nat
      BY <2>0
    <3> HIDE DEF total
    <3>1. row' \in RowType /\ row'.state = row.state
      <4>1. row' = IF row.state = "running" THEN row
                   ELSE [row EXCEPT !.pausedTotal = total, !.pauseStarted = wall]
        BY <2>12 DEF Boot, total
      <4>2. QED
        BY <3>0, <4>1
    <3>2. row'.pauseStarted = IF row.state = "running" THEN row.pauseStarted ELSE wall
      BY <2>12 DEF Boot
    <3>3. up' \in BOOLEAN
      BY <2>12 DEF Boot
    <3>4. QED
      BY <2>12, <3>1, <3>2, <3>3 DEF Boot
  <2>13. CASE Tick
    BY <2>13 DEF Tick
  <2>14. CASE StepBack
    BY <2>14 DEF StepBack
  <2>15. CASE UNCHANGED vars
    BY <2>15 DEF vars
  <2>16. QED
    BY <2>1, <2>2, <2>3, <2>4, <2>6, <2>7, <2>8, <2>9, <2>10, <2>11, <2>12,
       <2>13, <2>14, <2>15, <2>17 DEF Next
<1>3. QED
  BY <1>1, <1>2, PTL DEF Spec

-----------------------------------------------------------------------------
(* Company time. *)

\* The time from which company time is counted.
Anchor == IF row.state = "running" THEN wall ELSE row.pauseStarted

\* Until the wall clock is set back, what is not deducted is what ran, pauses
\* began in the past, and nobody was told a time that has not come.
TimeInv ==
    /\ setBack = 0 =>
          /\ Anchor - row.pausedTotal = ran
          /\ Anchor <= wall
          /\ lastSeen <= ran
          /\ reported <= ran
    /\ ~ restarted => lastSeen = reported

LEMMA NowIsRan ==
    ASSUME TypeOK, TimeInv, setBack = 0
    PROVE  CompanySeconds = ran /\ NowCompany = ran
BY DEF TypeOK, RowType, TimeInv, Anchor, CompanySeconds, NowCompany, Larger, ClockState, NotPaused

LEMMA TimeStep == TypeOK /\ TypeOK' /\ TimeInv /\ [Next]_vars => TimeInv'
<1> SUFFICES ASSUME TypeOK, TypeOK', TimeInv, [Next]_vars PROVE TimeInv'
  OBVIOUS
<1> USE DEF TypeOK, RowType, TimeInv, Anchor, ClockState, NotPaused, time, seen, loop, log
<1>1. CASE Pause
  BY <1>1 DEF Pause
<1>2. CASE FinalisePause
  BY <1>2 DEF FinalisePause
<1>3. CASE Resume
  BY <1>3 DEF Resume, PauseElapsed, Larger
<1>4. CASE AppendEvent
  BY <1>4 DEF AppendEvent
<1>16. CASE FailAppend
  BY <1>16 DEF FailAppend
<1>5. CASE Observe
  BY <1>5, NowIsRan DEF Observe, See
<1>6. CASE BeginTicks
  BY <1>6, NowIsRan DEF BeginTicks, See
<1>7. CASE EmitTick
  BY <1>7 DEF EmitTick
<1>8. CASE EndTicks
  BY <1>8 DEF EndTicks
<1>9. CASE FailTicks
  BY <1>9 DEF FailTicks
<1>10. CASE Crash
  BY <1>10 DEF Crash
<1>11. CASE Boot
  BY <1>11 DEF Boot, PauseElapsed, Larger
<1>12. CASE Tick
  BY <1>12 DEF Tick
<1>13. CASE StepBack
  BY <1>13 DEF StepBack
<1>14. CASE UNCHANGED vars
  BY <1>14 DEF vars
<1>15. QED
  BY <1>1, <1>2, <1>3, <1>4, <1>5, <1>6, <1>7, <1>8, <1>9, <1>10, <1>11, <1>12,
     <1>13, <1>14, <1>16 DEF Next

LEMMA TimeInvariance == Spec => []TimeInv
<1>1. Init => TimeInv
  BY DEF Init, TimeInv, Anchor
<1>2. QED
  BY <1>1, Typing, TimeStep, PTL DEF Spec

\* Until the wall clock is set back, company time is the time the company ran.
THEOREM RunningTime == Spec => []CountsRunningTime
<1>1. TypeOK /\ TimeInv => CountsRunningTime
  BY NowIsRan DEF CountsRunningTime
<1>2. QED
  BY <1>1, Typing, TimeInvariance, PTL

\* Company time as callers are told it goes back only if the wall clock did and
\* the process died.
THEOREM Forward == Spec => ToldInOrder
<1>1. ASSUME TypeOK, TimeInv, [Next]_vars
      PROVE  reported' >= reported \/ (setBack > 0 /\ restarted)
  <2>1. CASE reported' = reported
    BY <1>1, <2>1 DEF TypeOK
  <2>2. CASE See
    <3>1. CASE setBack = 0
      BY <1>1, <2>2, <3>1, NowIsRan DEF See, TimeInv, TypeOK
    <3>2. CASE ~ restarted
      BY <1>1, <2>2, <3>2 DEF See, TimeInv, TypeOK, NowCompany, CompanySeconds, Larger,
         ClockState, NotPaused
    <3>3. QED
      BY <1>1, <3>1, <3>2, ClockConstants DEF ClockConstants, TypeOK
  <2>3. reported' = reported \/ See
    BY <1>1 DEF Next, vars, Pause, FinalisePause, Resume, AppendEvent, FailAppend, Observe, BeginTicks,
       EmitTick, EndTicks, FailTicks, Crash, Boot, Tick, StepBack, seen
  <2>4. QED
    BY <2>1, <2>2, <2>3
<1>2. ASSUME TypeOK, TimeInv, [Next]_vars
      PROVE  [reported' >= reported \/ (setBack > 0 /\ restarted)]_vars
  BY <1>1, <1>2
<1>3. QED
  BY <1>2, Typing, TimeInvariance, PTL DEF Spec, ToldInOrder

-----------------------------------------------------------------------------
(* Day ticks. *)

\* While the loop runs, the days before its next one are announced; until a
\* loop is cut short, no others are, and none twice.
DayInv ==
    /\ DaysInOrder
    /\ target = 0 => next = 0
    /\ target # 0 => next \in 1 .. target + 1 /\ 1 .. next - 1 \subseteq ticks
    /\ ~ cutShort =>
          /\ repeated = {}
          /\ target = 0 => ticks \subseteq 1 .. row.lastDay
          /\ target # 0 => ticks \subseteq 1 .. next - 1

LEMMA DayStep == TypeOK /\ TypeOK' /\ DayInv /\ [Next]_vars => DayInv'
<1> SUFFICES ASSUME TypeOK, TypeOK', DayInv, [Next]_vars PROVE DayInv'
  OBVIOUS
<1> USE DEF TypeOK, RowType, DayInv, DaysInOrder, time, seen, loop, log
<1>1. CASE row'.lastDay = row.lastDay /\ UNCHANGED <<loop, ticks, repeated, cutShort>>
  BY <1>1
<1>2. CASE BeginTicks
  <2>1. target = 0 /\ target' # 0 /\ next' = row.lastDay + 1 /\ row' = row
        /\ target' > row.lastDay
        /\ ticks' = ticks /\ repeated' = repeated /\ cutShort' = cutShort
    BY <1>2 DEF BeginTicks, Idle
  <2>2. QED
    BY <2>1
<1>3. CASE EmitTick
  <2>1. 1 .. next \subseteq ticks \cup {next}
    BY <1>3 DEF EmitTick
  <2>2. DaysInOrder'
    BY <1>3, <2>1 DEF EmitTick
  <2>3. ~ cutShort => next \notin ticks
    BY <1>3 DEF EmitTick
  <2>4. QED
    BY <1>3, <2>1, <2>2, <2>3 DEF EmitTick
<1>4. CASE EndTicks
  <2>1. next = target + 1 /\ target # 0
    BY <1>4 DEF EndTicks
  <2>2. row'.lastDay = target /\ target' = 0 /\ next' = 0
        /\ ticks' = ticks /\ repeated' = repeated /\ cutShort' = cutShort
    BY <1>4 DEF EndTicks
  <2>3. QED
    BY <2>1, <2>2
<1>5. CASE FailTicks
  BY <1>5 DEF FailTicks
<1>6. CASE Crash
  BY <1>6 DEF Crash
<1>7. CASE Pause \/ FinalisePause \/ Resume \/ Boot
  <2>1. row'.lastDay = row.lastDay
    BY <1>7 DEF Pause, FinalisePause, Resume, Boot
  <2>2. UNCHANGED <<loop, ticks, repeated, cutShort>>
    BY <1>7 DEF Pause, FinalisePause, Resume, Boot
  <2>3. QED
    BY <1>1, <2>1, <2>2
<1>8. CASE AppendEvent \/ FailAppend \/ Observe \/ Tick \/ StepBack \/ UNCHANGED vars
  BY <1>1, <1>8 DEF AppendEvent, FailAppend, Observe, Tick, StepBack, vars
<1>9. QED
  BY <1>2, <1>3, <1>4, <1>5, <1>6, <1>7, <1>8 DEF Next

LEMMA DayInvariance == Spec => []DayInv
<1>1. Init => DayInv
  BY DEF Init, DayInv, DaysInOrder
<1>2. QED
  BY <1>1, Typing, DayStep, PTL DEF Spec

\* Days are announced in order and without a gap, and twice only after a loop
\* was cut short.
THEOREM Days == Spec => [](DaysInOrder /\ DaysOnce)
<1>1. DayInv => DaysInOrder /\ DaysOnce
  BY DEF DayInv, DaysOnce
<1>2. QED
  BY <1>1, DayInvariance, PTL

-----------------------------------------------------------------------------
(* Transitions and their events. *)

\* An event still to be appended tells the state the clock is in.
EventInv ==
    /\ TransitionsLogged
    /\ unsent = "CLOCK_PAUSED" => row.state # "running"
    /\ unsent = "CLOCK_RESUMED" => row.state = "running"

\* The event store tells whether the company is running, unless a crash or an
\* error fell between a transition and its event.
THEOREM Logged == Spec => []TransitionsLogged
<1>1. Init => EventInv
  BY DEF Init, EventInv, TransitionsLogged
<1>2. TypeOK /\ EventInv /\ [Next]_vars => EventInv'
  <2> SUFFICES ASSUME TypeOK, EventInv, [Next]_vars PROVE EventInv'
    OBVIOUS
  <2> USE DEF TypeOK, RowType, EventInv, TransitionsLogged, ClockEvents, ClockState, Idle, log
  <2>1. CASE Pause
    BY <2>1 DEF Pause
  <2>2. CASE FinalisePause
    BY <2>2 DEF FinalisePause
  <2>3. CASE Resume
    BY <2>3 DEF Resume
  <2>4. CASE AppendEvent
    BY <2>4 DEF AppendEvent
  <2>10. CASE FailAppend
    BY <2>10 DEF FailAppend
  <2>5. CASE Crash
    BY <2>5 DEF Crash
  <2>6. CASE Boot
    BY <2>6 DEF Boot
  <2>7. CASE EndTicks
    BY <2>7 DEF EndTicks
  <2>8. CASE Observe \/ BeginTicks \/ EmitTick \/ FailTicks \/ Tick \/ StepBack
             \/ UNCHANGED vars
    BY <2>8 DEF Observe, BeginTicks, EmitTick, FailTicks, Tick, StepBack, vars
  <2>9. QED
    BY <2>1, <2>2, <2>3, <2>4, <2>5, <2>6, <2>7, <2>8, <2>10 DEF Next
<1>3. EventInv => TransitionsLogged
  BY DEF EventInv
<1>4. QED
  BY <1>1, <1>2, <1>3, Typing, PTL DEF Spec
=============================================================================
