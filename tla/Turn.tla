-------------------------------- MODULE Turn --------------------------------
(***************************************************************************)
(* One turn of an agent (modules/agent_runtime/turn.py and agent.py)       *)
(* against its LLM client (modules/llm), with a tool that writes files.    *)
(*                                                                         *)
(* The client and the turn hand control to each other: the client yields   *)
(* the tool calls of a response one by one, the turn runs each of them and *)
(* submits its result, and the client asks the LLM again, a limited number *)
(* of times.  Agents take turns on one event loop; a turn gives it up at   *)
(* every LLM call and tool call.                                           *)
(***************************************************************************)
EXTENDS Workspace, Sequences, SequencesExt

CONSTANTS
    Agent,
    MaxToolLoops,  \* settings.max_tool_loops
    Backoffs,      \* how often a call that was rate limited is made again
    WindowSize,    \* items of working memory that the LLM is shown (20)
    MaxCalls,      \* bound: tool calls in one response
    MaxTurns,      \* bound: turns
    MaxCrashes     \* bound: crashes

ASSUME TurnConstants ==
    /\ Agent \subseteq Owner
    /\ {MaxToolLoops, Backoffs, WindowSize, MaxCalls, MaxTurns, MaxCrashes} \subseteq Nat
    /\ WindowSize >= 2   \* 20 in the code

VARIABLES
    turn,       \* the turn of each agent
    log,        \* the events of each agent's turns
    memory,     \* what the LLM is shown of each agent's working memory
    ended,       \* agents whose run loop has ended
    abandoned,  \* turns of each agent that were cancelled or died with the process
    crashes

turnVars == <<turn, log, memory, ended, abandoned, crashes>>
allTurnVars == <<wsVars, turnVars>>

\* from: who sent the message.  tries: rate-limited attempts of the LLM call.
\* calls: tool calls that wait for a result.  replied: replied_to_sender.
\* said: messages to the sender that the tool layer was given and, if the LLM
\* wrote them, accepted.  cut: stop_reason is tool_loop_cap.
Idle == [phase |-> "idle", from |-> "system", calls |-> <<>>, loops |-> 0, tries |-> 0,
         replied |-> FALSE, said |-> 0, cut |-> FALSE]

\* A call of send_message to the sender, of write_my_workspace, or of another
\* tool.
Tool == {"reply", "write", "other"}

LoopFree == writing = None
In(a, phase) == LoopFree /\ turn[a].phase = phase
Emit(a, events) == log' = [log EXCEPT ![a] = @ \o events]
Told(a, kinds) == Cardinality({i \in DOMAIN log[a] : log[a][i] \in kinds})
Begun == FoldFunction(+, 0, [a \in Agent |-> Told(a, {"delivered"})])

\* append_working, seen through working_window: the last WindowSize items.
AppendWorking(a, items) ==
    LET all == memory[a] \o items
        skip == IF Len(all) > WindowSize THEN Len(all) - WindowSize ELSE 0
    IN memory' = [memory EXCEPT ![a] = SubSeq(all, skip + 1, Len(all))]

-----------------------------------------------------------------------------
(* The turn. *)

\* _run_loop: the agent is free to take a message.
RunLoop(a) == In(a, "idle") /\ a \notin ended

\* The beginning of run_turn, up to the LLM call.
Begin(a, from) ==
    /\ RunLoop(a)
    /\ Begun < MaxTurns
    /\ turn' = [turn EXCEPT ![a] = [Idle EXCEPT !.phase = "asking", !.from = from]]
    /\ AppendWorking(a, <<"message">>)
    /\ Emit(a, <<"delivered">>)
    /\ UNCHANGED <<wsVars, ended, abandoned, crashes>>

Asking(a) == In(a, "asking") /\ turn[a].loops < MaxToolLoops

\* _chat_with_backoff: rate limited, to be tried again after a while.
Throttled(a) ==
    /\ Asking(a)
    /\ turn[a].tries < Backoffs
    /\ turn' = [turn EXCEPT ![a].tries = @ + 1]
    /\ UNCHANGED <<wsVars, log, memory, ended, abandoned, crashes>>

\* Mutant: the responses are not counted.
AskedUncounted(t) == t.loops

\* The response that was asked for is one of max_tool_loops.
Asked(t) == t.loops + 1

\* _run: a response with tool calls, or the last one.
Respond(a) ==
    /\ Asking(a)
    /\ \/ /\ \E calls \in BoundedSeq(Tool, MaxCalls) \ {<<>>} :
                turn' = [turn EXCEPT ![a].phase = "calling", ![a].calls = calls,
                                     ![a].loops = Asked(turn[a]), ![a].tries = 0]
          /\ UNCHANGED memory
       \/ /\ turn' = [turn EXCEPT ![a].phase = "closing"]
          /\ \E text \in {<<>>, <<"answer">>} : AppendWorking(a, text)
    /\ UNCHANGED <<wsVars, log, ended, abandoned, crashes>>

\* _run: tool_loop_cap.
GiveUp(a) ==
    /\ In(a, "asking")
    /\ turn[a].loops >= MaxToolLoops
    /\ turn' = [turn EXCEPT ![a].phase = "closing", ![a].cut = TRUE]
    /\ UNCHANGED <<wsVars, log, memory, ended, abandoned, crashes>>

\* Mutant: any call that went well counts as an answer.
AnswersAny(tool, ok) == ok

\* send_message to the sender.  Its result is ok also when the orchestrator
\* rejected the message.
Answers(tool, ok) == ok /\ tool = "reply"

\* submit_tool_result: the client goes on once the last call has its result.
SubmitToolResult(t) ==
    [t EXCEPT !.calls = Tail(@), !.phase = IF Len(t.calls) = 1 THEN "asking" ELSE @]

Called(t, ok) ==
    [SubmitToolResult(t) EXCEPT
        !.replied = @ \/ (t.from = "peer" /\ Answers(Head(t.calls), ok)),
        !.said = IF ok /\ Head(t.calls) = "reply" THEN @ + 1 ELSE @]

\* What working memory keeps of a call: a refusal is pointed out, also that of
\* a message that was soft-rejected; a call that raised leaves nothing.
Noted(tool, ok) ==
    (IF ok THEN {<<"tool">>} ELSE {<<>>})
        \cup (IF ~ok \/ tool = "reply" THEN {<<"tool", "refusal">>} ELSE {})

\* A tool call returns, well or not, or raises, and the LLM is told.
Call(a) ==
    /\ In(a, "calling")
    /\ \E ok \in BOOLEAN :
          /\ Head(turn[a].calls) = "write" => ~ok
          /\ turn' = [turn EXCEPT ![a] = Called(@, ok)]
          /\ \E notes \in Noted(Head(turn[a].calls), ok) : AppendWorking(a, notes)
    /\ UNCHANGED <<wsVars, log, ended, abandoned, crashes>>

\* The call of write_my_workspace that is not refused.
CallWrite(a) ==
    /\ In(a, "calling")
    /\ Head(turn[a].calls) = "write"
    /\ \E f \in File, size \in 0 .. MaxSize : Replace(a, f, size)
    /\ turn' = [turn EXCEPT ![a] = Called(@, TRUE)]
    /\ AppendWorking(a, <<"tool">>)
    /\ UNCHANGED <<log, ended, abandoned, crashes>>

\* Mutant: an LLM that fails is not reported.
UnhealthyQuietly(a) == UNCHANGED log /\ ended' = ended \cup {a}

\* _handle_message, when the turn raises: the alert, and the end of the run loop.
Unhealthy(a) == Emit(a, <<"alert">>) /\ ended' = ended \cup {a}

\* The LLM fails, is rate limited for too long or does not answer in time:
\* LLMFailure or TurnTimeout.
Fail(a) ==
    /\ Asking(a)
    /\ turn' = [turn EXCEPT ![a] = Idle]
    /\ Unhealthy(a)
    /\ UNCHANGED <<wsVars, memory, abandoned, crashes>>

\* Mutant: the next turn is not told that this one was cut short.
CloseForgets(a) ==
    /\ In(a, "closing")
    /\ Emit(a, IF turn[a].cut THEN <<"truncated">> ELSE <<>>)
    /\ UNCHANGED memory
    /\ turn' = [turn EXCEPT ![a].phase = IF turn[a].from = "peer" /\ ~turn[a].replied
                                         THEN "acking" ELSE "completing"]
    /\ UNCHANGED <<wsVars, ended, abandoned, crashes>>

\* The stream has ended.  A sender without an answer gets one.
Close(a) ==
    /\ In(a, "closing")
    /\ Emit(a, IF turn[a].cut THEN <<"truncated">> ELSE <<>>)
    /\ AppendWorking(a, IF turn[a].cut THEN <<"cut">> ELSE <<>>)
    /\ turn' = [turn EXCEPT ![a].phase = IF turn[a].from = "peer" /\ ~turn[a].replied
                                         THEN "acking" ELSE "completing"]
    /\ UNCHANGED <<wsVars, ended, abandoned, crashes>>

\* The automatic answer, whose failure is only logged.
AutoAck(a) ==
    /\ In(a, "acking")
    /\ turn' = [turn EXCEPT ![a].phase = "completing", ![a].said = @ + 1]
    /\ UNCHANGED <<wsVars, log, memory, ended, abandoned, crashes>>

\* _detect_task_done: the LLM's answer holds the marker of a task that is done, or not.
DetectTaskDone == BOOLEAN

\* The end of run_turn; a task that is done is summarised first.
Complete(a) ==
    /\ In(a, "completing")
    /\ Emit(a, <<"completed">>)
    /\ \E done \in DetectTaskDone :
          turn' = [turn EXCEPT ![a] = [Idle EXCEPT !.phase = IF done THEN "remembering" ELSE @]]
    /\ UNCHANGED <<wsVars, memory, ended, abandoned, crashes>>

\* remember_episode raises on a summary that is too long, which ends the run loop
\* without an alert.
RememberEpisode(a) == ended' \in {ended, ended \cup {a}}

\* _summarize_and_remember: a summary by the LLM, or a makeshift one.
SummarizeAndRemember(a) ==
    /\ In(a, "remembering")
    /\ turn' = [turn EXCEPT ![a] = Idle]
    /\ RememberEpisode(a)
    /\ UNCHANGED <<wsVars, log, memory, abandoned, crashes>>

Busy(a) == turn[a].phase # "idle"
Unfinished(a) == turn[a].phase \notin {"idle", "remembering"}

\* stop(): a turn that outlasts the drain is cancelled.
Stop(a) ==
    /\ LoopFree
    /\ a \notin ended
    /\ ended' = ended \cup {a}
    /\ turn' = [turn EXCEPT ![a] = Idle]
    /\ abandoned' = [abandoned EXCEPT ![a] = IF Unfinished(a) THEN @ + 1 ELSE @]
    /\ UNCHANGED <<wsVars, log, memory, crashes>>

\* start(), of every agent.
Start == ended' = {}

\* The process dies and the company is built again.
Crash ==
    /\ crashes < MaxCrashes
    /\ crashes' = crashes + 1
    /\ turn' = [a \in Agent |-> Idle]
    /\ Start
    /\ abandoned' = [a \in Agent |-> IF Unfinished(a) THEN abandoned[a] + 1 ELSE abandoned[a]]
    /\ Tear
    /\ EnsureForAgent
    /\ UNCHANGED <<log, memory>>

\* Files that the Board or another agent changes.
Storage ==
    /\ \/ Commit \/ ReconcileQuota \/ UpdateDiskQuota
       \/ \E w \in Owner, f \in File :
             \/ Unlink(w, f)
             \/ w \notin Agent /\ \E size \in 0 .. MaxSize : Replace(w, f, size)
    /\ UNCHANGED turnVars

TurnInit ==
    /\ WsInit
    /\ turn = [a \in Agent |-> Idle]
    /\ log = [a \in Agent |-> <<>>]
    /\ memory = [a \in Agent |-> <<>>]
    /\ ended = {}
    /\ abandoned = [a \in Agent |-> 0]
    /\ crashes = 0

TurnStep(a) ==
    \/ Throttled(a) \/ Respond(a) \/ GiveUp(a) \/ Fail(a) \/ Call(a) \/ CallWrite(a)
    \/ Close(a) \/ AutoAck(a) \/ Complete(a) \/ SummarizeAndRemember(a)

TurnNext ==
    \/ \E a \in Agent :
          \/ Begin(a, "peer") \/ Begin(a, "system")
          \/ TurnStep(a) \/ Stop(a)
    \/ Storage \/ Crash

\* The event loop runs every task that is ready.  A turn goes on because its LLM
\* calls have a time limit and its tool calls return.
TurnSpec ==
    /\ TurnInit /\ [][TurnNext]_allTurnVars
    /\ WF_allTurnVars(Commit /\ UNCHANGED turnVars)
    /\ \A a \in Agent : SF_allTurnVars(TurnStep(a))
-----------------------------------------------------------------------------
(* Properties. *)

\* Every message that was delivered is told the end of: completed, or an alert.
\* Only turns that were cancelled, or died with the process, have none.
TurnsTold ==
    \A a \in Agent :
        Told(a, {"delivered"}) = Told(a, {"completed", "alert"}) + abandoned[a]
                                     + (IF Unfinished(a) THEN 1 ELSE 0)

\* A turn does not complete before the agent who wrote was sent a message: if no
\* send_message of the LLM went well, the automatic answer is tried, also when the
\* turn was cut short or its calls failed.
NobodyLeftWaiting ==
    \A a \in Agent :
        turn[a].phase = "completing" /\ turn[a].from = "peer" => turn[a].said > 0

\* An agent whose last turn was cut short learns of it: what the LLM is shown when
\* the next turn begins holds the note, whatever the cut turn had done before.
CutIsRemembered ==
    \A a \in Agent :
        turn[a].phase = "asking" /\ turn[a].loops = 0
             /\ Len(log[a]) > 2 /\ log[a][Len(log[a]) - 1] = "completed"
             /\ log[a][Len(log[a]) - 2] = "truncated"
                => \E i \in DOMAIN memory[a] : memory[a][i] = "cut"

\* Every turn ends, however many tools the LLM wants to call.
EveryTurnEnds == \A a \in Agent : Busy(a) ~> ~Busy(a)
=============================================================================
