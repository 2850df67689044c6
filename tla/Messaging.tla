------------------------------ MODULE Messaging ------------------------------
(***************************************************************************)
(* Messages between agents: Orchestrator._send and its consumers           *)
(* (modules/orchestrator/orchestrator.py), the in-memory queue             *)
(* (streams.py), the agents' run loops (modules/agent_runtime/agent.py)    *)
(* and the pause of the clock (modules/clock/clock.py), which all of them  *)
(* ask and which asks whether the company is idle.                         *)
(*                                                                         *)
(* A message is known by the number under which it was accepted.  Everyone *)
(* runs on one event loop and gives it up only where a step below ends.    *)
(***************************************************************************)
EXTENDS Integers, Sequences, FiniteSets, SequencesExt

CONSTANTS
    Agents,
    Correlations,     \* correlation ids of messages
    NoCorrelation,    \* a message without one
    LoopStrikes,      \* _LOOP_STRIKES_BEFORE_SUSPEND
    MaxMessages       \* bound on accepted messages

ASSUME MessagingConstants ==
    /\ NoCorrelation \notin Correlations
    /\ LoopStrikes \in Nat \ {0}
    /\ MaxMessages \in Nat

VARIABLES
    clock,      \* Clock._state
    active,     \* the agents whose status in the org is ACTIVE
    registered, \* Orchestrator._agents
    served,     \* Orchestrator._consumers: agents whose queue is consumed
    suspended,  \* Orchestrator._suspended
    strikes,    \* Orchestrator._loop_strikes
    accepted,   \* how many messages were QUEUED so far
    queue,      \* the queue of each agent: [id, correlation, attempts]
    seen,       \* the correlation ids that were pushed for each agent
    inbox,      \* Agent._queue: messages delivered and not yet taken
    status,     \* Agent._status
    work,       \* the message of the agent's turn, 0 if none
    dead,       \* the agents whose run loop has ended with an exception
    settled,    \* messages whose turn has ended, well or not
    dlq         \* messages in the dead-letter queue

staff == <<active, registered, served>>
gates == <<staff, suspended, strikes>>
agentVars == <<inbox, status, work, dead, settled>>
queueVars == <<accepted, queue, seen, dlq>>
vars == <<clock, gates, queueVars, agentVars>>

MAX_ATTEMPTS == 3
AgentStatus == {"idle", "working", "unhealthy"}
Ids == 1 .. MaxMessages

TypeOK ==
    /\ clock \in {"running", "pausing", "paused"}
    /\ active \subseteq registered /\ served \subseteq registered /\ registered \subseteq Agents
    /\ suspended \subseteq Agents
    /\ strikes \in [Agents -> 0 .. LoopStrikes]
    /\ accepted \in 0 .. MaxMessages
    /\ \A a \in Agents :
          /\ \A i \in 1 .. Len(queue[a]) :
                queue[a][i] \in [id : Ids, correlation : Correlations \cup {NoCorrelation},
                                 attempts : 0 .. MAX_ATTEMPTS - 1]
          /\ \A i \in 1 .. Len(inbox[a]) : inbox[a][i] \in Ids
    /\ seen \in [Agents -> SUBSET Correlations]
    /\ status \in [Agents -> AgentStatus]
    /\ work \in [Agents -> {0} \cup Ids]
    /\ dead \subseteq Agents
    /\ settled \subseteq Ids /\ dlq \subseteq Ids

-----------------------------------------------------------------------------
(* Sending. *)

Accepting == clock = "running"   \* Clock.is_accepting_messages

\* _is_active, the suspension list and the registry.
Deliverable(a) == a \in (active \cap registered) \ suspended

\* push, of a new envelope
Push(a, c) ==
    /\ accepted < MaxMessages
    /\ accepted' = accepted + 1
    /\ queue' = [queue EXCEPT ![a] = Append(@, [id |-> accepted', correlation |-> c, attempts |-> 0])]
    /\ seen' = [seen EXCEPT ![a] = @ \cup ({c} \cap Correlations)]
    /\ UNCHANGED dlq

\* _send of an agent, QUEUED: every gate passed.  A message that fails the size,
\* target, pause, rate or duplicate gate leaves no trace but a notice.
Send(from, a, c) ==
    /\ from \in active
    /\ Deliverable(a)
    /\ Accepting
    /\ c \notin seen[a]
    /\ Push(a, c)
    /\ UNCHANGED <<clock, gates, agentVars>>

\* system_send, which no rate limit and no loop detection stops: a message of
\* the Board, or one of the notices below.
SystemSend(a) ==
    /\ Deliverable(a)
    /\ Accepting
    /\ Push(a, NoCorrelation)
    /\ UNCHANGED <<clock, gates, agentVars>>

\* _notify_sender_invalid: the recipient is fired, suspended or unknown.
NotifySenderInvalid(from, a) ==
    /\ from \in active
    /\ ~ Deliverable(a)
    /\ SystemSend(from)

\* _notify_slow_down: the sender has used up its rate.
NotifySlowDown(from, a) ==
    /\ Deliverable(a)
    /\ SystemSend(from)

\* _nudge, by idle_sweep: an agent has been silent for too long.  Its manager is
\* asked to act, or the agent itself if it has none.
Nudge(a, to) ==
    /\ a \in registered \ suspended
    /\ status[a] = "idle"
    /\ SystemSend(to)

\* _notify_manager_unhealthy, by health_sweep; the score of an agent is left open.
NotifyManagerUnhealthy(a, to) ==
    /\ a \in registered
    /\ SystemSend(to)

\* _watchdog_loop: both sweeps, while the clock is running.
Watchdog(a, to) ==
    /\ Accepting
    /\ Nudge(a, to) \/ NotifyManagerUnhealthy(a, to)

\* _send finds a loop: the recipient gets a strike, and the third suspends it.
HandleLoop(from, a) ==
    /\ from \in active
    /\ Deliverable(a)
    /\ Accepting
    /\ strikes' = [strikes EXCEPT ![a] = IF @ < LoopStrikes THEN @ + 1 ELSE @]
    /\ suspended' = IF strikes'[a] >= LoopStrikes
                    THEN suspended \cup {a} ELSE suspended
    /\ UNCHANGED <<clock, staff, queueVars, agentVars>>

\* suspend and resume of an agent; resume does not forgive the strikes.
Suspend(a) ==
    /\ suspended' = suspended \cup {a}
    /\ UNCHANGED <<clock, staff, strikes, queueVars, agentVars>>

LiftSuspension(a) ==
    /\ suspended' = suspended \ {a}
    /\ UNCHANGED <<clock, staff, strikes, queueVars, agentVars>>

\* register(): the routing table, and no consumer.
Register(a) == registered' = registered \cup {a}

\* What the new hire, its manager and, unless they are the same, the requester
\* are sent; nothing while the clock is not running.
Notices(a, manager, requester) ==
    LET Notice(b) == IF Accepting /\ (b = a \/ Deliverable(b)) THEN <<b>> ELSE <<>>
    IN Notice(a) \o Notice(manager)
          \o IF requester = manager THEN <<>> ELSE Notice(requester)

\* _hire_member_from_payload, once the agent is in the org: it is registered and
\* started, and three messages are sent.
Hire(a, manager, requester) ==
    LET sent == Notices(a, manager, requester)
    IN /\ a \notin registered
       /\ {manager, requester} \subseteq active
       /\ active' = active \cup {a}
       /\ Register(a)
       /\ accepted + Len(sent) <= MaxMessages
       /\ accepted' = accepted + Len(sent)
       /\ queue' = [b \in Agents |->
                       queue[b] \o IF b \in ToSet(sent)
                                   THEN <<[id |-> accepted + CHOOSE j \in DOMAIN sent : sent[j] = b,
                                           correlation |-> NoCorrelation, attempts |-> 0]>>
                                   ELSE <<>>]
       /\ UNCHANGED <<clock, served, suspended, strikes, seen, dlq, agentVars>>

\* The org fires an agent.  Its run loop and its queue stay as they are.
Fire(a) ==
    /\ active' = active \ {a}
    /\ UNCHANGED <<clock, registered, served, suspended, strikes, queueVars, agentVars>>

-----------------------------------------------------------------------------
(* The consumers: start() makes one for every agent that is registered by  *)
(* then.                                                                   *)

\* _dispatch: the message is put into the agent's inbox.
Dispatch(a) ==
    /\ a \in served
    /\ Accepting
    /\ queue[a] # <<>>
    /\ inbox' = [inbox EXCEPT ![a] = Append(@, Head(queue[a]).id)]
    /\ queue' = [queue EXCEPT ![a] = Tail(@)]
    /\ UNCHANGED <<clock, gates, accepted, seen, dlq, status, work, dead, settled>>

\* Mutant: the last attempt is dropped instead of kept in the dead-letter queue.
DispatchFailsDropping(a) ==
    /\ a \in served
    /\ Accepting
    /\ queue[a] # <<>>
    /\ LET env == [Head(queue[a]) EXCEPT !.attempts = @ + 1]
       IN queue' = [queue EXCEPT ![a] = IF env.attempts >= MAX_ATTEMPTS THEN Tail(@)
                                        ELSE Append(Tail(@), env)]
    /\ UNCHANGED <<clock, gates, accepted, seen, dlq, agentVars>>

\* The delivery raised: try again, behind the others, or give up.
DispatchFails(a) ==
    /\ a \in served
    /\ Accepting
    /\ queue[a] # <<>>
    /\ LET env == [Head(queue[a]) EXCEPT !.attempts = @ + 1]
       IN \/ /\ env.attempts >= MAX_ATTEMPTS
             /\ dlq' = dlq \cup {env.id}
             /\ queue' = [queue EXCEPT ![a] = Tail(@)]
          \/ /\ env.attempts < MAX_ATTEMPTS
             /\ queue' = [queue EXCEPT ![a] = Append(Tail(@), env)]
             /\ UNCHANGED dlq
    /\ UNCHANGED <<clock, gates, accepted, seen, agentVars>>

\* While the clock is not running the head goes back, behind the others.
Requeue(a) ==
    /\ a \in served
    /\ ~ Accepting
    /\ queue[a] # <<>>
    /\ queue' = [queue EXCEPT ![a] = Append(Tail(@), Head(@))]
    /\ UNCHANGED <<clock, gates, accepted, seen, dlq, agentVars>>

-----------------------------------------------------------------------------
(* The run loops of the agents. *)

\* Mutant: a fired agent takes nothing more.
TakeActive(a) ==
    /\ a \in active \ dead
    /\ work[a] = 0
    /\ inbox[a] # <<>>
    /\ Accepting
    /\ work' = [work EXCEPT ![a] = Head(inbox[a])]
    /\ inbox' = [inbox EXCEPT ![a] = Tail(@)]
    /\ status' = [status EXCEPT ![a] = "working"]
    /\ UNCHANGED <<clock, gates, queueVars, dead, settled>>

Take(a) ==
    /\ a \notin dead
    /\ work[a] = 0
    /\ inbox[a] # <<>>
    /\ Accepting
    /\ work' = [work EXCEPT ![a] = Head(inbox[a])]
    /\ inbox' = [inbox EXCEPT ![a] = Tail(@)]
    /\ status' = [status EXCEPT ![a] = "working"]
    /\ UNCHANGED <<clock, gates, queueVars, dead, settled>>

\* While the clock is not running the message goes back, behind the others.
PutBack(a) ==
    /\ a \notin dead
    /\ work[a] = 0
    /\ inbox[a] # <<>>
    /\ ~ Accepting
    /\ inbox' = [inbox EXCEPT ![a] = Append(Tail(@), Head(@))]
    /\ UNCHANGED <<clock, gates, queueVars, status, work, dead, settled>>

EndTurn(a, result) ==
    /\ work[a] # 0
    /\ settled' = settled \cup {work[a]}
    /\ work' = [work EXCEPT ![a] = 0]
    /\ status' = [status EXCEPT ![a] = result]
    /\ UNCHANGED <<clock, gates, queueVars, inbox>>

TurnCompletes(a) == EndTurn(a, "idle") /\ UNCHANGED dead

\* LLMFailure or TurnTimeout: marked unhealthy and raised, which ends the run
\* loop.  Any other exception ends it too and leaves the status as it is.
TurnFails(a) ==
    /\ \E result \in {"unhealthy", "working"} : EndTurn(a, result)
    /\ dead' = dead \cup {a}

-----------------------------------------------------------------------------
(* The pause. *)

\* Mutant: only the queues are looked at.
CompanyIdleQueues == \A a \in registered : queue[a] = <<>>

\* Mutant: messages that agents have not taken keep the company from being idle.
CompanyIdleInboxes ==
    \A a \in registered : queue[a] = <<>> /\ status[a] = "idle" /\ inbox[a] = <<>>

\* is_company_idle
CompanyIdle == \A a \in registered : queue[a] = <<>> /\ status[a] = "idle"

Pause ==
    /\ clock = "running"
    /\ clock' = IF CompanyIdle THEN "paused" ELSE "pausing"
    /\ UNCHANGED <<gates, queueVars, agentVars>>

\* The clock's background loop asks again.
FinalisePause ==
    /\ clock = "pausing"
    /\ CompanyIdle
    /\ clock' = "paused"
    /\ UNCHANGED <<gates, queueVars, agentVars>>

Resume ==
    /\ clock # "running"
    /\ clock' = "running"
    /\ UNCHANGED <<gates, queueVars, agentVars>>

-----------------------------------------------------------------------------

\* build_company: start() follows the registration of the first staff.
Init ==
    /\ clock = "running"
    /\ registered \in SUBSET Agents \ {{}}
    /\ active = registered /\ served = registered
    /\ suspended = {}
    /\ strikes = [a \in Agents |-> 0]
    /\ accepted = 0
    /\ queue = [a \in Agents |-> <<>>]
    /\ seen = [a \in Agents |-> {}]
    /\ inbox = [a \in Agents |-> <<>>]
    /\ status = [a \in Agents |-> "idle"]
    /\ work = [a \in Agents |-> 0]
    /\ dead = {}
    /\ settled = {} /\ dlq = {}

Next ==
    \/ \E s, a \in Agents :
          \/ HandleLoop(s, a) \/ NotifySenderInvalid(s, a) \/ NotifySlowDown(s, a)
          \/ Watchdog(s, a)
          \/ \E m \in Agents : Hire(a, s, m)
          \/ \E c \in Correlations \cup {NoCorrelation} : Send(s, a, c)
    \/ \E a \in Agents :
          \/ SystemSend(a) \/ Suspend(a) \/ LiftSuspension(a) \/ Fire(a)
          \/ Dispatch(a) \/ DispatchFails(a) \/ Requeue(a)
          \/ Take(a) \/ PutBack(a) \/ TurnCompletes(a) \/ TurnFails(a)
    \/ Pause \/ FinalisePause \/ Resume

Spec == Init /\ [][Next]_vars

\* Consumers, run loops and the clock's background loop are tasks of the event
\* loop, which runs every task that is ready; a turn ends because each of its
\* LLM calls has a time limit.  Nobody has to send, pause or resume.
FairSpec ==
    /\ Spec
    /\ WF_vars(FinalisePause)
    /\ \A a \in Agents :
          /\ WF_vars(Dispatch(a) \/ DispatchFails(a) \/ Requeue(a))
          /\ WF_vars(Take(a) \/ PutBack(a))
          /\ WF_vars(TurnCompletes(a) \/ TurnFails(a))

-----------------------------------------------------------------------------
(* Properties. *)

QueuedIds(a) == {queue[a][i].id : i \in 1 .. Len(queue[a])}
InboxIds(a) == ToSet(inbox[a])
Waiting(a) == QueuedIds(a) \cup InboxIds(a)

\* Where message m is: the places, counted with repetition.
Copies(m) ==
    Cardinality({p \in Agents \X (1 .. MaxMessages) :
                    p[2] <= Len(queue[p[1]]) /\ queue[p[1]][p[2]].id = m})
    + Cardinality({p \in Agents \X (1 .. MaxMessages) :
                    p[2] <= Len(inbox[p[1]]) /\ inbox[p[1]][p[2]] = m})
    + Cardinality({a \in Agents : work[a] = m})
    + Cardinality({m} \cap settled) + Cardinality({m} \cap dlq)

\* Every accepted message is in exactly one place: requeueing while paused,
\* retrying a delivery, failing turns and firing neither lose nor copy it.
NothingLost == \A m \in 1 .. accepted : Copies(m) = 1

\* A paused company is quiet: no turn runs and nothing is queued, whatever was
\* sent, taken or put back while the pause settled.
QuietWhenPaused ==
    clock = "paused" => \A a \in Agents : work[a] = 0 /\ queue[a] = <<>>

\* A message that is accepted is settled or given up, unless the clock is
\* stopped, the recipient's run loop has died or nobody consumes its queue.
EveryMessageSettles ==
    \A m \in Ids : \A a \in Agents :
        m \in Waiting(a) /\ a \in served
            ~> (m \in settled \cup dlq \/ clock # "running" \/ a \in dead)

\* A pause is completed once the queues are empty, whatever waits in the inboxes
\* of the agents, unless the run loop of one of them has died.
PauseSettles ==
    (clock = "pausing" /\ \A a \in Agents : queue[a] = <<>>)
        ~> (clock # "pausing" \/ dead # {})

\* What the head of orchestrator.py says: "Run one consumer task per registered
\* agent that pulls envelopes and forwards them to :meth:`AgentHandle.deliver`".
\* Messages do not stay in the queue of an agent while the clock is running.
EveryQueueConsumed ==
    \A a \in Agents : queue[a] # <<>> ~> (queue[a] = <<>> \/ clock # "running")
=============================================================================
