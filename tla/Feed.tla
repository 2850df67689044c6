-------------------------------- MODULE Feed --------------------------------
(***************************************************************************)
(* The event log of a company and the live feed of it that a browser shows *)
(* (modules/event_store/store.py, modules/board_api/routes/stream.py and   *)
(* the hook of modules/board_ui/lib/sse.ts).                               *)
(*                                                                         *)
(* The server subscribes to the log, then reads a limited backlog, then    *)
(* follows a bounded queue that drops its oldest event when it is full.    *)
(* The browser connects again after every interruption and names the last  *)
(* event that reached it.  An event is known by its place in the log, its  *)
(* id.  A callback given to call_soon_threadsafe runs before the feed's    *)
(* next step, so an event is in the queue as soon as it is in the log.     *)
(* A frame that an interruption keeps from the browser is a frame that the *)
(* server did not get to send: both forget it, and the browser asks again. *)
(***************************************************************************)
EXTENDS Naturals, Sequences, FiniteSets, FiniteSetsExt, Functions

CONSTANTS
    BacklogLimit,  \* events that one read of the backlog returns (10_000)
    QueueBuffer,   \* events that wait for a slow connection (1024)
    MaxBreaks      \* bound: interruptions of the connection

ASSUME FeedConstants == {BacklogLimit, QueueBuffer, MaxBreaks} \subseteq Nat \ {0}

VARIABLES
    log,      \* the table events
    conn,     \* the connection: "off", "opening" or "streaming"
    backlog,  \* what is left of the backlog that was read
    queue,    \* the queue between the subscription and the connection
    lastId,   \* last_id of the generator
    shown,    \* frames that the browser received
    dropped,  \* ids that a full queue dropped
    cut,      \* ids that the limit kept out of a backlog
    breaks    \* interruptions so far

feedVars == <<conn, backlog, queue, lastId, shown, dropped, cut, breaks>>

Ids == 1 .. Len(log)
LastShown == IF shown = <<>> THEN 0 ELSE shown[Len(shown)]   \* lastIdRef

FeedInit ==
    /\ log = <<>>
    /\ conn = "off"
    /\ backlog = <<>> /\ queue = <<>> /\ shown = <<>>
    /\ lastId = 0
    /\ dropped = {} /\ cut = {}
    /\ breaks = 0

\* read(): the ids after since, oldest first, no more than limit.
Read(since, limit) ==
    [i \in 1 .. Min({limit, Len(log) - since}) |-> since + i]

\* _safe_put
SafePut(q, id) == Append(IF Len(q) < QueueBuffer THEN q ELSE Tail(q), id)

\* _broadcast: what is in the queue once the subscribers have heard of the event.
Broadcast(id) == IF conn = "off" THEN queue ELSE SafePut(queue, id)

\* append(): the row is committed, then it is broadcast.
StoreEvent(event) ==
    LET id == Len(log) + 1
        q == Broadcast(id)
    IN /\ log' = Append(log, event)
       /\ queue' = q
       /\ dropped' = dropped \cup ((Range(queue) \cup (IF conn = "off" THEN {} ELSE {id}))
                                       \ Range(q))
       /\ UNCHANGED <<conn, backlog, lastId, shown, cut, breaks>>

-----------------------------------------------------------------------------
(* One connection. *)

\* subscribe(): from now on the queue is fed.
Subscribe == conn = "off" /\ conn' = "opening"

\* The first step of _company_stream.
OpenStream(since) == Subscribe /\ lastId' = since

\* connect() of the browser, and the route: since is the last event it received.
Connect ==
    /\ OpenStream(LastShown)
    /\ UNCHANGED <<log, backlog, queue, shown, dropped, cut, breaks>>

\* Mutant: the server subscribes after the read only, so that what happened
\* before is not in the queue.
ReadBacklogUnsubscribed ==
    /\ conn = "opening"
    /\ conn' = "streaming"
    /\ backlog' = Read(lastId, BacklogLimit)
    /\ cut' = cut \cup ({id \in Ids : id > lastId + BacklogLimit} \ Range(queue))
    /\ queue' = <<>>
    /\ UNCHANGED <<log, lastId, shown, dropped, breaks>>

\* The read of the backlog, a step later: events may have come in between.
ReadBacklog ==
    /\ conn = "opening"
    /\ conn' = "streaming"
    /\ backlog' = Read(lastId, BacklogLimit)
    /\ cut' = cut \cup ({id \in Ids : id > lastId + BacklogLimit} \ Range(queue))
    /\ UNCHANGED <<log, queue, lastId, shown, dropped, breaks>>

\* The backlog is sent one event at a time; other tasks run in between.
SendBacklog ==
    /\ conn = "streaming"
    /\ backlog # <<>>
    /\ shown' = Append(shown, Head(backlog))
    /\ lastId' = Max({lastId, Head(backlog)})
    /\ backlog' = Tail(backlog)
    /\ UNCHANGED <<log, conn, queue, dropped, cut, breaks>>

\* Then the queue; what the backlog held already is skipped.
SendQueued ==
    /\ conn = "streaming"
    /\ backlog = <<>>
    /\ queue # <<>>
    /\ queue' = Tail(queue)
    /\ IF Head(queue) > lastId
       THEN shown' = Append(shown, Head(queue)) /\ lastId' = Head(queue)
       ELSE UNCHANGED <<shown, lastId>>
    /\ UNCHANGED <<log, conn, backlog, dropped, cut, breaks>>

\* The connection or the server goes away.
Hangup ==
    /\ conn' = "off"
    /\ backlog' = <<>> /\ queue' = <<>>
    /\ breaks' = breaks + 1
    /\ UNCHANGED <<lastId, shown, dropped, cut>>

Break ==
    /\ conn # "off"
    /\ breaks < MaxBreaks
    /\ Hangup
    /\ UNCHANGED log

FeedStep == Connect \/ ReadBacklog \/ SendBacklog \/ SendQueued
-----------------------------------------------------------------------------
(* Properties. *)

\* No event is shown twice and none out of order.
ShownInOrder == \A i, j \in DOMAIN shown : i < j => shown[i] < shown[j]

\* An event before the last one shown is missing only because a full queue
\* dropped it or because the backlog was longer than its limit.
NoSilentGap ==
    \A id \in 1 .. LastShown : id \in Range(shown) \cup dropped \cup cut

\* What the browser shows is the log: in order, nothing twice, and no gap but
\* what the two limits explain, whatever is interrupted, restarted or appended
\* while the backlog is read and sent.
FeedIsLog == ShownInOrder /\ NoSilentGap

=============================================================================
