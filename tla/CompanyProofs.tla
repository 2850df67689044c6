--------------------------- MODULE CompanyProofs ----------------------------
(***************************************************************************)
(* First the life of the companies, for any number of companies, requests, *)
(* links and messages: data on disk can be reached by a row, and what the  *)
(* Board lists as ACTIVE is attached; and the outbox of the messages.      *)
(*                                                                         *)
(* Neither is inductive.  A request that has removed the files of a        *)
(* company is about to delete its row, so nothing of that company may be   *)
(* on disk then; and as ids are not used twice, nothing of it comes back.  *)
(* Nor is the truth of the outbox: a message that was read waits no more.  *)
(*                                                                         *)
(* Then the event log of a company and those who read it: the live feed of *)
(* the browser and the findings of the efficiency service, for a log, a    *)
(* backlog, a queue and a window of any length.  A feed shows the log      *)
(* because its queue always holds the newest events and its backlog those  *)
(* after the last that was sent; a row is told of because a handler waits  *)
(* with its next step until the event of the last one is in the log.       *)
(***************************************************************************)
EXTENDS Federation, Efficiency, FiniteSetTheorems, SequenceTheorems, TLAPS

\* The statuses, files and handles that the steps of the companies keep in step.
RowsMatch ==
    /\ \A c \in Company : disk[c] = "data" => row[c] # "none" /\ c \in born
    /\ \A c \in Company : row[c] = "active" => disk[c] = "data"
    /\ up => \A c \in Company : row[c] = "active" => c \in handles /\ c \in live
    /\ handles \subseteq born

\* A request that is at work has a company, and one that has removed the files
\* of its company finds none of them again.
ScrubbedIsEmpty ==
    \A r \in Request :
        /\ job[r].at \in {"draining", "stopping", "scrubbed"} => job[r].company \in born
        /\ job[r].at = "scrubbed" => disk[job[r].company] # "data"

LifeInv == CompaniesTypeOK /\ RowsMatch /\ ScrubbedIsEmpty

-----------------------------------------------------------------------------
(* Steps. *)

\* Links and messages leave the companies alone.
LEMMA LinkSteps ==
  ASSUME NEW l \in Link, LinkRoute(l) \/ HourPasses(l)
  PROVE  UNCHANGED companyVars
<1>1. ASSUME NEW from, NEW to, SetStatus(l, from, to) PROVE UNCHANGED companyVars
  BY <1>1, Zenon DEF SetStatus
<1>2. CASE LinkRoute(l)
  BY <1>1, <1>2, Zenon DEF LinkRoute, Decide, Revoke, Suspend, Resume
<1>3. CASE HourPasses(l)
  BY <1>3, Zenon DEF HourPasses
<1> QED BY <1>2, <1>3

\* A step of the federation is one of the companies, the end of a request, or
\* leaves the companies alone.
LEMMA FederationSteps ==
  ASSUME [Next]_vars
  PROVE  \/ CompanyStep
         \/ \E r \in Request : RevokeForCompany(r)
         \/ UNCHANGED companyVars
<1>1. ASSUME NEW l \in Link, NEW a \in Company, NEW b \in Company, RequestRoute(l, a, b)
      PROVE  UNCHANGED companyVars
  BY <1>1, Zenon DEF RequestRoute, RequestLink
<1>2. ASSUME NEW c \in Company, NEW m \in Message, NEW l \in Link, InterCompanySend(c, m, l)
      PROVE  UNCHANGED companyVars
  BY <1>2, Zenon DEF InterCompanySend
<1>3. ASSUME NEW m \in Message, DeliverPending(m) \/ ReadMessage(m)
      PROVE  UNCHANGED companyVars
  BY <1>3, Zenon DEF DeliverPending, ReadMessage
<1>4. ASSUME NEW c \in Company, PauseOrResume(c) PROVE UNCHANGED companyVars
  BY <1>4, Zenon DEF PauseOrResume
<1>5. CASE UNCHANGED vars
  BY <1>5, Zenon DEF vars
<1> QED
  BY <1>1, <1>2, <1>3, <1>4, <1>5, LinkSteps, Zenon DEF Next

LEMMA LifeInit == Init => LifeInv
  BY DEF Init, CompaniesInit, LifeInv, CompaniesTypeOK, RowsMatch, ScrubbedIsEmpty, Idle, Stages

-----------------------------------------------------------------------------
(* Each step keeps the invariant. *)

LEMMA CreateKeeps ==
  ASSUME LifeInv, NEW c \in Company,
         CreateCompany(c) \/ CrashInCreate(c) \/ EfficiencyTick(c)
  PROVE  LifeInv'
<1> USE DEF LifeInv, CompaniesTypeOK, RowsMatch, ScrubbedIsEmpty
<1>1. CASE Create(c)
  BY <1>1 DEF Create, Build
<1>2. CASE CreateFails(c)
  BY <1>2 DEF CreateFails, Build
<1>3. CASE CrashInCreate(c)
  BY <1>3 DEF CrashInCreate, Die, Idle, Stages
<1>4. CASE EfficiencyTick(c)
  BY <1>4 DEF EfficiencyTick
<1> QED BY <1>1, <1>2, <1>3, <1>4 DEF CreateCompany

LEMMA BeginKeeps ==
  ASSUME LifeInv, NEW r \in Request, NEW c \in Company,
         CloseCompany(r, c) \/ DeleteCompany(r, c)
  PROVE  LifeInv'
<1> USE DEF LifeInv, CompaniesTypeOK, RowsMatch, ScrubbedIsEmpty
<1>1. CASE BeginClose(r, c)
  BY <1>1 DEF BeginClose, Mark, Stages
<1>2. CASE PurgeOrphan(r, c)
  BY <1>2 DEF PurgeOrphan, LoopFree, Stages
<1> QED BY <1>1, <1>2 DEF CloseCompany, DeleteCompany

LEMMA CloseKeeps ==
  ASSUME LifeInv, NEW r \in Request,
         EndDrain(r) \/ FinishClose(r) \/ CloseFails(r) \/ DeleteRow(r) \/ RevokeForCompany(r)
  PROVE  LifeInv'
<1> USE DEF LifeInv, CompaniesTypeOK, RowsMatch, ScrubbedIsEmpty
<1>1. CASE EndDrain(r)
  BY <1>1 DEF EndDrain, Stages
<1>2. CASE FinishClose(r)
  BY <1>2 DEF FinishClose, Mark, Stages
<1>3. CASE CloseFails(r)
  BY <1>3 DEF CloseFails, Mark, Idle, Stages
<1>4. CASE DeleteRow(r)
  BY <1>4 DEF DeleteRow, Stages
<1>5. CASE RevokeForCompany(r)
  BY <1>5 DEF RevokeForCompany, Idle, Stages
<1> QED BY <1>1, <1>2, <1>3, <1>4, <1>5

LEMMA ProcessKeeps ==
  ASSUME LifeInv, Crash \/ Startup
  PROVE  LifeInv'
<1> USE DEF LifeInv, CompaniesTypeOK, RowsMatch, ScrubbedIsEmpty
<1>1. CASE Crash
  BY <1>1 DEF Crash, Die, Idle, Stages
<1>2. CASE Startup
  BY <1>2 DEF Startup, Build
<1> QED BY <1>1, <1>2

-----------------------------------------------------------------------------

\* What the rows of the companies table, the directories, the handles and the
\* requests that close companies keep in step, whatever two requests do to the
\* same company and wherever the process dies.
THEOREM Life == Spec => []LifeInv
<1>1. LifeInv /\ [Next]_vars => LifeInv'
  <2> SUFFICES ASSUME LifeInv, [Next]_vars PROVE LifeInv'
    OBVIOUS
  <2>1. CASE CompanyStep
    BY <2>1, CreateKeeps, BeginKeeps, CloseKeeps, ProcessKeeps, Zenon DEF CompanyStep
  <2>2. CASE \E r \in Request : RevokeForCompany(r)
    BY <2>2, CloseKeeps, Zenon
  <2>3. CASE UNCHANGED companyVars
    BY <2>3 DEF companyVars, LifeInv, CompaniesTypeOK, RowsMatch, ScrubbedIsEmpty
  <2> QED BY <2>1, <2>2, <2>3, FederationSteps
<1> QED BY <1>1, LifeInit, PTL DEF Spec

\* No data on disk is without a row (factory.py, purge_company and
\* purge_orphan: the files go first and the row after them).
THEOREM OrphanData == Spec => []NoOrphanData
<1>1. LifeInv => NoOrphanData
  BY DEF LifeInv, RowsMatch, NoOrphanData
<1> QED BY <1>1, Life, PTL

\* A company that is listed as ACTIVE while the server is up has its handle, its
\* running agents and its data (factory.py, restart_all_active).
THEOREM Attached == Spec => []ActiveIsAttached
<1>1. LifeInv => ActiveIsAttached
  BY DEF LifeInv, RowsMatch, ActiveIsAttached
<1> QED BY <1>1, Life, PTL

-----------------------------------------------------------------------------
(* The outbox. *)

\* The tables of the messages.
MailTypes ==
    /\ outbox \in [Message -> {"none", "queued", "delivered", "rejected"}]
    /\ inbox \in [Message -> {"none", "waiting", "read"}]
    /\ reads \in [Message -> Nat]

\* What an inbox ever held was delivered, and a message that was read is not
\* waiting any more: a row is flushed once, and only what waits is lost.
MailInv ==
    /\ MailTypes
    /\ \A m \in Message :
          /\ inbox[m] # "none" => outbox[m] = "delivered"
          /\ reads[m] = 0 \/ (reads[m] = 1 /\ outbox[m] = "delivered" /\ inbox[m] = "read")

\* Links, and the steps of the companies, do not touch the messages, but for
\* what Forget says.
LEMMA MailUntouched ==
  /\ \A l \in Link, a, b \in Company : RequestRoute(l, a, b) => UNCHANGED <<outbox, inbox, reads>>
  /\ \A l \in Link : LinkRoute(l) \/ HourPasses(l) => UNCHANGED <<outbox, inbox, reads>>
  /\ \A r \in Request : RevokeForCompany(r) => UNCHANGED <<outbox, inbox, reads>>
  /\ \A c \in Company : PauseOrResume(c) => UNCHANGED <<outbox, inbox, reads>>
<1>1. ASSUME NEW l, NEW from, NEW to, SetStatus(l, from, to)
      PROVE  UNCHANGED <<outbox, inbox, reads>>
  BY <1>1, Zenon DEF SetStatus, crossVars
<1>2. \A l \in Link, a, b \in Company : RequestRoute(l, a, b) => UNCHANGED <<outbox, inbox, reads>>
  BY Zenon DEF RequestRoute, RequestLink, crossVars
<1>3. \A l \in Link : LinkRoute(l) \/ HourPasses(l) => UNCHANGED <<outbox, inbox, reads>>
  BY <1>1, Zenon DEF LinkRoute, Decide, Revoke, Suspend, Resume, HourPasses
<1>4. \A r \in Request : RevokeForCompany(r) => UNCHANGED <<outbox, inbox, reads>>
  BY Zenon DEF RevokeForCompany, crossVars
<1>5. \A c \in Company : PauseOrResume(c) => UNCHANGED <<outbox, inbox, reads>>
  BY Zenon DEF PauseOrResume
<1> QED BY <1>2, <1>3, <1>4, <1>5, Zenon

\* A message that is sent gets its row, and is in the inbox if it says so.
LEMMA SendKeepsMail ==
  ASSUME MailInv, NEW c \in Company, NEW m \in Message, NEW l \in Link, InterCompanySend(c, m, l)
  PROVE  MailInv'
<1> DEFINE target == link[l].to
<1>1. outbox[m] = "none" /\ reads' = reads
  BY DEF InterCompanySend, SendCross
<1>2. \/ UNCHANGED <<outbox, inbox>>
      \/ /\ outbox' = [outbox EXCEPT ![m] = MapResult(target)]
         /\ inbox' = [inbox EXCEPT ![m] = IF Accepts(target) THEN "waiting" ELSE @]
  BY Zenon DEF InterCompanySend, SendCross, RecordAndEmit
<1> HIDE DEF target
<1>3. CASE UNCHANGED <<outbox, inbox>>
  BY <1>1, <1>3 DEF MailInv, MailTypes
<1>4. CASE /\ outbox' = [outbox EXCEPT ![m] = MapResult(target)]
           /\ inbox' = [inbox EXCEPT ![m] = IF Accepts(target) THEN "waiting" ELSE @]
  <2>1. inbox[m] = "none" /\ reads[m] = 0
    BY <1>1 DEF MailInv
  <2>2. CASE Accepts(target)
    <3>1. outbox' = [outbox EXCEPT ![m] = "delivered"] /\ inbox' = [inbox EXCEPT ![m] = "waiting"]
      BY <1>4, <2>2 DEF MapResult
    <3> QED BY <1>1, <2>1, <3>1 DEF MailInv, MailTypes
  <2>3. CASE ~ Accepts(target)
    <3>1. outbox' = [outbox EXCEPT ![m] = "queued"] /\ inbox' = [inbox EXCEPT ![m] = inbox[m]]
      BY <1>4, <2>3 DEF MapResult
    <3> QED BY <1>1, <2>1, <3>1 DEF MailInv, MailTypes
  <2> QED BY <2>2, <2>3
<1> QED BY <1>2, <1>3, <1>4

\* Flushing the outbox and reading the inbox.
LEMMA DeliverKeepsMail ==
  ASSUME MailInv, NEW m \in Message, DeliverPending(m) \/ ReadMessage(m)
  PROVE  MailInv'
<1>1. CASE DeliverPending(m)
  <2>1. outbox[m] = "queued" /\ reads' = reads
    BY <1>1 DEF DeliverPending
  <2>2. \/ outbox' = [outbox EXCEPT ![m] = "rejected"] /\ inbox' = inbox
        \/ outbox' = [outbox EXCEPT ![m] = "delivered"] /\ inbox' = [inbox EXCEPT ![m] = "waiting"]
    BY <1>1, Zenon DEF DeliverPending, UpdateStatus
  <2>3. inbox[m] = "none" /\ reads[m] = 0
    BY <2>1 DEF MailInv
  <2> QED BY <2>1, <2>2, <2>3 DEF MailInv, MailTypes
<1>2. CASE ReadMessage(m)
  <2>1. /\ inbox[m] = "waiting" /\ outbox' = outbox
        /\ inbox' = [inbox EXCEPT ![m] = "read"]
        /\ reads' = [reads EXCEPT ![m] = @ + 1]
    BY <1>2 DEF ReadMessage
  <2>2. reads[m] = 0 /\ outbox[m] = "delivered"
    BY <2>1 DEF MailInv
  <2> QED BY <2>1, <2>2 DEF MailInv, MailTypes
<1> QED BY <1>1, <1>2

\* A company that stops takes what waits in its memory with it.
LEMMA ForgetKeepsMail ==
  ASSUME MailInv, Forget
  PROVE  MailInv'
<1>1. /\ UNCHANGED <<outbox, reads>>
      /\ inbox' = [m \in Message |-> IF inbox[m] = "waiting" /\ link[over[m]].to \notin live'
                                     THEN "none" ELSE inbox[m]]
  BY DEF Forget
<1>2. inbox' \in [Message -> {"none", "waiting", "read"}]
  BY <1>1 DEF MailInv, MailTypes
<1> QED BY <1>1, <1>2 DEF MailInv, MailTypes

\* The outbox tells what happened, over any number of companies, links and
\* messages and however often the process dies and the queue is flushed: what
\* an inbox held is DELIVERED in the outbox, and no message is read twice
\* (inter_company/service.py, send_cross and deliver_pending).
THEOREM Outbox == Spec => []OutboxTruthful
<1>1. Init => MailInv
  BY DEF Init, MailInv, MailTypes
<1>2. MailInv /\ [Next]_vars => MailInv'
  <2> SUFFICES ASSUME MailInv, [Next]_vars PROVE MailInv'
    OBVIOUS
  <2>1. UNCHANGED <<outbox, inbox, reads>> => MailInv'
    BY DEF MailInv, MailTypes
  <2>2. UNCHANGED vars => UNCHANGED <<outbox, inbox, reads>>
    BY DEF vars, crossVars
  <2> QED
    BY <2>1, <2>2, SendKeepsMail, DeliverKeepsMail, ForgetKeepsMail,
       MailUntouched, Zenon DEF Next
<1>3. MailInv => OutboxTruthful
  BY DEF MailInv, OutboxTruthful
<1> QED BY <1>1, <1>2, <1>3, PTL DEF Spec

-----------------------------------------------------------------------------
(* The event log of a company, and its readers. *)

\* An event of the company, or one that tells of a row.
Signal == [kind : UNION {Signals(d) : d \in Detectors}, about : Key]
News == [kind : {"opened", "closed"}, about : Nat]
Row == [key : Key, status : {"open", "acknowledged", "closed"}]

-----------------------------------------------------------------------------
(* The live feed. *)

FeedTypes ==
    /\ conn \in {"off", "opening", "streaming"}
    /\ log \in Seq(Signal \cup News)
    /\ backlog \in Seq(Nat) /\ queue \in Seq(Nat) /\ shown \in Seq(Nat)
    /\ lastId \in Nat

\* The queue of a connection holds the newest events, the backlog the ones after
\* the last that was sent.
Supply ==
    /\ conn = "off" => queue = <<>>
    /\ conn # "streaming" => backlog = <<>>
    /\ conn # "off" => lastId = LastShown
    /\ Len(queue) <= Len(log)
    /\ Len(queue) <= QueueBuffer
    /\ \A i \in 1 .. Len(queue) : queue[i] = Len(log) - Len(queue) + i
    /\ lastId + Len(backlog) <= Len(log)
    /\ \A i \in 1 .. Len(backlog) : backlog[i] = lastId + i

\* What was not sent yet will be, or was lost to a limit.
Promised ==
    conn = "streaming" =>
        \A id \in 1 .. Len(log) :
            id > lastId => id \in Range(backlog) \cup Range(queue) \cup dropped \cup cut

\* What was shown is in order, and no later than the last.
ShownRight ==
    /\ \A i, j \in 1 .. Len(shown) : i < j => shown[i] < shown[j]
    /\ \A i \in 1 .. Len(shown) : shown[i] <= LastShown
    /\ LastShown <= Len(log)
    /\ NoSilentGap

FeedInv == FeedTypes /\ Supply /\ Promised /\ ShownRight

\* The elements of a sequence after a step.
LEMMA RangeOfAppend ==
  ASSUME NEW S, NEW s \in Seq(S), NEW e \in S
  PROVE  Range(Append(s, e)) = Range(s) \cup {e}
<1>1. DOMAIN Append(s, e) = DOMAIN s \cup {Len(s) + 1}
  OBVIOUS
<1>2. \A i \in DOMAIN s : Append(s, e)[i] = s[i]
  OBVIOUS
<1>3. Append(s, e)[Len(s) + 1] = e
  OBVIOUS
<1> QED BY <1>1, <1>2, <1>3, Zenon DEF Range

LEMMA RangeOfTail ==
  ASSUME NEW S, NEW s \in Seq(S), s # <<>>
  PROVE  /\ Range(s) = Range(Tail(s)) \cup {Head(s)}
         /\ Tail(s) \in Seq(S) /\ Len(Tail(s)) = Len(s) - 1
         /\ \A i \in 1 .. Len(Tail(s)) : Tail(s)[i] = s[i + 1]
         /\ Head(s) = s[1] /\ Len(s) \in Nat \ {0}
<1>1. /\ Tail(s) \in Seq(S) /\ Len(Tail(s)) = Len(s) - 1 /\ Len(s) \in Nat \ {0}
      /\ \A i \in 1 .. Len(Tail(s)) : Tail(s)[i] = s[i + 1]
      /\ Head(s) = s[1]
  OBVIOUS
<1>2. DOMAIN s = 1 .. Len(s) /\ DOMAIN Tail(s) = 1 .. Len(Tail(s))
  BY <1>1
<1>3. \A i \in 1 .. Len(s) : i = 1 \/ (i - 1 \in 1 .. Len(Tail(s)) /\ Tail(s)[i - 1] = s[i])
  BY <1>1
<1>4. \A i \in 1 .. Len(Tail(s)) : i + 1 \in 1 .. Len(s)
  BY <1>1
<1>5. 1 \in 1 .. Len(s)
  BY <1>1
<1>6. Range(Tail(s)) \cup {Head(s)} \subseteq Range(s)
  BY <1>1, <1>2, <1>4, <1>5 DEF Range
<1>7. Range(s) \subseteq Range(Tail(s)) \cup {Head(s)}
  <2> SUFFICES ASSUME NEW i \in 1 .. Len(s) PROVE s[i] \in Range(Tail(s)) \cup {Head(s)}
    BY <1>2, Zenon DEF Range
  <2>1. CASE i = 1
    BY <1>1, <2>1
  <2>2. CASE i # 1
    <3>1. i - 1 \in DOMAIN Tail(s) /\ Tail(s)[i - 1] = s[i]
      BY <1>2, <1>3, <2>2
    <3> QED BY <3>1, Zenon DEF Range
  <2> QED BY <2>1, <2>2
<1> QED BY <1>1, <1>6, <1>7

\* _safe_put leaves the newest events in the queue, in order.
LEMMA PutTyped ==
  ASSUME NEW q \in Seq(Nat), NEW n \in Nat, Len(q) <= n, Len(q) <= QueueBuffer,
         \A i \in 1 .. Len(q) : q[i] = n - Len(q) + i
  PROVE  /\ SafePut(q, n + 1) \in Seq(Nat)
         /\ Len(SafePut(q, n + 1)) \in 1 .. n + 1
         /\ Len(SafePut(q, n + 1)) <= QueueBuffer
         /\ \A i \in 1 .. Len(SafePut(q, n + 1)) :
                SafePut(q, n + 1)[i] = n + 1 - Len(SafePut(q, n + 1)) + i
<1>1. CASE Len(q) < QueueBuffer
  BY <1>1, FeedConstants DEF SafePut
<1>2. CASE ~(Len(q) < QueueBuffer)
  <2>1. QueueBuffer \in Nat \ {0} /\ Len(q) = QueueBuffer /\ q # <<>>
    BY <1>2, FeedConstants
  <2>2. /\ Tail(q) \in Seq(Nat) /\ Len(Tail(q)) = Len(q) - 1
        /\ \A i \in 1 .. Len(Tail(q)) : Tail(q)[i] = q[i + 1]
    BY <2>1, RangeOfTail
  <2>3. SafePut(q, n + 1) = Append(Tail(q), n + 1)
    BY <1>2 DEF SafePut
  <2>4. Len(Tail(q)) \in Nat
    BY <2>1, <2>2
  <2>5. /\ Append(Tail(q), n + 1) \in Seq(Nat)
        /\ Len(Append(Tail(q), n + 1)) = Len(q)
        /\ \A i \in 1 .. Len(q) :
               Append(Tail(q), n + 1)[i] = IF i <= Len(q) - 1 THEN q[i + 1] ELSE n + 1
    BY <2>1, <2>2, <2>4
  <2>6. \A i \in 1 .. Len(q) : Append(Tail(q), n + 1)[i] = n + 1 - Len(q) + i
    BY <2>1, <2>5
  <2> HIDE DEF SafePut
  <2>7. \A i : i \in 1 .. QueueBuffer => QueueBuffer <= n
    BY <2>1
  <2>8. QueueBuffer \in 1 .. n + 1
    BY <2>1
  <2> QED BY <2>1, <2>3, <2>5, <2>6, <2>8, Zenon
<1> QED BY <1>1, <1>2

LEMMA FeedStart == FeedInit => FeedInv
<1> SUFFICES ASSUME FeedInit PROVE FeedInv
  OBVIOUS
<1> USE DEF FeedInit
<1>1. FeedTypes
  BY DEF FeedTypes
<1>2. Supply
  BY FeedConstants DEF Supply
<1>3. Promised
  BY DEF Promised
<1>4. ShownRight
  BY DEF ShownRight, NoSilentGap, LastShown
<1> QED BY <1>1, <1>2, <1>3, <1>4 DEF FeedInv

LEMMA StoreKeeps ==
  ASSUME FeedInv, NEW event \in Signal \cup News, StoreEvent(event)
  PROVE  FeedInv'
<1> USE DEF FeedInv
<1>1. PICK n : n = Len(log)
  OBVIOUS
<1>2. /\ n \in Nat
      /\ log' \in Seq(Signal \cup News) /\ Len(log') = n + 1
  BY <1>1 DEF FeedTypes, StoreEvent
<1>3. /\ UNCHANGED <<conn, backlog, lastId, shown, cut>>
      /\ queue' = Broadcast(n + 1)
      /\ dropped' = dropped \cup ((Range(queue) \cup (IF conn = "off" THEN {} ELSE {n + 1}))
                                       \ Range(queue'))
  BY <1>1 DEF StoreEvent
<1>4. LastShown' = LastShown
  BY <1>3 DEF LastShown
<1>5. /\ queue \in Seq(Nat) /\ Len(queue) \in Nat /\ Len(queue) <= n /\ Len(queue) <= QueueBuffer
      /\ \A i \in 1 .. Len(queue) : queue[i] = n - Len(queue) + i
  BY <1>1 DEF FeedTypes, Supply
<1>6. CASE conn = "off"
  <2>1. queue' = queue /\ queue = <<>> /\ dropped \subseteq dropped'
    BY <1>3, <1>6 DEF Broadcast, Supply
  <2>2. FeedTypes'
    BY <1>2, <1>3, <2>1 DEF FeedTypes
  <2>3. Supply'
    BY <1>1, <1>2, <1>3, <1>4, <1>6, <2>1, FeedConstants DEF Supply, FeedTypes
  <2>4. Promised'
    BY <1>3, <1>6 DEF Promised
  <2>5. NoSilentGap'
    BY <1>3, <1>4, <2>1 DEF ShownRight, NoSilentGap
  <2>6. ShownRight'
    BY <1>1, <1>2, <1>3, <1>4, <2>5 DEF ShownRight, LastShown, FeedTypes
  <2> QED BY <2>2, <2>3, <2>4, <2>6
<1>7. CASE conn # "off"
  <2>1. queue' = SafePut(queue, n + 1)
    BY <1>3, <1>7 DEF Broadcast
  <2>2. /\ queue' \in Seq(Nat) /\ Len(queue') \in 1 .. n + 1 /\ Len(queue') <= QueueBuffer
        /\ \A i \in 1 .. Len(queue') : queue'[i] = n + 1 - Len(queue') + i
    BY <1>2, <1>5, <2>1, PutTyped
  <2>3. /\ dropped \subseteq dropped'
        /\ Range(queue) \cup {n + 1} \subseteq Range(queue') \cup dropped'
    BY <1>3, <1>7
  <2>4. FeedTypes'
    BY <1>2, <1>3, <2>2 DEF FeedTypes
  <2>5. Supply'
    BY <1>1, <1>2, <1>3, <1>4, <1>7, <2>2, FeedConstants DEF Supply, FeedTypes
  <2>6. Promised'
    <3> SUFFICES ASSUME conn = "streaming", NEW id \in 1 .. n + 1, id > lastId
                 PROVE  id \in Range(backlog) \cup Range(queue') \cup dropped' \cup cut
      BY <1>2, <1>3 DEF Promised
    <3>1. CASE id = n + 1
      BY <2>3, <3>1
    <3>2. CASE id \in 1 .. n
      BY <1>1, <2>3, <3>2 DEF Promised
    <3> QED BY <1>2, <3>1, <3>2
  <2>7. NoSilentGap'
    BY <1>3, <1>4, <2>3 DEF ShownRight, NoSilentGap
  <2>8. ShownRight'
    BY <1>1, <1>2, <1>3, <1>4, <2>7 DEF ShownRight, LastShown, FeedTypes
  <2> QED BY <2>4, <2>5, <2>6, <2>8
<1> QED BY <1>6, <1>7

LEMMA HangupKeeps ==
  ASSUME FeedInv, Hangup, UNCHANGED log
  PROVE  FeedInv'
<1> USE DEF FeedInv
<1>1. /\ conn' = "off" /\ backlog' = <<>> /\ queue' = <<>>
      /\ UNCHANGED <<log, lastId, shown, dropped, cut>>
  BY DEF Hangup
<1>2. LastShown' = LastShown
  BY <1>1 DEF LastShown
<1>3. FeedTypes'
  BY <1>1 DEF FeedTypes
<1>4. Supply'
  BY <1>1, <1>2, FeedConstants DEF Supply, FeedTypes
<1>5. Promised'
  BY <1>1 DEF Promised
<1>6. ShownRight'
  BY <1>1, <1>2 DEF ShownRight, NoSilentGap
<1> QED BY <1>3, <1>4, <1>5, <1>6

LEMMA ConnectKeeps ==
  ASSUME FeedInv, Connect
  PROVE  FeedInv'
<1> USE DEF FeedInv
<1>1. /\ conn = "off" /\ conn' = "opening" /\ lastId' = LastShown
      /\ UNCHANGED <<log, backlog, queue, shown, dropped, cut>>
  BY DEF Connect, OpenStream, Subscribe
<1>2. LastShown' = LastShown /\ LastShown \in Nat
  BY <1>1 DEF LastShown, FeedTypes
<1>3. FeedTypes'
  BY <1>1, <1>2 DEF FeedTypes
<1>4. Supply'
  BY <1>1, <1>2, FeedConstants DEF Supply, FeedTypes, ShownRight
<1>5. Promised'
  BY <1>1 DEF Promised
<1>6. ShownRight'
  BY <1>1, <1>2 DEF ShownRight, NoSilentGap
<1> QED BY <1>3, <1>4, <1>5, <1>6

\* What a read of the log returns.
LEMMA ReadTyped ==
  ASSUME log \in Seq(Signal \cup News), NEW since \in Nat, since <= Len(log), NEW limit \in Nat
  PROVE  \E n \in Nat :
             /\ n <= limit /\ since + n <= Len(log)
             /\ n = limit \/ since + n = Len(log)
             /\ Read(since, limit) = [i \in 1 .. n |-> since + i]
             /\ Read(since, limit) \in Seq(Nat) /\ Len(Read(since, limit)) = n
<1>1. PICK m \in Nat : m = Len(log) - since
  OBVIOUS
<1>2. PICK n \in Nat : n = IF limit <= m THEN limit ELSE m
  OBVIOUS
<1>3. Min({limit, Len(log) - since}) = n
  <2>1. n \in {limit, m} /\ \A y \in {limit, m} : n <= y
    BY <1>2
  <2>2. \A x \in {limit, m} : (\A y \in {limit, m} : x <= y) => x = n
    BY <1>2
  <2> QED BY <1>1, <2>1, <2>2, Zenon DEF Min
<1>4. Read(since, limit) = [i \in 1 .. n |-> since + i]
  BY <1>3 DEF Read
<1>5. PICK r : r = [i \in 1 .. n |-> since + i]
  OBVIOUS
<1>6. r \in Seq(Nat) /\ Len(r) = n
  BY <1>5
<1>7. n <= limit /\ since + n <= Len(log) /\ (n = limit \/ since + n = Len(log))
  BY <1>1, <1>2
<1> QED BY <1>4, <1>5, <1>6, <1>7, Zenon

LEMMA ReadKeeps ==
  ASSUME FeedInv, ReadBacklog
  PROVE  FeedInv'
<1> USE DEF FeedInv
<1>1. /\ conn = "opening" /\ conn' = "streaming"
      /\ backlog' = Read(lastId, BacklogLimit)
      /\ cut' = cut \cup ({id \in Ids : id > lastId + BacklogLimit} \ Range(queue))
      /\ UNCHANGED <<log, queue, lastId, shown, dropped>>
  BY DEF ReadBacklog
<1>2. /\ lastId = LastShown /\ lastId <= Len(log) /\ lastId \in Nat /\ BacklogLimit \in Nat
      /\ Len(log) \in Nat
  BY <1>1, FeedConstants DEF Supply, ShownRight, FeedTypes
<1>3. PICK n \in Nat :
             /\ n <= BacklogLimit /\ lastId + n <= Len(log)
             /\ n = BacklogLimit \/ lastId + n = Len(log)
             /\ backlog' = [i \in 1 .. n |-> lastId + i]
             /\ backlog' \in Seq(Nat) /\ Len(backlog') = n
  <2>1. log \in Seq(Signal \cup News)
    BY DEF FeedTypes
  <2>2. \E n \in Nat :
             /\ n <= BacklogLimit /\ lastId + n <= Len(log)
             /\ n = BacklogLimit \/ lastId + n = Len(log)
             /\ Read(lastId, BacklogLimit) = [i \in 1 .. n |-> lastId + i]
             /\ Read(lastId, BacklogLimit) \in Seq(Nat) /\ Len(Read(lastId, BacklogLimit)) = n
    BY <1>2, <2>1, ReadTyped
  <2> QED BY <1>1, <2>2
<1>4. LastShown' = LastShown
  BY <1>1 DEF LastShown
<1>5. FeedTypes'
  BY <1>1, <1>3 DEF FeedTypes
<1>6. Supply'
  BY <1>1, <1>2, <1>3, <1>4, FeedConstants DEF Supply, FeedTypes
<1>7. Promised'
  <2> SUFFICES ASSUME NEW id \in 1 .. Len(log), id > lastId
               PROVE  id \in Range(backlog') \cup Range(queue) \cup dropped \cup cut'
    BY <1>1 DEF Promised
  <2>1. CASE id <= lastId + n
    <3>1. id - lastId \in 1 .. n /\ lastId + (id - lastId) = id
      BY <1>2, <2>1
    <3>2. id - lastId \in DOMAIN backlog' /\ backlog'[id - lastId] = id
      BY <1>3, <3>1
    <3> QED BY <3>2, Zenon DEF Range
  <2>2. CASE ~(id <= lastId + n)
    <3>1. id \in Ids /\ id > lastId + BacklogLimit
      BY <1>2, <1>3, <2>2 DEF Ids
    <3> QED BY <1>1, <3>1
  <2> QED BY <2>1, <2>2
<1>8. ShownRight'
  BY <1>1, <1>4 DEF ShownRight, NoSilentGap
<1> QED BY <1>5, <1>6, <1>7, <1>8

\* A frame later than all that were shown.
LEMMA ShowKeeps ==
  ASSUME FeedInv, NEW id \in Nat, id > LastShown, id <= Len(log),
         shown' = Append(shown, id), UNCHANGED <<log, dropped, cut>>,
         \A k \in 1 .. Len(log) : k > LastShown /\ k < id => k \in dropped \cup cut
  PROVE  ShownRight' /\ LastShown' = id /\ shown' \in Seq(Nat)
<1>1. /\ shown \in Seq(Nat) /\ Len(shown) \in Nat /\ LastShown \in Nat
      /\ log \in Seq(Signal \cup News) /\ Len(log) \in Nat
  BY DEF FeedInv, FeedTypes, LastShown
<1>2. /\ shown' \in Seq(Nat) /\ Len(shown') = Len(shown) + 1
      /\ \A i \in 1 .. Len(shown) : shown'[i] = shown[i]
      /\ shown'[Len(shown) + 1] = id
  BY <1>1
<1>3. LastShown' = id
  BY <1>1, <1>2 DEF LastShown
<1>4. \A i \in 1 .. Len(shown) : shown[i] <= LastShown /\ shown[i] \in Nat
  BY <1>1 DEF FeedInv, ShownRight
<1>5. \A i, j \in 1 .. Len(shown') : i < j => shown'[i] < shown'[j]
  BY <1>1, <1>2, <1>4 DEF FeedInv, ShownRight
<1>6. \A i \in 1 .. Len(shown') : shown'[i] <= id
  BY <1>1, <1>2, <1>4
<1>7. Range(shown') = Range(shown) \cup {id}
  BY <1>1, RangeOfAppend
<1>8. NoSilentGap'
  <2> SUFFICES ASSUME NEW k \in 1 .. id PROVE k \in Range(shown') \cup dropped \cup cut
    BY <1>3 DEF NoSilentGap
  <2>1. CASE k \in 1 .. LastShown
    BY <1>7, <2>1 DEF FeedInv, ShownRight, NoSilentGap
  <2>2. CASE k > LastShown /\ k < id
    BY <1>1, <2>2
  <2>3. CASE k = id
    BY <1>7, <2>3
  <2> QED BY <1>1, <2>1, <2>2, <2>3
<1> QED BY <1>1, <1>2, <1>3, <1>5, <1>6, <1>8 DEF ShownRight

LEMMA SendBacklogKeeps ==
  ASSUME FeedInv, SendBacklog
  PROVE  FeedInv'
<1> USE DEF FeedInv
<1>1. /\ conn = "streaming" /\ backlog # <<>>
      /\ shown' = Append(shown, Head(backlog))
      /\ lastId' = Max({lastId, Head(backlog)})
      /\ backlog' = Tail(backlog)
      /\ UNCHANGED <<log, conn, queue, dropped, cut>>
  BY DEF SendBacklog
<1>2. /\ backlog \in Seq(Nat) /\ lastId \in Nat /\ lastId = LastShown
      /\ Len(log) \in Nat /\ lastId + Len(backlog) <= Len(log)
      /\ \A i \in 1 .. Len(backlog) : backlog[i] = lastId + i
  BY <1>1 DEF FeedTypes, Supply
<1>3. /\ Range(backlog) = Range(backlog') \cup {Head(backlog)}
      /\ backlog' \in Seq(Nat) /\ Len(backlog') = Len(backlog) - 1
      /\ \A i \in 1 .. Len(backlog') : backlog'[i] = backlog[i + 1]
      /\ Head(backlog) = backlog[1] /\ Len(backlog) \in Nat \ {0}
  BY <1>1, <1>2, RangeOfTail
<1>4. Head(backlog) = lastId + 1 /\ lastId + 1 <= Len(log)
  BY <1>2, <1>3
<1>5. lastId' = lastId + 1
  <2>1. lastId + 1 \in {lastId, lastId + 1} /\ \A y \in {lastId, lastId + 1} : lastId + 1 >= y
    BY <1>2
  <2>2. \A x \in {lastId, lastId + 1} :
            (\A y \in {lastId, lastId + 1} : x >= y) => x = lastId + 1
    BY <1>2
  <2> QED BY <1>1, <1>4, <2>1, <2>2, Zenon DEF Max
<1>6. ShownRight' /\ LastShown' = lastId + 1 /\ shown' \in Seq(Nat)
  <2>1. lastId + 1 \in Nat /\ lastId + 1 > LastShown
    BY <1>2
  <2>2. \A k \in 1 .. Len(log) : ~(k > LastShown /\ k < lastId + 1)
    BY <1>2
  <2>3. shown' = Append(shown, lastId + 1) /\ UNCHANGED <<log, dropped, cut>>
    BY <1>1, <1>4
  <2> QED BY <1>4, <2>1, <2>2, <2>3, ShowKeeps
<1>7. FeedTypes'
  BY <1>1, <1>2, <1>3, <1>5, <1>6 DEF FeedTypes
<1>8. Supply'
  <2>1. \A i \in 1 .. Len(backlog') : backlog'[i] = lastId' + i
    BY <1>2, <1>3, <1>5
  <2>2. lastId' + Len(backlog') <= Len(log)
    BY <1>2, <1>3, <1>5
  <2>3. lastId' = LastShown' /\ conn' = "streaming" /\ queue' = queue /\ log' = log
    BY <1>1, <1>5, <1>6
  <2> QED BY <1>1, <2>1, <2>2, <2>3 DEF Supply
<1>9. Promised'
  <2> SUFFICES ASSUME NEW id \in 1 .. Len(log), id > lastId + 1
               PROVE  id \in Range(backlog') \cup Range(queue) \cup dropped \cup cut
    BY <1>1, <1>5 DEF Promised
  <2>1. id > lastId /\ id # lastId + 1
    BY <1>2
  <2>2. id \in Range(backlog) \cup Range(queue) \cup dropped \cup cut
    BY <1>1, <2>1 DEF Promised
  <2> QED BY <1>3, <1>4, <2>1, <2>2
<1> QED BY <1>6, <1>7, <1>8, <1>9

LEMMA SendQueuedKeeps ==
  ASSUME FeedInv, SendQueued
  PROVE  FeedInv'
<1> USE DEF FeedInv
<1>1. /\ conn = "streaming" /\ backlog = <<>> /\ queue # <<>>
      /\ queue' = Tail(queue)
      /\ UNCHANGED <<log, conn, backlog, dropped, cut>>
  BY DEF SendQueued
<1>2. /\ queue \in Seq(Nat) /\ lastId \in Nat /\ lastId = LastShown /\ lastId <= Len(log)
      /\ Len(log) \in Nat /\ Len(queue) <= Len(log) /\ Len(queue) <= QueueBuffer
      /\ \A i \in 1 .. Len(queue) : queue[i] = Len(log) - Len(queue) + i
  BY <1>1 DEF FeedTypes, Supply, ShownRight
<1>3. /\ Range(queue) = Range(queue') \cup {Head(queue)}
      /\ queue' \in Seq(Nat) /\ Len(queue') = Len(queue) - 1
      /\ \A i \in 1 .. Len(queue') : queue'[i] = queue[i + 1]
      /\ Head(queue) = queue[1] /\ Len(queue) \in Nat \ {0}
  BY <1>1, <1>2, RangeOfTail
<1>4. PICK h \in Nat : h = Head(queue) /\ h = Len(log) - Len(queue) + 1 /\ h <= Len(log)
  <2>1. Head(queue) = Len(log) - Len(queue) + 1
    BY <1>2, <1>3
  <2> QED BY <1>2, <1>3, <2>1
<1>5. \A k \in Range(queue) : k >= h
  <2>1. \A i \in 1 .. Len(queue) : queue[i] >= h
    BY <1>2, <1>3, <1>4
  <2>2. DOMAIN queue = 1 .. Len(queue)
    BY <1>2
  <2> QED BY <2>1, <2>2, Zenon DEF Range
<1>6. Range(backlog) = {}
  BY <1>1 DEF Range
<1>7. CASE h > lastId
  <2>1. shown' = Append(shown, h) /\ lastId' = h
    BY <1>4, <1>7 DEF SendQueued
  <2>2. \A k \in 1 .. Len(log) : k > lastId /\ k < h => k \in dropped \cup cut
    BY <1>1, <1>4, <1>5, <1>6 DEF Promised
  <2>3. ShownRight' /\ LastShown' = h /\ shown' \in Seq(Nat)
    <3>1. h > LastShown /\ UNCHANGED <<log, dropped, cut>>
      BY <1>1, <1>2, <1>7
    <3>2. \A k \in 1 .. Len(log) : k > LastShown /\ k < h => k \in dropped \cup cut
      BY <1>2, <2>2
    <3> QED BY <1>4, <2>1, <3>1, <3>2, ShowKeeps
  <2>4. FeedTypes'
    BY <1>1, <1>3, <2>1, <2>3 DEF FeedTypes
  <2>5. Supply'
    BY <1>1, <1>2, <1>3, <1>4, <2>1, <2>3, FeedConstants DEF Supply, FeedTypes
  <2>6. Promised'
    <3> SUFFICES ASSUME NEW id \in 1 .. Len(log), id > h
                 PROVE  id \in Range(queue') \cup dropped \cup cut
      BY <1>1, <2>1 DEF Promised
    <3>1. id > lastId /\ id # h
      BY <1>2, <1>4, <1>7
    <3>2. id \in Range(queue) \cup dropped \cup cut
      BY <1>1, <1>6, <3>1 DEF Promised
    <3> QED BY <1>3, <1>4, <3>1, <3>2
  <2> QED BY <2>3, <2>4, <2>5, <2>6
<1>8. CASE ~(h > lastId)
  <2>1. UNCHANGED <<shown, lastId>>
    BY <1>4, <1>8 DEF SendQueued
  <2>2. LastShown' = LastShown
    BY <2>1 DEF LastShown
  <2>3. ShownRight'
    BY <1>1, <2>1, <2>2 DEF ShownRight, NoSilentGap
  <2>4. FeedTypes'
    BY <1>1, <1>3, <2>1 DEF FeedTypes
  <2>5. Supply'
    BY <1>1, <1>2, <1>3, <2>1, <2>2, FeedConstants DEF Supply, FeedTypes
  <2>6. Promised'
    <3> SUFFICES ASSUME NEW id \in 1 .. Len(log), id > lastId
                 PROVE  id \in Range(queue') \cup dropped \cup cut
      BY <1>1, <2>1 DEF Promised
    <3>1. id # h
      BY <1>2, <1>4, <1>8
    <3>2. id \in Range(queue) \cup dropped \cup cut
      BY <1>1, <1>6 DEF Promised
    <3> QED BY <1>3, <1>4, <3>1, <3>2
  <2> QED BY <2>3, <2>4, <2>5, <2>6
<1> QED BY <1>7, <1>8

-----------------------------------------------------------------------------
(* The findings and the events that tell of them. *)

FindingTypes ==
    /\ detector \in [Key -> Detectors]
    /\ finding \in Seq(Row)
    /\ due \subseteq Key
    /\ emit \in {Nothing} \cup News

\* One row of every subject at most is not closed.
OneUnclosed == \A k \in Key : \A f, g \in Unclosed(k) : f = g

LogSays(kind, f, i) == i \in 1 .. Len(log) /\ log[i] = Event(kind, f)
SaidOrLost(kind, f) ==
    (\E i : LogSays(kind, f, i)) \/ Event(kind, f) \in untold \/ emit = Event(kind, f)

\* The log tells of an opening once, and of a closing that is one; what a handler
\* has still to tell comes at the right time.
RowNews(f) ==
    /\ SaidOrLost("opened", f)
    /\ finding[f].status = "closed" => SaidOrLost("closed", f)
    /\ \A i, j : LogSays("opened", f, i) /\ LogSays("opened", f, j) => i = j
    /\ \A i, j : LogSays("opened", f, i) /\ LogSays("closed", f, j) => i < j
    /\ \A i : LogSays("closed", f, i) => finding[f].status = "closed"
    /\ emit = Event("closed", f) => finding[f].status = "closed"
    /\ emit = Event("opened", f) =>
           \A i : ~LogSays("opened", f, i) /\ ~LogSays("closed", f, i)

\* Nothing is told of rows that do not exist.
NewsRight ==
    /\ \A i \in 1 .. Len(log) : log[i] \in News => log[i].about \in DOMAIN finding
    /\ emit # Nothing => emit.about \in DOMAIN finding
    /\ \A f \in DOMAIN finding : RowNews(f)

WatchInv == FeedInv /\ FindingTypes /\ OneUnclosed /\ NewsRight

\* Events of rows are not signals, and none of them is Nothing.
LEMMA Apart ==
  /\ Signal \cap News = {}
  /\ \A kind \in {"opened", "closed"}, f \in Nat :
         /\ Event(kind, f) \in News /\ Event(kind, f) # Nothing
         /\ Event(kind, f).about = f /\ Event(kind, f).kind = kind
  /\ \A e \in News : e = Event(e.kind, e.about) /\ e.kind \in {"opened", "closed"} /\ e.about \in Nat
  /\ Nothing \notin News
<1>1. \A d \in Detectors : "opened" \notin Signals(d) /\ "closed" \notin Signals(d)
  BY DEF Signals, Detectors
<1>2. "opened" \notin UNION {Signals(d) : d \in Detectors}
      /\ "closed" \notin UNION {Signals(d) : d \in Detectors}
  BY <1>1
<1>3. \A e \in Signal : e.kind \in UNION {Signals(d) : d \in Detectors}
  BY DEF Signal
<1>4. \A e \in News : e.kind \in {"opened", "closed"} /\ e.about \in Nat
                      /\ e = [kind |-> e.kind, about |-> e.about]
  BY DEF News
<1>5. Signal \cap News = {}
  BY <1>2, <1>3, <1>4
<1>6. Nothing \notin News
  BY EfficiencyConstants DEF News
<1>7. \A kind \in {"opened", "closed"}, f \in Nat :
          /\ [kind |-> kind, about |-> f] \in News
          /\ [kind |-> kind, about |-> f].about = f /\ [kind |-> kind, about |-> f].kind = kind
  BY DEF News
<1> QED BY <1>4, <1>5, <1>6, <1>7 DEF Event

LEMMA SignalKinds ==
  ASSUME NEW e \in Signal
  PROVE  e.kind # "opened" /\ e.kind # "closed"
<1>1. \A d \in Detectors : "opened" \notin Signals(d) /\ "closed" \notin Signals(d)
  BY DEF Signals, Detectors
<1>2. e.kind \in UNION {Signals(d) : d \in Detectors}
  BY DEF Signal
<1> QED BY <1>1, <1>2

\* A step that touches neither the rows nor what is told of them.
LEMMA NewsUntouched ==
  ASSUME NewsRight, UNCHANGED <<log, finding, untold, emit>>
  PROVE  NewsRight'
  BY DEF NewsRight, RowNews, LogSays, SaidOrLost

\* A row of the log that tells of no finding.
LEMMA SignalKeeps ==
  ASSUME FindingTypes, NewsRight, log \in Seq(Signal \cup News),
         NEW e \in Signal, log' = Append(log, e), UNCHANGED <<finding, untold, emit>>
  PROVE  NewsRight'
<1>1. /\ Len(log') = Len(log) + 1 /\ Len(log) \in Nat
      /\ \A i \in 1 .. Len(log) : log'[i] = log[i]
      /\ log'[Len(log) + 1] = e
  OBVIOUS
<1>2. e \notin News
  BY Apart
<1>3. \A kind \in {"opened", "closed"}, f \in Nat : \A i : LogSays(kind, f, i)' <=> LogSays(kind, f, i)
  <2> SUFFICES ASSUME NEW kind \in {"opened", "closed"}, NEW f \in Nat, NEW i
               PROVE  LogSays(kind, f, i)' <=> LogSays(kind, f, i)
    OBVIOUS
  <2>1. Event(kind, f) # e
    BY <1>2, Apart
  <2>2. i \in 1 .. Len(log') <=> i \in 1 .. Len(log) \/ i = Len(log) + 1
    BY <1>1
  <2>3. LogSays(kind, f, i)' <=> i \in 1 .. Len(log') /\ log'[i] = Event(kind, f)
    BY DEF LogSays, Event
  <2> QED BY <1>1, <2>1, <2>2, <2>3 DEF LogSays
<1>4. \A i \in 1 .. Len(log') : log'[i] \in News => log'[i].about \in DOMAIN finding
  BY <1>1, <1>2 DEF NewsRight
<1>5. DOMAIN finding \subseteq Nat
  BY DEF FindingTypes
<1>6. \A kind \in {"opened", "closed"}, f \in DOMAIN finding :
          SaidOrLost(kind, f)' <=> SaidOrLost(kind, f)
  BY <1>3, <1>5 DEF SaidOrLost, Event
<1>7. \A f \in DOMAIN finding : RowNews(f)'
  <2> SUFFICES ASSUME NEW f \in DOMAIN finding PROVE RowNews(f)'
    OBVIOUS
  <2>1. f \in Nat /\ RowNews(f)
    BY <1>5 DEF NewsRight
  <2> QED BY <1>3, <1>6, <2>1, Zenon DEF RowNews, Event
<1> QED BY <1>4, <1>7, Zenon DEF NewsRight

\* What a handler had to tell is in the log.
LEMMA EmitKeeps ==
  ASSUME FindingTypes, NewsRight, log \in Seq(Signal \cup News),
         emit # Nothing, log' = Append(log, emit), emit' = Nothing, UNCHANGED <<finding, untold>>
  PROVE  NewsRight'
<1>1. /\ Len(log') = Len(log) + 1 /\ Len(log) \in Nat
      /\ \A i \in 1 .. Len(log) : log'[i] = log[i]
      /\ log'[Len(log) + 1] = emit
  OBVIOUS
<1>2. emit \in News /\ emit.about \in DOMAIN finding
  BY DEF FindingTypes, NewsRight
<1>3. \A kind \in {"opened", "closed"}, f \in Nat : \A i :
          LogSays(kind, f, i)' <=>
              LogSays(kind, f, i) \/ (i = Len(log) + 1 /\ emit = Event(kind, f))
  <2> SUFFICES ASSUME NEW kind \in {"opened", "closed"}, NEW f \in Nat, NEW i
               PROVE  LogSays(kind, f, i)' <=>
                          LogSays(kind, f, i) \/ (i = Len(log) + 1 /\ emit = Event(kind, f))
    OBVIOUS
  <2>1. i \in 1 .. Len(log') <=> i \in 1 .. Len(log) \/ i = Len(log) + 1
    BY <1>1
  <2>2. LogSays(kind, f, i)' <=> i \in 1 .. Len(log') /\ log'[i] = Event(kind, f)
    BY DEF LogSays, Event
  <2>3. Len(log) + 1 \notin 1 .. Len(log)
    BY <1>1
  <2> QED BY <1>1, <2>1, <2>2, <2>3 DEF LogSays
<1>4. \A i \in 1 .. Len(log') : log'[i] \in News => log'[i].about \in DOMAIN finding
  BY <1>1, <1>2 DEF NewsRight
<1>5. DOMAIN finding \subseteq Nat
  BY DEF FindingTypes
<1>6. \A kind \in {"opened", "closed"}, f \in DOMAIN finding :
          SaidOrLost(kind, f) => SaidOrLost(kind, f)'
  BY <1>3, <1>5 DEF SaidOrLost, Event
<1>7. \A f \in DOMAIN finding : RowNews(f)'
  <2> SUFFICES ASSUME NEW f \in DOMAIN finding PROVE RowNews(f)'
    OBVIOUS
  <2>1. f \in Nat /\ RowNews(f)
    BY <1>5 DEF NewsRight
  <2>2. Event("opened", f) # Event("closed", f) /\ Nothing # Event("opened", f)
        /\ Nothing # Event("closed", f)
    BY <2>1, Apart
  <2>3. \A kind \in {"opened", "closed"} : \A i : LogSays(kind, f, i) => i \in Nat /\ i < Len(log) + 1
    BY <1>1 DEF LogSays
  <2>4. SaidOrLost("opened", f)' /\ (finding[f].status = "closed" => SaidOrLost("closed", f)')
    BY <1>6, <2>1 DEF RowNews
  <2>5. \A i, j : LogSays("opened", f, i)' /\ LogSays("opened", f, j)' => i = j
    BY <1>3, <2>1 DEF RowNews
  <2>6. \A i, j : LogSays("opened", f, i)' /\ LogSays("closed", f, j)' => i < j
    BY <1>3, <2>1, <2>2, <2>3 DEF RowNews
  <2>7. \A i : LogSays("closed", f, i)' => finding[f].status = "closed"
    BY <1>3, <2>1 DEF RowNews
  <2> QED BY <2>2, <2>4, <2>5, <2>6, <2>7, Zenon DEF RowNews, Event
<1> QED BY <1>4, <1>7, Zenon DEF NewsRight

\* What a crash keeps out of the log is lost.
LEMMA CrashKeeps ==
  ASSUME FindingTypes, NewsRight, WatchCrash
  PROVE  NewsRight'
<1>1. /\ UNCHANGED <<log, finding>> /\ emit' = Nothing
      /\ untold' = IF emit = Nothing THEN untold ELSE untold \cup {emit}
  BY DEF WatchCrash
<1>2. \A kind, f, i : LogSays(kind, f, i)' <=> LogSays(kind, f, i)
  BY <1>1 DEF LogSays, Event
<1>3. DOMAIN finding \subseteq Nat
  BY DEF FindingTypes
<1>4. \A kind \in {"opened", "closed"}, f \in DOMAIN finding :
          SaidOrLost(kind, f) => SaidOrLost(kind, f)'
  BY <1>1, <1>2, <1>3, Apart DEF SaidOrLost, Event
<1>5. \A f \in DOMAIN finding : RowNews(f)'
  <2> SUFFICES ASSUME NEW f \in DOMAIN finding PROVE RowNews(f)'
    OBVIOUS
  <2>1. RowNews(f) /\ Nothing # Event("opened", f) /\ Nothing # Event("closed", f)
    BY <1>3, Apart DEF NewsRight
  <2> QED BY <1>1, <1>2, <1>4, <2>1, Zenon DEF RowNews, Event
<1> QED BY <1>1, <1>5, Zenon DEF NewsRight

\* A row is inserted, and its event is to be appended.
LEMMA OpenKeeps ==
  ASSUME FindingTypes, NewsRight, NEW k \in Key, emit = Nothing,
         finding' = Append(finding, [key |-> k, status |-> "open"]),
         emit' = Event("opened", Len(finding) + 1), UNCHANGED <<log, untold>>
  PROVE  NewsRight'
<1>1. /\ Len(finding) \in Nat /\ DOMAIN finding = 1 .. Len(finding)
      /\ DOMAIN finding' = 1 .. Len(finding) + 1
      /\ \A f \in DOMAIN finding : finding'[f] = finding[f]
      /\ finding'[Len(finding) + 1].status = "open"
  BY DEF FindingTypes, Row
<1>2. PICK n \in Nat : n = Len(finding) + 1
  BY <1>1
<1>3. DOMAIN finding' = DOMAIN finding \cup {n} /\ n \notin DOMAIN finding
      /\ DOMAIN finding \subseteq Nat
  BY <1>1, <1>2
<1>4. \A kind, f, i : LogSays(kind, f, i)' <=> LogSays(kind, f, i)
  BY DEF LogSays, Event
<1>5. \A kind \in {"opened", "closed"} : \A i : ~LogSays(kind, n, i)
  BY <1>2, <1>3, Apart DEF LogSays, NewsRight
<1>6. emit' = Event("opened", n) /\ emit'.about = n
  BY <1>2, Apart
<1>7. ASSUME NEW f \in DOMAIN finding PROVE RowNews(f)'
  <2>1. RowNews(f) /\ f \in Nat /\ f # n
    BY <1>3 DEF NewsRight
  <2>2. /\ Event("opened", f) # emit' /\ Event("closed", f) # emit'
        /\ Nothing # Event("opened", f) /\ Nothing # Event("closed", f)
    BY <1>2, <1>6, <2>1, Apart
  <2>3. \A kind \in {"opened", "closed"} : SaidOrLost(kind, f) => SaidOrLost(kind, f)'
    BY <1>4, <2>2 DEF SaidOrLost, Event
  <2> QED BY <1>1, <1>4, <2>1, <2>2, <2>3, Zenon DEF RowNews, Event
<1>8. RowNews(n)'
  <2>1. SaidOrLost("opened", n)'
    BY <1>6 DEF SaidOrLost, Event
  <2>2. finding'[n].status # "closed"
    BY <1>1, <1>2
  <2>3. emit' # Event("closed", n)
    BY <1>2, <1>6, Apart
  <2> QED BY <1>4, <1>5, <2>1, <2>2, <2>3, Zenon DEF RowNews, Event
<1>9. \A i \in 1 .. Len(log') : log'[i] \in News => log'[i].about \in DOMAIN finding'
  BY <1>3 DEF NewsRight
<1> QED BY <1>3, <1>6, <1>7, <1>8, <1>9 DEF NewsRight

\* The status of a row changes: it is closed, which is to be told, or
\* acknowledged, if it was not closed.
LEMMA StatusKeeps ==
  ASSUME FindingTypes, NewsRight, NEW f \in DOMAIN finding, NEW status, emit = Nothing,
         SetFinding(f, status), UNCHANGED <<log, untold>>,
         \/ status = "closed" /\ emit' = Event("closed", f)
         \/ status # "closed" /\ finding[f].status # "closed" /\ emit' = emit
  PROVE  NewsRight'
<1>1. /\ DOMAIN finding' = DOMAIN finding /\ DOMAIN finding \subseteq Nat
      /\ \A g \in DOMAIN finding \ {f} : finding'[g] = finding[g]
      /\ finding'[f].status = status
  <2>1. finding' = [finding EXCEPT ![f] = [finding[f] EXCEPT !.status = status]]
    BY DEF SetFinding
  <2>2. finding[f] \in Row /\ DOMAIN finding \subseteq Nat
    BY DEF FindingTypes
  <2>3. [finding[f] EXCEPT !.status = status].status = status
    BY <2>2 DEF Row
  <2> QED BY <2>1, <2>2, <2>3
<1>2. \A kind, g, i : LogSays(kind, g, i)' <=> LogSays(kind, g, i)
  BY DEF LogSays, Event
<1>3. \A kind \in {"opened", "closed"}, g \in DOMAIN finding :
          /\ SaidOrLost(kind, g) => SaidOrLost(kind, g)'
          /\ emit # Event(kind, g) /\ emit' # Event("opened", g)
          /\ emit' = Event("closed", g) => g = f /\ status = "closed"
  BY <1>1, <1>2, Apart DEF SaidOrLost, Event
<1>4. \A g \in DOMAIN finding : RowNews(g)'
  <2> SUFFICES ASSUME NEW g \in DOMAIN finding PROVE RowNews(g)'
    OBVIOUS
  <2>1. RowNews(g)
    BY DEF NewsRight
  <2>2. finding[g].status = "closed" => finding'[g].status = "closed"
    BY <1>1
  <2>3. finding'[g].status = "closed" => finding[g].status = "closed" \/ emit' = Event("closed", g)
    BY <1>1
  <2>4. finding'[g].status = "closed" => SaidOrLost("closed", g)'
    BY <1>3, <2>1, <2>3 DEF RowNews, SaidOrLost, Event
  <2>5. emit' = Event("closed", g) => finding'[g].status = "closed"
    BY <1>1, <1>3
  <2> QED BY <1>2, <1>3, <2>1, <2>2, <2>4, <2>5, Zenon DEF RowNews, Event
<1>5. emit' # Nothing => emit'.about \in DOMAIN finding'
  BY <1>1, Apart
<1> QED BY <1>1, <1>4, <1>5 DEF NewsRight

-----------------------------------------------------------------------------
(* The rows. *)

LEMMA RowSet ==
  ASSUME FindingTypes, NEW f \in DOMAIN finding, SetFinding(f, "closed") \/ SetFinding(f, "acknowledged")
  PROVE  /\ finding' \in Seq(Row) /\ DOMAIN finding' = DOMAIN finding
         /\ \A g \in DOMAIN finding : finding'[g].key = finding[g].key
         /\ \A g \in DOMAIN finding \ {f} : finding'[g] = finding[g]
<1>1. PICK status \in {"closed", "acknowledged"} :
          finding' = [finding EXCEPT ![f] = [finding[f] EXCEPT !.status = status]]
  BY DEF SetFinding
<1>2. finding[f] \in Row /\ DOMAIN finding = 1 .. Len(finding) /\ finding \in Seq(Row)
  BY DEF FindingTypes
<1>3. PICK r : r = [finding[f] EXCEPT !.status = status]
  OBVIOUS
<1>4. r \in Row /\ r.key = finding[f].key
  BY <1>2, <1>3 DEF Row
<1>5. finding' = [finding EXCEPT ![f] = r]
  BY <1>1, <1>3
<1> QED BY <1>2, <1>4, <1>5

\* The row that a resolved condition closes is one of its own.
LEMMA MinUnclosed ==
  ASSUME FindingTypes, OneUnclosed, NEW k \in Key, Unclosed(k) # {}
  PROVE  Min(Unclosed(k)) \in Unclosed(k)
<1>1. PICK f : f \in Unclosed(k)
  OBVIOUS
<1>2. Unclosed(k) = {f} /\ f \in Nat
  <2>1. f \in Nat
    BY <1>1 DEF Unclosed, FindingTypes
  <2>2. \A g \in Unclosed(k) : g = f
    BY <1>1, Zenon DEF OneUnclosed
  <2> QED BY <1>1, <2>1, <2>2
<1>3. f <= f
  BY <1>2
<1>4. \E x \in {f} : \A y \in {f} : x <= y
  BY <1>3
<1> QED BY <1>2, <1>4, Zenon DEF Min

LEMMA ClosedIsSet ==
  ASSUME FindingTypes, NEW f \in DOMAIN finding, SetFinding(f, "closed")
  PROVE  finding'[f].status = "closed"
<1>1. finding' = [finding EXCEPT ![f] = [finding[f] EXCEPT !.status = "closed"]]
  BY DEF SetFinding
<1>2. finding[f] \in Row
  BY DEF FindingTypes
<1>3. [finding[f] EXCEPT !.status = "closed"].status = "closed"
  BY <1>2 DEF Row
<1> QED BY <1>1, <1>3

\* What a step of the efficiency service does to the rows, to what is told of
\* them, and to the log.
Inserts(k) ==
    /\ Unclosed(k) = {}
    /\ finding' = Append(finding, [key |-> k, status |-> "open"])
    /\ emit' = Event("opened", Len(finding) + 1)
Closes(f) == SetFinding(f, "closed") /\ emit' = Event("closed", f)
Acks(f) == finding[f].status # "closed" /\ SetFinding(f, "acknowledged") /\ emit' = emit

Shape ==
    \/ UNCHANGED <<log, finding, untold, emit>>
    \/ /\ \E e \in Signal : StoreEvent(e)
       /\ UNCHANGED <<finding, untold, emit>>
    \/ /\ emit = Nothing /\ UNCHANGED <<log, untold, feedVars>>
       /\ \/ \E k \in Key : Inserts(k)
          \/ \E f \in DOMAIN finding : Closes(f) \/ Acks(f)
    \/ Emit
    \/ WatchCrash

LEMMA Shapes ==
  ASSUME WatchInv, [WatchNext]_allWatchVars
  PROVE  Shape /\ detector' = detector /\ due' \subseteq Key
<1> USE DEF WatchInv
<1>1. due \subseteq Key /\ detector \in [Key -> Detectors]
  BY DEF FindingTypes
<1>2. ASSUME NEW k \in Key, Happens(k)
      PROVE  Shape /\ detector' = detector /\ due' \subseteq Key
  <2>1. PICK kind \in Signals(detector[k]) : StoreEvent(Event(kind, k))
    BY <1>2 DEF Happens
  <2>2. Event(kind, k) \in Signal
    BY <1>1, <2>1 DEF Event, Signal
  <2>3. UNCHANGED <<detector, due, finding, untold, emit>>
    BY <1>2 DEF Happens, watchVars, worldVars
  <2> QED BY <1>1, <2>1, <2>2, <2>3 DEF Shape
<1>3. ASSUME NEW k \in Key, Reconcile(k)
      PROVE  Shape /\ detector' = detector /\ due' \subseteq Key
  <2>1. /\ emit = Nothing /\ UNCHANGED <<log, untold, feedVars, detector>>
        /\ due' \subseteq Key
    BY <1>1, <1>3 DEF Reconcile, worldVars
  <2>2. CASE Opens(k)
    <3>1. Inserts(k)
      BY <1>3, <2>2 DEF Reconcile, Opens, Inserts, FindOpen
    <3> QED BY <2>1, <3>1 DEF Shape
  <2>3. CASE ~Fires(k) /\ Unclosed(k) # {}
    <3>1. Closes(Min(Unclosed(k)))
      BY <1>3, <2>3 DEF Reconcile, Opens, Closes
    <3>2. Min(Unclosed(k)) \in DOMAIN finding
      BY <2>3, MinUnclosed DEF Unclosed
    <3> QED BY <2>1, <3>1, <3>2 DEF Shape
  <2>4. CASE ~Opens(k) /\ (Fires(k) \/ Unclosed(k) = {})
    <3>1. UNCHANGED <<finding, emit>>
      BY <1>3, <2>4 DEF Reconcile
    <3> QED BY <2>1, <3>1 DEF Shape
  <2> QED BY <2>2, <2>3, <2>4 DEF Opens, FindOpen
<1>4. ASSUME NEW f \in DOMAIN finding, Acknowledge(f)
      PROVE  Shape /\ detector' = detector /\ due' \subseteq Key
  <2>1. /\ emit = Nothing /\ UNCHANGED <<log, untold, feedVars, detector, due, emit>>
        /\ finding[f].status # "closed" /\ SetFinding(f, "acknowledged")
    BY <1>4 DEF Acknowledge, WatchFree, worldVars
  <2> QED BY <1>1, <2>1 DEF Shape, Acks
<1>5. ASSUME NEW f \in DOMAIN finding, ManualClose(f)
      PROVE  Shape /\ detector' = detector /\ due' \subseteq Key
  <2>1. /\ emit = Nothing /\ UNCHANGED <<log, untold, feedVars, detector, due>>
        /\ SetFinding(f, "closed") /\ emit' = Event("closed", f)
    BY <1>5 DEF ManualClose, WatchFree, worldVars
  <2> QED BY <1>1, <2>1 DEF Shape, Closes
<1>6. CASE Emit
  BY <1>1, <1>6 DEF Emit, Shape, worldVars
<1>7. CASE WatchCrash
  <2>1. due' = {} /\ detector' = detector
    BY <1>7 DEF WatchCrash, worldVars
  <2> QED BY <1>7, <2>1 DEF Shape
<1>8. CASE TimePasses
  BY <1>1, <1>8 DEF TimePasses, Shape
<1>9. ASSUME NEW a \in Approval, NEW state, ApprovalMoves(a, state)
      PROVE  Shape /\ detector' = detector /\ due' \subseteq Key
  BY <1>1, <1>9 DEF ApprovalMoves, Shape
<1>10. CASE RunLoop
  BY <1>1, <1>10 DEF RunLoop, Tick, Shape, worldVars
<1>11. CASE FeedTurn
  <2>1. UNCHANGED <<detector, due, finding, untold, emit>>
    BY <1>11 DEF FeedTurn, watchVars, worldVars
  <2>2. log' = log
    BY <1>11, Zenon DEF FeedTurn, FeedStep, Connect, ReadBacklog, SendBacklog, SendQueued, Break
  <2> QED BY <1>1, <2>1, <2>2 DEF Shape
<1>12. CASE UNCHANGED allWatchVars
  BY <1>1, <1>12 DEF allWatchVars, watchVars, worldVars, Shape
<1> QED
  BY <1>2, <1>3, <1>4, <1>5, <1>6, <1>7, <1>8, <1>9, <1>10, <1>11, <1>12, Zenon DEF WatchNext

LEMMA TypesStep ==
  ASSUME WatchInv, Shape, detector' = detector, due' \subseteq Key
  PROVE  FindingTypes'
<1> USE DEF WatchInv
<1>1. FindingTypes' <=> finding' \in Seq(Row) /\ emit' \in {Nothing} \cup News
  BY DEF FindingTypes
<1>2. finding \in Seq(Row) /\ emit \in {Nothing} \cup News
  BY DEF FindingTypes
<1>3. ASSUME NEW k \in Key, Inserts(k) PROVE FindingTypes'
  <2>1. [key |-> k, status |-> "open"] \in Row
    BY DEF Row
  <2>2. finding' \in Seq(Row) /\ Len(finding) + 1 \in Nat
    BY <1>2, <1>3, <2>1 DEF Inserts
  <2>3. emit' \in News
    BY <1>3, <2>2, Apart DEF Inserts
  <2> QED BY <1>1, <2>2, <2>3
<1>4. ASSUME NEW f \in DOMAIN finding, Closes(f) \/ Acks(f) PROVE FindingTypes'
  <2>1. f \in Nat /\ finding' \in Seq(Row)
    BY <1>2, <1>4, RowSet DEF Closes, Acks
  <2>2. emit' \in {Nothing} \cup News
    BY <1>2, <1>4, <2>1, Apart DEF Closes, Acks
  <2> QED BY <1>1, <2>1, <2>2
<1>5. CASE Emit
  BY <1>1, <1>2, <1>5 DEF Emit
<1>6. CASE WatchCrash
  BY <1>1, <1>2, <1>6 DEF WatchCrash
<1> QED BY <1>1, <1>2, <1>3, <1>4, <1>5, <1>6, Zenon DEF Shape

LEMMA OneStep ==
  ASSUME WatchInv, Shape
  PROVE  OneUnclosed'
<1> USE DEF WatchInv
<1>1. CASE UNCHANGED finding
  BY <1>1 DEF OneUnclosed, Unclosed
<1>2. ASSUME NEW k \in Key, Inserts(k) PROVE OneUnclosed'
  <2>1. PICK n \in Nat : n = Len(finding) + 1
    BY DEF FindingTypes
  <2>2. /\ DOMAIN finding' = DOMAIN finding \cup {n} /\ n \notin DOMAIN finding
        /\ \A f \in DOMAIN finding : finding'[f] = finding[f]
        /\ finding'[n].key = k
    BY <1>2, <2>1 DEF Inserts, FindingTypes, Row
  <2>3. \A m \in Key : m # k => Unclosed(m)' \subseteq Unclosed(m)
    BY <2>2 DEF Unclosed
  <2>4. Unclosed(k)' \subseteq Unclosed(k) \cup {n}
    BY <2>2 DEF Unclosed
  <2> QED BY <1>2, <2>3, <2>4 DEF OneUnclosed, Inserts
<1>3. ASSUME NEW f \in DOMAIN finding, Closes(f) \/ Acks(f) PROVE OneUnclosed'
  <2>1. /\ DOMAIN finding' = DOMAIN finding
        /\ \A g \in DOMAIN finding : finding'[g].key = finding[g].key
        /\ \A g \in DOMAIN finding \ {f} : finding'[g] = finding[g]
    BY <1>3, RowSet DEF Closes, Acks
  <2>2. finding'[f].status = "closed" \/ finding[f].status # "closed"
    BY <1>3, ClosedIsSet DEF Closes, Acks
  <2>3. \A m \in Key : Unclosed(m)' \subseteq Unclosed(m)
    BY <2>1, <2>2 DEF Unclosed
  <2> QED BY <2>3 DEF OneUnclosed
<1>4. CASE Emit \/ WatchCrash
  BY <1>1, <1>4 DEF Emit, WatchCrash
<1> QED BY <1>1, <1>2, <1>3, <1>4, Zenon DEF Shape

LEMMA NewsStep ==
  ASSUME WatchInv, Shape
  PROVE  NewsRight'
<1> USE DEF WatchInv
<1>1. log \in Seq(Signal \cup News)
  BY DEF FeedInv, FeedTypes
<1>2. CASE UNCHANGED <<log, finding, untold, emit>>
  BY <1>2, NewsUntouched
<1>3. ASSUME NEW e \in Signal, StoreEvent(e), UNCHANGED <<finding, untold, emit>>
      PROVE  NewsRight'
  <2>1. log' = Append(log, e)
    BY <1>3 DEF StoreEvent
  <2> QED BY <1>1, <1>3, <2>1, SignalKeeps
<1>4. ASSUME NEW k \in Key, Inserts(k), emit = Nothing, UNCHANGED <<log, untold>>
      PROVE  NewsRight'
  BY <1>4, OpenKeeps DEF Inserts
<1>5. ASSUME NEW f \in DOMAIN finding, Closes(f) \/ Acks(f), emit = Nothing,
             UNCHANGED <<log, untold>>
      PROVE  NewsRight'
  <2>1. CASE Closes(f)
    BY <1>5, <2>1, StatusKeeps DEF Closes
  <2>2. CASE Acks(f)
    <3>1. "acknowledged" # "closed"
      OBVIOUS
    <3> QED BY <1>5, <2>2, <3>1, StatusKeeps DEF Acks
  <2> QED BY <1>5, <2>1, <2>2
<1>6. CASE Emit
  <2>1. emit # Nothing /\ log' = Append(log, emit) /\ emit' = Nothing /\ UNCHANGED <<finding, untold>>
    BY <1>6 DEF Emit, StoreEvent
  <2> QED BY <1>1, <2>1, EmitKeeps
<1>7. CASE WatchCrash
  BY <1>7, CrashKeeps
<1> QED BY <1>2, <1>3, <1>4, <1>5, <1>6, <1>7, Zenon DEF Shape

LEMMA FeedUntouched ==
  ASSUME FeedInv, UNCHANGED <<log, feedVars>>
  PROVE  FeedInv'
  BY DEF FeedInv, FeedTypes, Supply, Promised, ShownRight, NoSilentGap, LastShown, feedVars

LEMMA FeedWatchStep ==
  ASSUME WatchInv, [WatchNext]_allWatchVars
  PROVE  FeedInv'
<1> USE DEF WatchInv
<1>1. ASSUME NEW k \in Key, Happens(k) PROVE FeedInv'
  <2>1. PICK kind \in Signals(detector[k]) : StoreEvent(Event(kind, k))
    BY <1>1 DEF Happens
  <2>2. Event(kind, k) \in Signal
    BY <2>1 DEF Event, Signal, FindingTypes
  <2> QED BY <2>1, <2>2, StoreKeeps
<1>2. ASSUME NEW k \in Key, Reconcile(k) PROVE FeedInv'
  BY <1>2, FeedUntouched DEF Reconcile
<1>3. ASSUME NEW f \in DOMAIN finding, Acknowledge(f) \/ ManualClose(f) PROVE FeedInv'
  BY <1>3, FeedUntouched DEF Acknowledge, ManualClose
<1>4. CASE Emit
  <2>1. emit \in News /\ StoreEvent(emit)
    BY <1>4 DEF Emit, FindingTypes
  <2> QED BY <2>1, StoreKeeps
<1>5. CASE WatchCrash
  BY <1>5, HangupKeeps DEF WatchCrash
<1>6. CASE TimePasses \/ RunLoop
  BY <1>6, FeedUntouched DEF TimePasses, RunLoop, Tick
<1>7. ASSUME NEW a \in Approval, NEW state, ApprovalMoves(a, state) PROVE FeedInv'
  BY <1>7, FeedUntouched DEF ApprovalMoves
<1>8. CASE FeedTurn
  <2>1. CASE Break
    BY <2>1, HangupKeeps DEF Break
  <2>2. CASE FeedStep
    BY <2>2, ConnectKeeps, ReadKeeps, SendBacklogKeeps, SendQueuedKeeps DEF FeedStep
  <2> QED BY <1>8, <2>1, <2>2 DEF FeedTurn
<1>9. CASE UNCHANGED allWatchVars
  BY <1>9, FeedUntouched DEF allWatchVars
<1> QED
  BY <1>1, <1>2, <1>3, <1>4, <1>5, <1>6, <1>7, <1>8, <1>9, Zenon DEF WatchNext

LEMMA WatchStart == WatchInit => WatchInv
<1> SUFFICES ASSUME WatchInit PROVE WatchInv
  OBVIOUS
<1>1. FeedInv
  BY FeedStart DEF WatchInit
<1>2. FindingTypes
  BY DEF WatchInit, FindingTypes
<1>3. OneUnclosed
  BY DEF WatchInit, OneUnclosed, Unclosed
<1>4. NewsRight
  BY DEF WatchInit, FeedInit, NewsRight
<1> QED BY <1>1, <1>2, <1>3, <1>4 DEF WatchInv

LEMMA WatchInvariance == WatchSpec => []WatchInv
<1>1. WatchInv /\ [WatchNext]_allWatchVars => WatchInv'
  <2> SUFFICES ASSUME WatchInv, [WatchNext]_allWatchVars PROVE WatchInv'
    OBVIOUS
  <2>1. Shape /\ detector' = detector /\ due' \subseteq Key
    BY Shapes
  <2>2. FindingTypes' /\ OneUnclosed' /\ NewsRight' /\ FeedInv'
    BY <2>1, TypesStep, OneStep, NewsStep, FeedWatchStep
  <2> QED BY <2>2 DEF WatchInv
<1> QED BY WatchStart, <1>1, PTL DEF WatchSpec

\* What the browser shows is the log, in order and without a gap that the two
\* limits of the stream do not explain, for a log of any length.
THEOREM FeedShowsLog == WatchSpec => []FeedIsLog
<1>1. WatchInv => FeedIsLog
  <2> SUFFICES ASSUME WatchInv PROVE FeedIsLog
    OBVIOUS
  <2>1. /\ shown \in Seq(Nat) /\ NoSilentGap
        /\ \A i, j \in 1 .. Len(shown) : i < j => shown[i] < shown[j]
    BY DEF WatchInv, FeedInv, FeedTypes, ShownRight
  <2>2. DOMAIN shown = 1 .. Len(shown)
    BY <2>1
  <2> QED BY <2>1, <2>2, Zenon DEF FeedIsLog, ShownInOrder
<1> QED BY WatchInvariance, <1>1, PTL

\* A condition that lasts is one finding that is not closed, for any number of
\* subjects, ticks, decisions of the Board and restarts.
THEOREM FindingsAreSingle == WatchSpec => []OneOpenFinding
<1>1. WatchInv => OneOpenFinding
  <2> SUFFICES ASSUME WatchInv, NEW k \in Key PROVE Cardinality(Unclosed(k)) <= 1
    BY DEF OneOpenFinding
  <2>1. CASE Unclosed(k) = {}
    BY <2>1, FS_EmptySet
  <2>2. CASE Unclosed(k) # {}
    <3>1. PICK f : f \in Unclosed(k)
      BY <2>2
    <3>2. Unclosed(k) = {f}
      <4>1. \A g \in Unclosed(k) : g = f
        BY <3>1, Zenon DEF WatchInv, OneUnclosed
      <4> QED BY <3>1, <4>1
    <3>3. Cardinality({f}) = 1
      BY FS_Singleton
    <3> QED BY <3>2, <3>3
  <2> QED BY <2>1, <2>2
<1> QED BY WatchInvariance, <1>1, PTL

\* The log tells of every row of the findings, of its opening once and before its
\* closing, but for what a crash took between the row and the event.
THEOREM FindingsAreTold == WatchSpec => []RowsTold
<1>1. WatchInv => RowsTold
  <2> SUFFICES ASSUME WatchInv PROVE RowsTold
    OBVIOUS
  <2>1. DOMAIN finding \subseteq Nat /\ log \in Seq(Signal \cup News) /\ Len(log) \in Nat
    BY DEF WatchInv, FindingTypes, FeedInv, FeedTypes
  <2> DEFINE At(kind, about) == {i \in Ids : log[i] = Event(kind, about)}
  <2>2. \A kind, f, i : LogSays(kind, f, i) <=> i \in At(kind, f)
    BY DEF LogSays, Ids
  <2>3. \A f \in DOMAIN finding : RowNews(f)
    BY DEF WatchInv, NewsRight
  <2>4. ASSUME NEW f \in DOMAIN finding
        PROVE  /\ At("opened", f) # {} \/ Event("opened", f) \in untold \cup {emit}
               /\ Cardinality(At("opened", f)) <= 1
               /\ finding[f].status = "closed" =>
                      At("closed", f) # {} \/ Event("closed", f) \in untold \cup {emit}
               /\ \A i \in At("opened", f), j \in At("closed", f) : i < j
    <3> HIDE DEF At
    <3>1. /\ SaidOrLost("opened", f) => At("opened", f) # {} \/ Event("opened", f) \in untold \cup {emit}
          /\ SaidOrLost("closed", f) => At("closed", f) # {} \/ Event("closed", f) \in untold \cup {emit}
      BY <2>2 DEF SaidOrLost
    <3>2. \A i, j \in At("opened", f) : i = j
      BY <2>2, <2>3 DEF RowNews
    <3>3. Cardinality(At("opened", f)) <= 1
      <4>1. CASE At("opened", f) = {}
        BY <4>1, FS_EmptySet
      <4>2. CASE At("opened", f) # {}
        <5>1. PICK i : i \in At("opened", f)
          BY <4>2
        <5>2. At("opened", f) = {i}
          BY <3>2, <5>1
        <5> QED BY <5>2, FS_Singleton
      <4> QED BY <4>1, <4>2
    <3>4. \A i \in At("opened", f), j \in At("closed", f) : i < j
      BY <2>2, <2>3 DEF RowNews
    <3> QED BY <2>3, <3>1, <3>3, <3>4 DEF RowNews
  <2>5. \A f \in Nat \cap {log[i].about : i \in {j \in Ids : log[j].kind = "closed"}} :
              finding[f].status = "closed"
    <3> SUFFICES ASSUME NEW i \in Ids, log[i].kind = "closed", log[i].about \in Nat
                 PROVE  finding[log[i].about].status = "closed"
      OBVIOUS
    <3>1. log[i] \in Signal \cup News /\ i \in 1 .. Len(log)
      BY <2>1 DEF Ids
    <3>2. log[i] \in News
      BY <3>1, SignalKinds
    <3>3. log[i] = Event("closed", log[i].about) /\ log[i].about \in DOMAIN finding
      BY <3>1, <3>2, Apart DEF WatchInv, NewsRight
    <3>4. LogSays("closed", log[i].about, i)
      BY <3>1, <3>3 DEF LogSays
    <3> QED BY <2>3, <3>3, <3>4 DEF RowNews
  <2> QED BY <2>4, <2>5 DEF RowsTold
<1> QED BY WatchInvariance, <1>1, PTL
=============================================================================
