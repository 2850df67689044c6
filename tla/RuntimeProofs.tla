--------------------------- MODULE RuntimeProofs ---------------------------
(***************************************************************************)
(* What runs the agents of a company: their turns and the files that a     *)
(* turn writes (Turn, Workspace), and the messages that start turns and    *)
(* the pause that ends them (Messaging), for any number of agents, files,  *)
(* messages, tool calls and crashes.                                       *)
(***************************************************************************)
EXTENDS Messaging, Turn, FiniteSetTheorems, WellFoundedInduction, TLAPS

-----------------------------------------------------------------------------
(* Turns: the types, and the shape that all steps share.                   *)

Phases == {"idle", "asking", "calling", "closing", "acking", "completing", "remembering"}
Kinds == {"delivered", "completed", "alert", "truncated"}
Items == {"message", "answer", "tool", "refusal", "cut"}

TurnRecord == [phase : Phases, from : {"peer", "system"}, calls : Seq(Tool), loops : Nat,
               tries : Nat, replied : BOOLEAN, said : Nat, cut : BOOLEAN]

TurnTypes ==
    /\ turn \in [Agent -> TurnRecord]
    /\ \A a \in Agent : turn[a].phase = "calling" => turn[a].calls # <<>>
    /\ log \in [Agent -> Seq(Kinds)]
    /\ memory \in [Agent -> Seq(Items)]
    /\ abandoned \in [Agent -> Nat]

\* What the tables of one agent are: its turn, its events and its memory.
Table(t, l, m) ==
    /\ t \in TurnRecord
    /\ t.phase = "calling" => t.calls # <<>>
    /\ l \in Seq(Kinds)
    /\ m \in Seq(Items)

LEMMA IdleIs ==
    Idle \in TurnRecord /\ Idle.phase = "idle" /\ Idle.said = 0 /\ ~ Idle.replied
    /\ Idle.loops = 0
BY DEF Idle, TurnRecord, Phases

LEMMA Suffix ==
    ASSUME NEW S, NEW s \in Seq(S), NEW k \in Nat, k <= Len(s)
    PROVE  /\ SubSeq(s, k + 1, Len(s)) \in Seq(S)
           /\ Len(SubSeq(s, k + 1, Len(s))) = Len(s) - k
           /\ \A i \in 1 .. Len(s) - k : SubSeq(s, k + 1, Len(s))[i] = s[k + i]
OBVIOUS

LEMMA SuffixEnds ==
    ASSUME NEW S, NEW s \in Seq(S), NEW k \in Nat, k <= Len(s), k = 0 \/ Len(s) - k >= 2,
           NEW w, w = SubSeq(s, k + 1, Len(s))
    PROVE  /\ w \in Seq(S)
           /\ Len(s) > 0 => Len(w) > 0 /\ w[Len(w)] = s[Len(s)]
           /\ Len(s) > 1 => Len(w) > 1 /\ w[Len(w) - 1] = s[Len(s) - 1]
<1>1. /\ w \in Seq(S) /\ Len(w) = Len(s) - k
      /\ \A i \in 1 .. Len(s) - k : w[i] = s[k + i]
    BY Suffix
<1> PICK n \in Nat : n = Len(s)
    OBVIOUS
<1>2. n > 0 => n - k > 0 /\ n - k \in 1 .. n - k /\ k + (n - k) = n
    OBVIOUS
<1>3. n > 1 => n - k > 1 /\ (n - k) - 1 \in 1 .. n - k /\ k + ((n - k) - 1) = n - 1
    OBVIOUS
<1> QED
    BY <1>1, <1>2, <1>3

LEMMA Joined ==
    ASSUME NEW S, NEW s \in Seq(S), NEW x \in S
    PROVE  /\ s \o <<x>> \in Seq(S) /\ Len(s \o <<x>>) = Len(s) + 1
           /\ (s \o <<x>>)[Len(s) + 1] = x
           /\ \A i \in 1 .. Len(s) : (s \o <<x>>)[i] = s[i]
<1>1. <<x>> \in Seq(S) /\ Len(<<x>>) = 1 /\ <<x>>[1] = x
    OBVIOUS
<1>2. s \o <<x>> \in Seq(S) /\ Len(s \o <<x>>) = Len(s) + 1
    BY <1>1
<1>3. \A i \in 1 .. Len(s) + 1 : (s \o <<x>>)[i] = IF i <= Len(s) THEN s[i] ELSE <<x>>[i - Len(s)]
    BY <1>1
<1>4. Len(s) + 1 \in 1 .. Len(s) + 1 /\ ~ (Len(s) + 1 <= Len(s)) /\ (Len(s) + 1) - Len(s) = 1
    OBVIOUS
<1>5. (s \o <<x>>)[Len(s) + 1] = x
    BY <1>1, <1>3, <1>4
<1>6. ASSUME NEW i \in 1 .. Len(s) PROVE (s \o <<x>>)[i] = s[i]
    <2>1. i \in 1 .. Len(s) + 1 /\ i <= Len(s)
        OBVIOUS
    <2> QED
        BY <1>3, <2>1
<1> QED
    BY <1>2, <1>5, <1>6

\* append_working keeps the last items: a single new one, and the one before it.
LEMMA Window ==
    ASSUME TurnTypes, NEW a \in Agent, NEW items \in Seq(Items), AppendWorking(a, items)
    PROVE  /\ \E w \in Seq(Items) : memory' = [memory EXCEPT ![a] = w]
           /\ memory' \in [Agent -> Seq(Items)]
           /\ \A x \in Items :
                 items = <<x>> =>
                    /\ Len(memory'[a]) > 0 /\ memory'[a][Len(memory'[a])] = x
                    /\ Len(memory[a]) > 0 =>
                          /\ Len(memory'[a]) > 1
                          /\ memory'[a][Len(memory'[a]) - 1] = memory[a][Len(memory[a])]
<1> DEFINE all == memory[a] \o items
<1>1. memory \in [Agent -> Seq(Items)] /\ memory[a] \in Seq(Items)
    BY DEF TurnTypes
<1>2. all \in Seq(Items)
    BY <1>1
<1>3. PICK k : /\ k = IF Len(all) > WindowSize THEN Len(all) - WindowSize ELSE 0
               /\ memory' = [memory EXCEPT ![a] = SubSeq(all, k + 1, Len(all))]
    BY DEF AppendWorking
<1>4. WindowSize \in Nat /\ WindowSize >= 2
    BY TurnConstants DEF TurnConstants
<1>5. ASSUME NEW x \in Items, items = <<x>>
      PROVE  /\ Len(all) > 0 /\ all[Len(all)] = x
             /\ Len(memory[a]) > 0 =>
                   Len(all) > 1 /\ all[Len(all) - 1] = memory[a][Len(memory[a])]
    <2>1. /\ Len(all) = Len(memory[a]) + 1 /\ all[Len(memory[a]) + 1] = x
          /\ \A i \in 1 .. Len(memory[a]) : all[i] = memory[a][i]
        BY <1>1, <1>5, Joined
    <2> HIDE DEF all
    <2>2. PICK n \in Nat : n = Len(memory[a])
        BY <1>1
    <2>3. n > 0 => n \in 1 .. n
        OBVIOUS
    <2> QED
        BY <2>1, <2>2, <2>3
<1> HIDE DEF all
<1>6. k \in Nat /\ k <= Len(all) /\ (k = 0 \/ Len(all) - k >= 2)
    BY <1>2, <1>3, <1>4
<1>7. PICK w : w = SubSeq(all, k + 1, Len(all))
    OBVIOUS
<1>8. /\ w \in Seq(Items)
      /\ Len(all) > 0 => Len(w) > 0 /\ w[Len(w)] = all[Len(all)]
      /\ Len(all) > 1 => Len(w) > 1 /\ w[Len(w) - 1] = all[Len(all) - 1]
    <2>1. \A v : v = SubSeq(all, k + 1, Len(all)) =>
             /\ v \in Seq(Items)
             /\ Len(all) > 0 => Len(v) > 0 /\ v[Len(v)] = all[Len(all)]
             /\ Len(all) > 1 => Len(v) > 1 /\ v[Len(v) - 1] = all[Len(all) - 1]
        BY <1>2, <1>6, SuffixEnds
    <2> QED
        BY <1>7, <2>1
<1>9. memory' = [memory EXCEPT ![a] = w] /\ memory'[a] = w
    BY <1>1, <1>3, <1>7
<1>10. memory' \in [Agent -> Seq(Items)]
    BY <1>1, <1>8, <1>9
<1> QED
    BY <1>5, <1>8, <1>9, <1>10

-----------------------------------------------------------------------------
(* Turns: what is true of one agent's turn, events, memory and number of   *)
(* abandoned turns.  No step touches those of two agents but the crash.    *)

Runs(t) == t.phase \notin {"idle", "remembering"}
EndsWith(m, x) == Len(m) > 0 /\ m[Len(m)] = x
CountIn(l, kinds) == Cardinality({i \in DOMAIN l : l[i] \in kinds})

\* Every turn but the running one was told or abandoned.
AllTold(t, l, n) ==
    CountIn(l, {"delivered"}) =
        CountIn(l, {"completed", "alert"}) + n + (IF Runs(t) THEN 1 ELSE 0)

\* Who wrote has been answered where the turn says so.
Answered(t) == t.replied \/ (t.phase = "completing" /\ t.from = "peer") => t.said > 0

\* A turn that was cut short left its note as the last item of memory, and the
\* next turn begins right after it.
CutNoted(t, l, m) ==
    /\ Runs(t) => EndsWith(l, "delivered") \/ EndsWith(l, "truncated")
    /\ Runs(t) /\ EndsWith(l, "truncated") =>
          t.phase \in {"acking", "completing"} /\ EndsWith(m, "cut")
    /\ ~ Runs(t) /\ Len(l) > 1 /\ l[Len(l)] = "completed" /\ l[Len(l) - 1] = "truncated" =>
          EndsWith(m, "cut")
    /\ t.phase = "calling" => t.loops > 0
    /\ t.phase = "asking" /\ t.loops = 0 /\ Len(l) > 2
          /\ l[Len(l) - 1] = "completed" /\ l[Len(l) - 2] = "truncated" =>
          \E i \in DOMAIN m : m[i] = "cut"

TurnSound(t, l, m, n) == AllTold(t, l, n) /\ Answered(t) /\ CutNoted(t, l, m)

TurnInv == TurnTypes /\ \A a \in Agent : TurnSound(turn[a], log[a], memory[a], abandoned[a])

\* Agent a's tables become t, l, m and n.
Becomes(a, t, l, m, n) ==
    /\ turn' = [turn EXCEPT ![a] = t]
    /\ log' = [log EXCEPT ![a] = l]
    /\ memory' = [memory EXCEPT ![a] = m]
    /\ abandoned' = [abandoned EXCEPT ![a] = n]

LEMMA SoundStep ==
    ASSUME TurnInv, NEW a \in Agent, NEW t, NEW l, NEW m, NEW n \in Nat,
           Table(t, l, m), Becomes(a, t, l, m, n), TurnSound(t, l, m, n)
    PROVE  TurnInv'
<1>1. TurnTypes'
    BY DEF TurnInv, TurnTypes, Table, Becomes
<1>2. ASSUME NEW b \in Agent PROVE TurnSound(turn'[b], log'[b], memory'[b], abandoned'[b])
    <2>1. CASE b = a
        BY <2>1 DEF TurnInv, TurnTypes, Becomes
    <2>2. CASE b # a
        <3>1. turn'[b] = turn[b] /\ log'[b] = log[b] /\ memory'[b] = memory[b]
              /\ abandoned'[b] = abandoned[b]
            BY <2>2 DEF TurnInv, TurnTypes, Becomes
        <3> QED
            BY <3>1 DEF TurnInv
    <2> QED
        BY <2>1, <2>2
<1> QED
    BY <1>1, <1>2 DEF TurnInv

\* The tables of an agent, and how the untouched ones are written as unchanged.
LEMMA Tables ==
    ASSUME TurnInv, NEW a \in Agent
    PROVE  /\ Table(turn[a], log[a], memory[a]) /\ abandoned[a] \in Nat
           /\ TurnSound(turn[a], log[a], memory[a], abandoned[a])
           /\ UNCHANGED log => log' = [log EXCEPT ![a] = log[a]]
           /\ UNCHANGED memory => memory' = [memory EXCEPT ![a] = memory[a]]
           /\ UNCHANGED abandoned => abandoned' = [abandoned EXCEPT ![a] = abandoned[a]]
BY DEF TurnInv, TurnTypes, Table

LEMMA Counted ==
    ASSUME NEW l \in Seq(Kinds), NEW x \in Kinds, NEW kinds
    PROVE  /\ CountIn(l, kinds) \in Nat
           /\ CountIn(l \o <<x>>, kinds) = CountIn(l, kinds) + IF x \in kinds THEN 1 ELSE 0
<1> DEFINE n == Len(l)
           Hits(s) == {i \in DOMAIN s : s[i] \in kinds}
           k == l \o <<x>>
<1>1. n \in Nat /\ DOMAIN l = 1 .. n
    OBVIOUS
<1>2. /\ k \in Seq(Kinds) /\ Len(k) = n + 1 /\ k[n + 1] = x
      /\ \A i \in 1 .. n : k[i] = l[i]
    BY Joined
<1>3. DOMAIN k = 1 .. n + 1
    BY <1>2
<1> HIDE DEF k, n
<1>4. IsFiniteSet(Hits(l)) /\ Cardinality(Hits(l)) \in Nat
    <2>1. IsFiniteSet(1 .. n)
        BY <1>1, FS_Interval
    <2>2. Hits(l) \subseteq 1 .. n
        BY <1>1
    <2> QED
        BY <2>1, <2>2, FS_Subset, FS_CardinalityType
<1>5. Hits(k) = IF x \in kinds THEN Hits(l) \cup {n + 1} ELSE Hits(l)
    <2>1. 1 .. n + 1 = (1 .. n) \cup {n + 1}
        BY <1>1
    <2> QED
        BY <1>1, <1>2, <1>3, <2>1
<1>6. n + 1 \notin Hits(l)
    BY <1>1
<1>7. Cardinality(Hits(l) \cup {n + 1}) = Cardinality(Hits(l)) + 1
    BY <1>4, <1>6, FS_AddElement
<1>8. Cardinality(Hits(k)) = Cardinality(Hits(l)) + IF x \in kinds THEN 1 ELSE 0
    <2> HIDE DEF Hits
    <2>1. CASE x \in kinds
        BY <1>4, <1>5, <1>7, <2>1
    <2>2. CASE x \notin kinds
        BY <1>4, <1>5, <2>2
    <2> QED
        BY <2>1, <2>2
<1> QED
    BY <1>4, <1>8 DEF CountIn, k

LEMMA Grown ==
    ASSUME NEW l \in Seq(Kinds), NEW x \in Kinds, NEW k, k = l \o <<x>>
    PROVE  /\ k \in Seq(Kinds) /\ Len(k) = Len(l) + 1
           /\ k[Len(k)] = x /\ Len(k) > 0
           /\ Len(l) > 0 => k[Len(k) - 1] = l[Len(l)]
           /\ Len(l) > 1 => k[Len(k) - 2] = l[Len(l) - 1]
<1>1. /\ k \in Seq(Kinds) /\ Len(k) = Len(l) + 1 /\ k[Len(l) + 1] = x
      /\ \A i \in 1 .. Len(l) : k[i] = l[i]
    BY Joined
<1> PICK n \in Nat : n = Len(l)
    OBVIOUS
<1>2. /\ n + 1 > 0 /\ (n + 1) - 1 = n /\ (n + 1) - 2 = n - 1
      /\ n > 0 => n \in 1 .. n
      /\ n > 1 => n - 1 \in 1 .. n
    OBVIOUS
<1> QED
    BY <1>1, <1>2

LEMMA BeginSound ==
    ASSUME TurnInv, NEW a \in Agent, NEW from \in {"peer", "system"}, Begin(a, from)
    PROVE  TurnInv'
<1> DEFINE t == [Idle EXCEPT !.phase = "asking", !.from = from]
           l == log[a] \o <<"delivered">>
<1>1. /\ ~ Runs(turn[a])
      /\ turn' = [turn EXCEPT ![a] = t]
      /\ log' = [log EXCEPT ![a] = l]
      /\ AppendWorking(a, <<"message">>)
      /\ UNCHANGED abandoned
    BY DEF Begin, RunLoop, In, Runs, Emit
<1>2. /\ Table(turn[a], log[a], memory[a]) /\ abandoned[a] \in Nat
      /\ TurnSound(turn[a], log[a], memory[a], abandoned[a])
      /\ abandoned' = [abandoned EXCEPT ![a] = abandoned[a]]
    BY <1>1, Tables
<1>3. <<"message">> \in Seq(Items) /\ "message" \in Items /\ "delivered" \in Kinds
    BY DEF Items, Kinds
<1>4. PICK m \in Seq(Items) :
         /\ memory' = [memory EXCEPT ![a] = m]
         /\ Len(memory[a]) > 0 => Len(m) > 1 /\ m[Len(m) - 1] = memory[a][Len(memory[a])]
    <2>1. memory[a] \in Seq(Items) /\ memory \in [Agent -> Seq(Items)]
        BY DEF TurnInv, TurnTypes
    <2>2. /\ \E w \in Seq(Items) : memory' = [memory EXCEPT ![a] = w]
          /\ Len(memory[a]) > 0 =>
                /\ Len(memory'[a]) > 1
                /\ memory'[a][Len(memory'[a]) - 1] = memory[a][Len(memory[a])]
        BY <1>1, <1>3, Window DEF TurnInv
    <2>3. PICK w \in Seq(Items) : memory' = [memory EXCEPT ![a] = w]
        BY <2>2
    <2>4. memory'[a] = w
        BY <2>1, <2>3
    <2> QED
        BY <2>2, <2>3, <2>4
<1>5. /\ l \in Seq(Kinds) /\ Len(l) = Len(log[a]) + 1
      /\ l[Len(l)] = "delivered" /\ Len(l) > 0
      /\ Len(log[a]) > 0 => l[Len(l) - 1] = log[a][Len(log[a])]
      /\ Len(log[a]) > 1 => l[Len(l) - 2] = log[a][Len(log[a]) - 1]
    BY <1>2, <1>3, Grown DEF Table
<1>6. /\ t \in TurnRecord /\ t.phase = "asking" /\ t.said = 0 /\ ~ t.replied /\ t.loops = 0
    <2>1. Idle \in TurnRecord /\ Idle.said = 0 /\ ~ Idle.replied /\ Idle.loops = 0
        BY IdleIs
    <2>2. "asking" \in Phases
        BY DEF Phases
    <2> QED
        BY <2>1, <2>2 DEF TurnRecord
<1> HIDE DEF t
<1>7. AllTold(t, l, abandoned[a])
    <2>1. /\ CountIn(log[a], {"delivered"}) \in Nat
          /\ CountIn(log[a], {"completed", "alert"}) \in Nat
          /\ CountIn(l, {"delivered"}) = CountIn(log[a], {"delivered"}) + 1
          /\ CountIn(l, {"completed", "alert"}) = CountIn(log[a], {"completed", "alert"}) + 0
        BY <1>2, <1>3, Counted DEF Table
    <2>2. Runs(t)
        BY <1>6 DEF Runs
    <2> HIDE DEF l
    <2> QED
        BY <1>1, <1>2, <2>1, <2>2 DEF TurnSound, AllTold
<1> HIDE DEF l
<1>8. Answered(t)
    BY <1>6 DEF Answered
<1>9. CutNoted(t, l, m)
    <2>1. EndsWith(l, "delivered") /\ ~ EndsWith(l, "truncated")
        BY <1>5 DEF EndsWith
    <2>2. ASSUME Len(l) > 2, l[Len(l) - 1] = "completed", l[Len(l) - 2] = "truncated"
          PROVE  \E i \in DOMAIN m : m[i] = "cut"
        <3>1. Len(log[a]) \in Nat /\ Len(log[a]) > 1
            BY <1>2, <1>5, <2>2 DEF Table
        <3>2. EndsWith(memory[a], "cut")
            BY <1>1, <1>2, <1>5, <2>2, <3>1 DEF TurnSound, CutNoted
        <3>3. Len(m) \in Nat /\ Len(m) > 1 /\ m[Len(m) - 1] = "cut"
            BY <1>4, <3>2 DEF EndsWith
        <3>4. Len(m) - 1 \in DOMAIN m
            BY <3>3
        <3> QED
            BY <3>3, <3>4
    <2> QED
        BY <1>6, <2>1, <2>2 DEF CutNoted, Runs
<1>10. Table(t, l, m)
    BY <1>5, <1>6 DEF Table
<1>11. Becomes(a, t, l, m, abandoned[a])
    BY <1>1, <1>2, <1>4 DEF Becomes, l, t
<1> QED
    BY <1>2, <1>7, <1>8, <1>9, <1>10, <1>11, SoundStep DEF TurnSound

\* A step within a turn: from turn s and memory k to turn t and memory m.
Onward(s, k, t, m) ==
    /\ Runs(s) /\ Runs(t) /\ Answered(t)
    /\ t.phase = "calling" => t.calls # <<>> /\ t.loops > 0
    /\ t.phase = "asking" /\ t.loops = 0 => s.phase = "asking" /\ s.loops = 0 /\ m = k
    /\ s.phase \in {"acking", "completing"} => t.phase \in {"acking", "completing"} /\ m = k

LEMMA GoesOn ==
    ASSUME TurnInv, NEW a \in Agent, UNCHANGED <<log, abandoned>>,
           NEW t \in TurnRecord, turn' = [turn EXCEPT ![a] = t],
           NEW m \in Seq(Items), memory' = [memory EXCEPT ![a] = m],
           Onward(turn[a], memory[a], t, m)
    PROVE  TurnInv'
<1>1. /\ Table(turn[a], log[a], memory[a]) /\ abandoned[a] \in Nat
      /\ TurnSound(turn[a], log[a], memory[a], abandoned[a])
      /\ log' = [log EXCEPT ![a] = log[a]]
      /\ abandoned' = [abandoned EXCEPT ![a] = abandoned[a]]
    BY Tables
<1>2. AllTold(t, log[a], abandoned[a])
    BY <1>1 DEF TurnSound, AllTold, Onward
<1>3. CutNoted(t, log[a], m)
    <2>1. CutNoted(turn[a], log[a], memory[a])
        BY <1>1 DEF TurnSound
    <2>2. EndsWith(log[a], "truncated") => turn[a].phase \in {"acking", "completing"}
        BY <2>1 DEF CutNoted, Onward
    <2>3. t.loops \in Nat
        BY DEF TurnRecord
    <2> QED
        BY <2>1, <2>2, <2>3 DEF CutNoted, Onward
<1>4. Table(t, log[a], m)
    BY <1>1 DEF Table, Onward
<1>5. Becomes(a, t, log[a], m, abandoned[a])
    BY <1>1 DEF Becomes
<1> QED
    BY <1>1, <1>2, <1>3, <1>4, <1>5, SoundStep DEF TurnSound, Onward

\* What Tables says, for the steps that a turn goes on with.
LEMMA Now ==
    ASSUME TurnInv, NEW a \in Agent
    PROVE  /\ turn[a] \in TurnRecord /\ turn \in [Agent -> TurnRecord]
           /\ turn[a].phase = "calling" => turn[a].calls # <<>> /\ turn[a].loops > 0
           /\ Answered(turn[a])
           /\ memory[a] \in Seq(Items)
           /\ UNCHANGED memory => memory' = [memory EXCEPT ![a] = memory[a]]
BY DEF TurnInv, TurnTypes, TurnSound, CutNoted

LEMMA Counts ==
    ASSUME NEW t \in TurnRecord
    PROVE  /\ t.loops \in Nat /\ t.tries \in Nat /\ t.said \in Nat
           /\ t.loops + 1 \in Nat /\ t.loops + 1 > 0 /\ t.tries + 1 \in Nat
           /\ t.said + 1 \in Nat /\ t.said + 1 > 0
<1>1. t.loops \in Nat /\ t.tries \in Nat /\ t.said \in Nat
    BY DEF TurnRecord
<1> QED
    BY <1>1

LEMMA ThrottledSound ==
    ASSUME TurnInv, NEW a \in Agent, Throttled(a)
    PROVE  TurnInv'
<1>1. /\ turn[a].phase = "asking"
      /\ turn' = [turn EXCEPT ![a].tries = @ + 1]
      /\ UNCHANGED <<log, memory, abandoned>>
    BY DEF Throttled, Asking, In
<1>2. PICK t : t = [turn[a] EXCEPT !.tries = @ + 1]
    OBVIOUS
<1>3. turn' = [turn EXCEPT ![a] = t]
    BY <1>1, <1>2, Now
<1>4. /\ t \in TurnRecord /\ t.phase = "asking" /\ t.loops = turn[a].loops
      /\ t.replied = turn[a].replied /\ t.said = turn[a].said
    <2>1. turn[a] \in TurnRecord /\ turn[a].tries + 1 \in Nat
        BY Now, Counts
    <2> QED
        BY <1>1, <1>2, <2>1 DEF TurnRecord
<1>5. Answered(t)
    BY <1>1, <1>4, Now DEF Answered
<1>6. Onward(turn[a], memory[a], t, memory[a])
    BY <1>1, <1>4, <1>5 DEF Onward, Runs
<1> QED
    BY <1>1, <1>3, <1>4, <1>6, Now, GoesOn

LEMMA RespondSound ==
    ASSUME TurnInv, NEW a \in Agent, Respond(a)
    PROVE  TurnInv'
<1>1. turn[a].phase = "asking" /\ UNCHANGED <<log, abandoned>>
    BY DEF Respond, Asking, In
<1>2. CASE \E calls \in BoundedSeq(Tool, MaxCalls) \ {<<>>} :
              /\ turn' = [turn EXCEPT ![a].phase = "calling", ![a].calls = calls,
                                      ![a].loops = Asked(turn[a]), ![a].tries = 0]
              /\ UNCHANGED memory
    <2>1. PICK calls \in BoundedSeq(Tool, MaxCalls) \ {<<>>} :
              /\ turn' = [turn EXCEPT ![a].phase = "calling", ![a].calls = calls,
                                      ![a].loops = Asked(turn[a]), ![a].tries = 0]
              /\ UNCHANGED memory
        BY <1>2
    <2>2. calls \in Seq(Tool) /\ calls # <<>>
        BY <2>1 DEF BoundedSeq, SeqOf
    <2>3. PICK t : t = [turn[a] EXCEPT !.phase = "calling", !.calls = calls,
                                       !.loops = turn[a].loops + 1, !.tries = 0]
        OBVIOUS
    <2>4. turn' = [turn EXCEPT ![a] = t]
        BY <2>1, <2>3, Now DEF Asked
    <2>5. /\ t \in TurnRecord /\ t.phase = "calling" /\ t.loops > 0 /\ t.calls # <<>>
          /\ t.replied = turn[a].replied /\ t.said = turn[a].said
        <3>1. turn[a] \in TurnRecord /\ turn[a].loops + 1 \in Nat /\ turn[a].loops + 1 > 0
            BY Now, Counts
        <3> QED
            BY <2>2, <2>3, <3>1 DEF TurnRecord, Phases
    <2> QED
        BY <1>1, <2>1, <2>4, <2>5, Now, GoesOn DEF Onward, Runs, Answered
<1>3. CASE /\ turn' = [turn EXCEPT ![a].phase = "closing"]
           /\ \E text \in {<<>>, <<"answer">>} : AppendWorking(a, text)
    <2>1. PICK t : t = [turn[a] EXCEPT !.phase = "closing"]
        OBVIOUS
    <2>2. turn' = [turn EXCEPT ![a] = t]
        BY <1>3, <2>1, Now
    <2>3. /\ t \in TurnRecord /\ t.phase = "closing"
          /\ t.replied = turn[a].replied /\ t.said = turn[a].said
        BY <2>1, Now DEF TurnRecord, Phases
    <2>4. PICK m \in Seq(Items) : memory' = [memory EXCEPT ![a] = m]
        <3>1. PICK text \in Seq(Items) : AppendWorking(a, text)
            <4>1. <<>> \in Seq(Items) /\ <<"answer">> \in Seq(Items)
                BY DEF Items
            <4> QED
                BY <1>3, <4>1
        <3> QED
            BY <3>1, Window DEF TurnInv
    <2> QED
        BY <1>1, <2>2, <2>3, <2>4, Now, GoesOn DEF Onward, Runs, Answered
<1> QED
    BY <1>2, <1>3 DEF Respond

LEMMA GiveUpSound ==
    ASSUME TurnInv, NEW a \in Agent, GiveUp(a)
    PROVE  TurnInv'
<1>1. /\ turn[a].phase = "asking"
      /\ turn' = [turn EXCEPT ![a].phase = "closing", ![a].cut = TRUE]
      /\ UNCHANGED <<log, memory, abandoned>>
    BY DEF GiveUp, In
<1>2. PICK t : t = [turn[a] EXCEPT !.phase = "closing", !.cut = TRUE]
    OBVIOUS
<1>3. turn' = [turn EXCEPT ![a] = t]
    BY <1>1, <1>2, Now
<1>4. /\ t \in TurnRecord /\ t.phase = "closing"
      /\ t.replied = turn[a].replied /\ t.said = turn[a].said
    BY <1>1, <1>2, Now DEF TurnRecord, Phases
<1> QED
    BY <1>1, <1>3, <1>4, Now, GoesOn DEF Onward, Runs, Answered

\* The automatic answer is an answer.
LEMMA AutoAckSound ==
    ASSUME TurnInv, NEW a \in Agent, AutoAck(a)
    PROVE  TurnInv'
<1>1. /\ turn[a].phase = "acking"
      /\ turn' = [turn EXCEPT ![a].phase = "completing", ![a].said = @ + 1]
      /\ UNCHANGED <<log, memory, abandoned>>
    BY DEF AutoAck, In
<1>2. PICK t : t = [turn[a] EXCEPT !.phase = "completing", !.said = @ + 1]
    OBVIOUS
<1>3. turn' = [turn EXCEPT ![a] = t]
    BY <1>1, <1>2, Now
<1>4. t \in TurnRecord /\ t.phase = "completing" /\ t.said > 0
    <2>1. turn[a] \in TurnRecord /\ turn[a].said + 1 \in Nat /\ turn[a].said + 1 > 0
        BY Now, Counts
    <2> QED
        BY <1>1, <1>2, <2>1 DEF TurnRecord, Phases
<1> QED
    BY <1>1, <1>3, <1>4, Now, GoesOn DEF Onward, Runs, Answered

\* A tool call with its result: a reply that went well counts as an answer.
LEMMA CalledIs ==
    ASSUME NEW t \in TurnRecord, t.phase = "calling", t.calls # <<>>, t.loops > 0,
           Answered(t), NEW ok \in BOOLEAN
    PROVE  LET s == Called(t, ok)
           IN  /\ s \in TurnRecord /\ s.phase \in {"asking", "calling"} /\ s.loops > 0
               /\ s.phase = "calling" => s.calls # <<>>
               /\ Answered(s)
<1> DEFINE h == Head(t.calls)
           b == SubmitToolResult(t)
           s == Called(t, ok)
<1>1. t.calls \in Seq(Tool) /\ Len(t.calls) > 0
    BY DEF TurnRecord
<1>2. Tail(t.calls) \in Seq(Tool) /\ (Len(t.calls) # 1 => Tail(t.calls) # <<>>)
    <2> SUFFICES ASSUME NEW c \in Seq(Tool), Len(c) > 0
                 PROVE  Tail(c) \in Seq(Tool) /\ (Len(c) # 1 => Tail(c) # <<>>)
        BY <1>1
    <2>1. Tail(c) \in Seq(Tool) /\ Len(Tail(c)) = Len(c) - 1
        OBVIOUS
    <2> PICK d : d = Tail(c)
        OBVIOUS
    <2>2. d = <<>> => Len(d) = 0
        OBVIOUS
    <2> QED
        BY <2>1, <2>2
<1>3. /\ b \in TurnRecord /\ b.phase \in {"asking", "calling"} /\ b.loops > 0
      /\ b.phase = "calling" => b.calls # <<>>
      /\ b.replied = t.replied /\ b.said = t.said
    BY <1>2 DEF SubmitToolResult, TurnRecord, Phases
<1>4. PICK r : r = (t.replied \/ (t.from = "peer" /\ Answers(h, ok)))
    OBVIOUS
<1>5. PICK n : n = IF ok /\ h = "reply" THEN t.said + 1 ELSE t.said
    OBVIOUS
<1>6. s = [b EXCEPT !.replied = r, !.said = n]
    BY <1>3, <1>4, <1>5 DEF Called
<1>7. r \in BOOLEAN /\ n \in Nat /\ (r => n > 0)
    <2>1. t.replied \in BOOLEAN /\ t.said \in Nat
        BY DEF TurnRecord
    <2>2. r => t.replied \/ (ok /\ h = "reply")
        BY <1>4 DEF Answers
    <2>3. t.replied => t.said > 0
        BY DEF Answered
    <2>4. r \in BOOLEAN
        BY <1>4, <2>1 DEF Answers
    <2> HIDE DEF h
    <2> QED
        BY <1>5, <2>1, <2>2, <2>3, <2>4
<1> HIDE DEF b, s
<1>8. /\ s \in TurnRecord /\ s.phase = b.phase /\ s.loops = b.loops /\ s.calls = b.calls
      /\ s.replied = r /\ s.said = n
    BY <1>3, <1>6, <1>7 DEF TurnRecord
<1>9. Answered(s)
    BY <1>3, <1>7, <1>8 DEF Answered
<1> QED
    BY <1>3, <1>8, <1>9 DEF s

LEMMA CallsSound ==
    ASSUME TurnInv, NEW a \in Agent, NEW ok \in BOOLEAN, NEW notes \in Seq(Items),
           turn[a].phase = "calling", turn' = [turn EXCEPT ![a] = Called(@, ok)],
           AppendWorking(a, notes), UNCHANGED <<log, abandoned>>
    PROVE  TurnInv'
<1>1. PICK t : t = Called(turn[a], ok)
    OBVIOUS
<1>2. turn' = [turn EXCEPT ![a] = t]
    BY <1>1, Now
<1>3. /\ t \in TurnRecord /\ t.phase \in {"asking", "calling"} /\ t.loops > 0
      /\ t.phase = "calling" => t.calls # <<>>
      /\ Answered(t)
    BY <1>1, Now, CalledIs
<1>4. PICK m \in Seq(Items) : memory' = [memory EXCEPT ![a] = m]
    BY Window DEF TurnInv
<1>5. t.loops # 0
    BY <1>3 DEF TurnRecord
<1> QED
    BY <1>2, <1>3, <1>4, <1>5, GoesOn DEF Onward, Runs

LEMMA CallSound ==
    ASSUME TurnInv, NEW a \in Agent, Call(a)
    PROVE  TurnInv'
<1>1. PICK ok \in BOOLEAN :
         /\ turn' = [turn EXCEPT ![a] = Called(@, ok)]
         /\ \E notes \in Noted(Head(turn[a].calls), ok) : AppendWorking(a, notes)
    BY DEF Call
<1>2. turn[a].phase = "calling" /\ UNCHANGED <<log, abandoned>>
    BY DEF Call, In
<1>3. PICK notes \in Seq(Items) : AppendWorking(a, notes)
    <2>1. <<>> \in Seq(Items) /\ <<"tool">> \in Seq(Items) /\ <<"tool", "refusal">> \in Seq(Items)
        BY DEF Items
    <2>2. Noted(Head(turn[a].calls), ok) \subseteq Seq(Items)
        BY <2>1 DEF Noted
    <2> QED
        BY <1>1, <2>2
<1> QED
    BY <1>1, <1>2, <1>3, CallsSound

LEMMA CallWriteSound ==
    ASSUME TurnInv, NEW a \in Agent, CallWrite(a)
    PROVE  TurnInv'
<1>1. /\ turn[a].phase = "calling" /\ turn' = [turn EXCEPT ![a] = Called(@, TRUE)]
      /\ AppendWorking(a, <<"tool">>) /\ UNCHANGED <<log, abandoned>>
    BY DEF CallWrite, In
<1>2. <<"tool">> \in Seq(Items)
    BY DEF Items
<1> QED
    BY <1>1, <1>2, CallsSound

\* The end of a turn that is told: completed, or an alert.
LEMMA TurnOver ==
    ASSUME TurnInv, NEW a \in Agent, Runs(turn[a]),
           NEW t \in TurnRecord, turn' = [turn EXCEPT ![a] = t],
           ~ Runs(t), ~ t.replied,
           NEW x \in {"completed", "alert"}, log' = [log EXCEPT ![a] = @ \o <<x>>],
           UNCHANGED <<memory, abandoned>>
    PROVE  TurnInv'
<1>1. /\ Table(turn[a], log[a], memory[a]) /\ abandoned[a] \in Nat
      /\ TurnSound(turn[a], log[a], memory[a], abandoned[a])
      /\ memory' = [memory EXCEPT ![a] = memory[a]]
      /\ abandoned' = [abandoned EXCEPT ![a] = abandoned[a]]
    BY Tables
<1>2. log[a] \in Seq(Kinds) /\ memory[a] \in Seq(Items) /\ x \in Kinds
    BY <1>1 DEF Table, Kinds
<1>3. PICK l : l = log[a] \o <<x>>
    OBVIOUS
<1>4. log' = [log EXCEPT ![a] = l]
    BY <1>3
<1>5. /\ l \in Seq(Kinds) /\ Len(l) = Len(log[a]) + 1 /\ l[Len(l)] = x
      /\ Len(log[a]) > 0 => l[Len(l) - 1] = log[a][Len(log[a])]
    BY <1>2, <1>3, Grown
<1>6. AllTold(t, l, abandoned[a])
    <2>1. /\ CountIn(log[a], {"delivered"}) \in Nat
          /\ CountIn(log[a], {"completed", "alert"}) \in Nat
          /\ CountIn(l, {"delivered"}) = CountIn(log[a], {"delivered"}) + 0
          /\ CountIn(l, {"completed", "alert"}) = CountIn(log[a], {"completed", "alert"}) + 1
        BY <1>2, <1>3, Counted
    <2> QED
        BY <1>1, <2>1 DEF TurnSound, AllTold
<1>7. t.phase \in {"idle", "remembering"}
    BY DEF Runs
<1>8. Answered(t)
    BY <1>7 DEF Answered
<1>9. CutNoted(t, l, memory[a])
    <2>1. ASSUME Len(l) > 1, l[Len(l) - 1] = "truncated"
          PROVE  EndsWith(memory[a], "cut")
        <3>1. EndsWith(log[a], "truncated")
            BY <1>2, <1>5, <2>1 DEF EndsWith
        <3> QED
            BY <1>1, <3>1 DEF TurnSound, CutNoted
    <2> QED
        BY <1>7, <2>1 DEF CutNoted
<1>10. Table(t, l, memory[a])
    BY <1>2, <1>5, <1>7 DEF Table
<1>11. Becomes(a, t, l, memory[a], abandoned[a])
    BY <1>1, <1>4 DEF Becomes
<1> QED
    BY <1>1, <1>6, <1>8, <1>9, <1>10, <1>11, SoundStep DEF TurnSound

LEMMA FailSound ==
    ASSUME TurnInv, NEW a \in Agent, Fail(a)
    PROVE  TurnInv'
<1>1. /\ turn[a].phase = "asking" /\ turn' = [turn EXCEPT ![a] = Idle]
      /\ log' = [log EXCEPT ![a] = @ \o <<"alert">>] /\ UNCHANGED <<memory, abandoned>>
    BY DEF Fail, Asking, In, Unhealthy, Emit
<1>2. Runs(turn[a]) /\ ~ Runs(Idle)
    BY <1>1, IdleIs DEF Runs
<1> QED
    BY <1>1, <1>2, IdleIs, TurnOver

LEMMA CompleteSound ==
    ASSUME TurnInv, NEW a \in Agent, Complete(a)
    PROVE  TurnInv'
<1>1. PICK done \in BOOLEAN :
         turn' = [turn EXCEPT ![a] = [Idle EXCEPT !.phase = IF done THEN "remembering" ELSE @]]
    BY DEF Complete, DetectTaskDone
<1>2. /\ turn[a].phase = "completing"
      /\ log' = [log EXCEPT ![a] = @ \o <<"completed">>] /\ UNCHANGED <<memory, abandoned>>
    BY DEF Complete, In, Emit
<1>3. PICK t : t = [Idle EXCEPT !.phase = IF done THEN "remembering" ELSE @]
    OBVIOUS
<1>4. /\ t \in TurnRecord /\ t.phase \in {"idle", "remembering"} /\ ~ t.replied
    <2>1. "remembering" \in Phases
        BY DEF Phases
    <2> QED
        BY <1>3, <2>1, IdleIs DEF TurnRecord
<1>5. Runs(turn[a]) /\ ~ Runs(t)
    BY <1>2, <1>4 DEF Runs
<1> QED
    BY <1>1, <1>2, <1>3, <1>4, <1>5, TurnOver

\* A turn that was cut short tells it, and leaves a note.
LEMMA CloseSound ==
    ASSUME TurnInv, NEW a \in Agent, Close(a)
    PROVE  TurnInv'
<1>1. /\ turn[a].phase = "closing"
      /\ log' = [log EXCEPT ![a] = @ \o (IF turn[a].cut THEN <<"truncated">> ELSE <<>>)]
      /\ AppendWorking(a, IF turn[a].cut THEN <<"cut">> ELSE <<>>)
      /\ turn' = [turn EXCEPT ![a].phase = IF turn[a].from = "peer" /\ ~turn[a].replied
                                           THEN "acking" ELSE "completing"]
      /\ UNCHANGED abandoned
    BY DEF Close, In, Emit
<1>2. PICK t : t = [turn[a] EXCEPT !.phase = IF turn[a].from = "peer" /\ ~turn[a].replied
                                             THEN "acking" ELSE "completing"]
    OBVIOUS
<1>3. turn' = [turn EXCEPT ![a] = t]
    BY <1>1, <1>2, Now
<1>4. /\ t \in TurnRecord /\ t.phase \in {"acking", "completing"}
      /\ t.replied = turn[a].replied /\ t.said = turn[a].said
      /\ t.phase = "completing" /\ t.from = "peer" => turn[a].replied
    BY <1>2, Now DEF TurnRecord, Phases
<1>5. Answered(t)
    BY <1>4, Now DEF Answered
<1>6. /\ Table(turn[a], log[a], memory[a]) /\ abandoned[a] \in Nat
      /\ TurnSound(turn[a], log[a], memory[a], abandoned[a])
      /\ abandoned' = [abandoned EXCEPT ![a] = abandoned[a]]
      /\ log[a] \in Seq(Kinds) /\ memory[a] \in Seq(Items) /\ log \in [Agent -> Seq(Kinds)]
    BY <1>1, Tables DEF TurnInv, TurnTypes
<1>7. Runs(turn[a]) /\ Runs(t)
    BY <1>1, <1>4 DEF Runs
<1>8. CASE ~ turn[a].cut
    <2>1. AppendWorking(a, <<>>) /\ log' = [log EXCEPT ![a] = log[a] \o <<>>]
        BY <1>1, <1>8
    <2>2. log[a] \o <<>> = log[a]
        BY <1>6
    <2>3. UNCHANGED log
        BY <1>6, <2>1, <2>2
    <2>4. PICK m \in Seq(Items) : memory' = [memory EXCEPT ![a] = m]
        <3>1. <<>> \in Seq(Items)
            OBVIOUS
        <3> QED
            BY <2>1, <3>1, Window DEF TurnInv
    <2>5. Onward(turn[a], memory[a], t, m)
        BY <1>1, <1>4, <1>5, <1>7 DEF Onward
    <2> QED
        BY <1>1, <1>3, <1>4, <2>3, <2>4, <2>5, GoesOn
<1>9. CASE turn[a].cut
    <2>1. AppendWorking(a, <<"cut">>) /\ log' = [log EXCEPT ![a] = log[a] \o <<"truncated">>]
        BY <1>1, <1>9
    <2>2. PICK m \in Seq(Items) : memory' = [memory EXCEPT ![a] = m] /\ EndsWith(m, "cut")
        <3>1. <<"cut">> \in Seq(Items) /\ "cut" \in Items
            BY DEF Items
        <3>2. /\ \E w \in Seq(Items) : memory' = [memory EXCEPT ![a] = w]
              /\ Len(memory'[a]) > 0 /\ memory'[a][Len(memory'[a])] = "cut"
            BY <2>1, <3>1, Window DEF TurnInv
        <3>3. PICK w \in Seq(Items) : memory' = [memory EXCEPT ![a] = w]
            BY <3>2
        <3>4. memory'[a] = w
            BY <3>3 DEF TurnInv, TurnTypes
        <3> QED
            BY <3>2, <3>3, <3>4 DEF EndsWith
    <2>3. PICK l : l = log[a] \o <<"truncated">>
        OBVIOUS
    <2>4. "truncated" \in Kinds
        BY DEF Kinds
    <2>5. l \in Seq(Kinds) /\ Len(l) = Len(log[a]) + 1 /\ l[Len(l)] = "truncated" /\ Len(l) > 0
        BY <1>6, <2>3, <2>4, Grown
    <2>6. AllTold(t, l, abandoned[a])
        <3>1. /\ CountIn(log[a], {"delivered"}) \in Nat
              /\ CountIn(log[a], {"completed", "alert"}) \in Nat
              /\ CountIn(l, {"delivered"}) = CountIn(log[a], {"delivered"}) + 0
              /\ CountIn(l, {"completed", "alert"}) = CountIn(log[a], {"completed", "alert"}) + 0
            <4>1. PICK D, E : D = {"delivered"} /\ E = {"completed", "alert"}
                OBVIOUS
            <4>2. "truncated" \notin D /\ "truncated" \notin E
                BY <4>1
            <4>3. ASSUME NEW kinds, "truncated" \notin kinds
                  PROVE  /\ CountIn(log[a], kinds) \in Nat
                         /\ CountIn(l, kinds) = CountIn(log[a], kinds) + 0
                BY <1>6, <2>3, <2>4, <4>3, Counted
            <4>4. /\ CountIn(log[a], D) \in Nat /\ CountIn(log[a], E) \in Nat
                  /\ CountIn(l, D) = CountIn(log[a], D) + 0
                  /\ CountIn(l, E) = CountIn(log[a], E) + 0
                BY <4>2, <4>3
            <4> QED
                BY <4>1, <4>4
        <3> QED
            BY <1>6, <1>7, <3>1 DEF TurnSound, AllTold
    <2>7. CutNoted(t, l, m)
        BY <1>4, <1>7, <2>2, <2>5 DEF CutNoted, EndsWith
    <2>8. Table(t, l, m)
        BY <1>4, <2>5 DEF Table
    <2>9. Becomes(a, t, l, m, abandoned[a])
        BY <1>3, <1>6, <2>1, <2>2, <2>3 DEF Becomes
    <2> QED
        BY <1>5, <1>6, <2>6, <2>7, <2>8, <2>9, SoundStep DEF TurnSound
<1> QED
    BY <1>8, <1>9

\* A turn that is cancelled, or dies, is one of the abandoned ones.
LEMMA DropSound ==
    ASSUME NEW t, NEW l, NEW m, NEW n \in Nat, Table(t, l, m), TurnSound(t, l, m, n)
    PROVE  /\ Table(Idle, l, m)
           /\ TurnSound(Idle, l, m, IF Runs(t) THEN n + 1 ELSE n)
           /\ (IF Runs(t) THEN n + 1 ELSE n) \in Nat
<1>1. Table(Idle, l, m)
    BY IdleIs DEF Table
<1>2. ~ Runs(Idle) /\ Answered(Idle)
    BY IdleIs DEF Runs, Answered
<1>3. AllTold(Idle, l, IF Runs(t) THEN n + 1 ELSE n)
    <2>1. CountIn(l, {"completed", "alert"}) \in Nat
        <3>1. l \in Seq(Kinds) /\ "alert" \in Kinds
            BY DEF Table, Kinds
        <3> QED
            BY <3>1, Counted
    <2> QED
        BY <1>2, <2>1 DEF TurnSound, AllTold
<1>4. CutNoted(Idle, l, m)
    <2>1. Len(l) > 1 /\ l[Len(l)] = "completed" => ~ Runs(t)
        BY DEF TurnSound, CutNoted, EndsWith
    <2> QED
        BY <1>2, <2>1, IdleIs DEF TurnSound, CutNoted
<1> QED
    BY <1>1, <1>2, <1>3, <1>4 DEF TurnSound

LEMMA RemembersSound ==
    ASSUME TurnInv, NEW a \in Agent, SummarizeAndRemember(a)
    PROVE  TurnInv'
<1>1. ~ Runs(turn[a]) /\ turn' = [turn EXCEPT ![a] = Idle] /\ UNCHANGED <<log, memory, abandoned>>
    BY DEF SummarizeAndRemember, In, Runs
<1>2. /\ Table(turn[a], log[a], memory[a]) /\ abandoned[a] \in Nat
      /\ TurnSound(turn[a], log[a], memory[a], abandoned[a])
      /\ log' = [log EXCEPT ![a] = log[a]]
      /\ memory' = [memory EXCEPT ![a] = memory[a]]
      /\ abandoned' = [abandoned EXCEPT ![a] = abandoned[a]]
    BY <1>1, Tables
<1>3. Table(Idle, log[a], memory[a]) /\ TurnSound(Idle, log[a], memory[a], abandoned[a])
    BY <1>1, <1>2, DropSound
<1>4. Becomes(a, Idle, log[a], memory[a], abandoned[a])
    BY <1>1, <1>2 DEF Becomes
<1> QED
    BY <1>2, <1>3, <1>4, SoundStep

LEMMA StopSound ==
    ASSUME TurnInv, NEW a \in Agent, Stop(a)
    PROVE  TurnInv'
<1>1. /\ turn' = [turn EXCEPT ![a] = Idle] /\ UNCHANGED <<log, memory>>
      /\ abandoned' = [abandoned EXCEPT ![a] = IF Runs(turn[a]) THEN @ + 1 ELSE @]
    BY DEF Stop, Unfinished, Runs
<1>2. /\ Table(turn[a], log[a], memory[a]) /\ abandoned[a] \in Nat
      /\ TurnSound(turn[a], log[a], memory[a], abandoned[a])
      /\ log' = [log EXCEPT ![a] = log[a]]
      /\ memory' = [memory EXCEPT ![a] = memory[a]]
    BY <1>1, Tables
<1>3. PICK n : n = IF Runs(turn[a]) THEN abandoned[a] + 1 ELSE abandoned[a]
    OBVIOUS
<1>4. /\ Table(Idle, log[a], memory[a]) /\ TurnSound(Idle, log[a], memory[a], n)
      /\ n \in Nat
    BY <1>2, <1>3, DropSound
<1>5. abandoned' = [abandoned EXCEPT ![a] = n]
    BY <1>1, <1>3
<1>6. Becomes(a, Idle, log[a], memory[a], n)
    BY <1>1, <1>2, <1>5 DEF Becomes
<1> QED
    BY <1>4, <1>6, SoundStep

LEMMA CrashSound ==
    ASSUME TurnInv, Crash
    PROVE  TurnInv'
<1>1. /\ turn' = [a \in Agent |-> Idle] /\ UNCHANGED <<log, memory>>
      /\ abandoned' = [a \in Agent |-> IF Runs(turn[a]) THEN abandoned[a] + 1 ELSE abandoned[a]]
    BY DEF Crash, Unfinished, Runs
<1>2. ASSUME NEW a \in Agent
      PROVE  /\ Table(Idle, log[a], memory[a])
             /\ TurnSound(Idle, log[a], memory[a], abandoned'[a]) /\ abandoned'[a] \in Nat
    <2>1. /\ Table(turn[a], log[a], memory[a]) /\ abandoned[a] \in Nat
          /\ TurnSound(turn[a], log[a], memory[a], abandoned[a])
        BY Tables
    <2>2. abandoned'[a] = IF Runs(turn[a]) THEN abandoned[a] + 1 ELSE abandoned[a]
        BY <1>1
    <2> QED
        BY <2>1, <2>2, DropSound
<1>3. TurnTypes'
    <2>1. turn' \in [Agent -> TurnRecord] /\ \A a \in Agent : turn'[a].phase # "calling"
        BY <1>1, IdleIs
    <2>2. abandoned' \in [Agent -> Nat]
        BY <1>1, <1>2
    <2> QED
        BY <1>1, <2>1, <2>2 DEF TurnInv, TurnTypes
<1> QED
    BY <1>1, <1>2, <1>3 DEF TurnInv

LEMMA TurnInvInit ==
    ASSUME TurnInit
    PROVE  TurnInv
<1>1. /\ turn = [a \in Agent |-> Idle] /\ log = [a \in Agent |-> <<>>]
      /\ memory = [a \in Agent |-> <<>>] /\ abandoned = [a \in Agent |-> 0]
    BY DEF TurnInit
<1>2. TurnTypes
    <2>1. turn \in [Agent -> TurnRecord] /\ \A a \in Agent : turn[a].phase # "calling"
        BY <1>1, IdleIs
    <2> QED
        BY <1>1, <2>1 DEF TurnTypes
<1>3. CountIn(<<>>, {"delivered"}) = 0 /\ CountIn(<<>>, {"completed", "alert"}) = 0
    <2>1. \A kinds : {i \in DOMAIN <<>> : <<>>[i] \in kinds} = {}
        OBVIOUS
    <2> QED
        BY <2>1, FS_EmptySet DEF CountIn
<1>4. ASSUME NEW a \in Agent PROVE TurnSound(Idle, <<>>, <<>>, 0)
    <2>1. ~ Runs(Idle) /\ Answered(Idle)
        BY IdleIs DEF Runs, Answered
    <2>2. AllTold(Idle, <<>>, 0)
        BY <1>3, <2>1 DEF AllTold
    <2>3. CutNoted(Idle, <<>>, <<>>)
        <3>1. Len(<<>>) = 0
            OBVIOUS
        <3> QED
            BY <2>1, <3>1, IdleIs DEF CutNoted
    <2> QED
        BY <2>1, <2>2, <2>3 DEF TurnSound
<1> QED
    BY <1>1, <1>2, <1>4 DEF TurnInv

LEMMA TurnInvStep ==
    ASSUME TurnInv, [TurnNext]_allTurnVars
    PROVE  TurnInv'
<1>1. ASSUME NEW a \in Agent, TurnStep(a) PROVE TurnInv'
    BY <1>1, ThrottledSound, RespondSound, GiveUpSound, FailSound, CallSound, CallWriteSound,
       CloseSound, AutoAckSound, CompleteSound, RemembersSound DEF TurnStep
<1>2. CASE UNCHANGED turnVars
    <2>1. UNCHANGED <<turn, log, memory, abandoned>>
        BY <1>2 DEF turnVars
    <2> QED
        BY <2>1 DEF TurnInv, TurnTypes
<1>3. Storage \/ UNCHANGED allTurnVars => UNCHANGED turnVars
    BY DEF Storage, allTurnVars
<1> QED
    BY <1>1, <1>2, <1>3, BeginSound, StopSound, CrashSound DEF TurnNext

\* Every turn that began is told the end of, was abandoned, or runs.
THEOREM TurnsAreTold == TurnSpec => []TurnsTold
<1>1. TurnInit => TurnInv
    BY TurnInvInit
<1>2. TurnInv /\ [TurnNext]_allTurnVars => TurnInv'
    BY TurnInvStep
<1>3. TurnInv => TurnsTold
    BY DEF TurnInv, TurnSound, AllTold, CountIn, TurnsTold, Told, Unfinished, Runs
<1> QED
    BY <1>1, <1>2, <1>3, PTL DEF TurnSpec

\* No turn completes before the agent who wrote was sent a message.
THEOREM SendersAnswered == TurnSpec => []NobodyLeftWaiting
<1>1. TurnInit => TurnInv
    BY TurnInvInit
<1>2. TurnInv /\ [TurnNext]_allTurnVars => TurnInv'
    BY TurnInvStep
<1>3. TurnInv => NobodyLeftWaiting
    BY DEF TurnInv, TurnSound, Answered, NobodyLeftWaiting
<1> QED
    BY <1>1, <1>2, <1>3, PTL DEF TurnSpec

\* The turn after one that was cut short is shown the note of it.
THEOREM CutsRemembered == TurnSpec => []CutIsRemembered
<1>1. TurnInit => TurnInv
    BY TurnInvInit
<1>2. TurnInv /\ [TurnNext]_allTurnVars => TurnInv'
    BY TurnInvStep
<1>3. TurnInv => CutIsRemembered
    BY DEF TurnInv, TurnSound, CutNoted, CutIsRemembered
<1> QED
    BY <1>1, <1>2, <1>3, PTL DEF TurnSpec

-----------------------------------------------------------------------------
(* What SumOf computes.  The fold chooses an order of its own; whatever it *)
(* is, the sum of naturals is a natural, no summand exceeds it, and one    *)
(* that changes changes it by the difference.  Induction is on subsets,    *)
(* through one of least cardinality.                                       *)

LEMMA LeastNat ==
    ASSUME NEW T, T \subseteq Nat, T # {}
    PROVE  \E m \in T : \A k \in T : m <= k
<1> DEFINE R == OpToRel(<, Nat)
<1>1. IsWellFoundedOn(R, Nat)
    BY NatLessThanWellFounded
<1>2. \A x, y \in Nat : y < x => <<y, x>> \in R
    BY DEF OpToRel
<1> HIDE DEF R
<1>3. PICK x \in T : \A y \in T : ~ (<<y, x>> \in R)
    BY <1>1, WFMin
<1>4. ASSUME NEW y \in T PROVE x <= y
    <2>1. x \in Nat /\ y \in Nat
        OBVIOUS
    <2>2. ~ (y < x)
        BY <1>2, <1>3, <2>1
    <2> QED
        BY <2>1, <2>2
<1> QED
    BY <1>4

\* The element that the fold takes next.
Taken(s) == CHOOSE x \in s : TRUE

LEMMA TakenIs ==
    ASSUME NEW F, IsFiniteSet(F), NEW s \in SUBSET F, s # {}
    PROVE  /\ Taken(s) \in s /\ s \ {Taken(s)} \in SUBSET F
           /\ Cardinality(s \ {Taken(s)}) \in Nat
           /\ Cardinality(s) = Cardinality(s \ {Taken(s)}) + 1
<1>1. Taken(s) \in s
    BY DEF Taken
<1> HIDE DEF Taken
<1>2. IsFiniteSet(s)
    BY FS_Subset
<1>3. Cardinality(s \ {Taken(s)}) = Cardinality(s) - 1 /\ IsFiniteSet(s \ {Taken(s)})
    BY <1>1, <1>2, FS_RemoveElement
<1>4. Cardinality(s) \in Nat /\ Cardinality(s \ {Taken(s)}) \in Nat
    BY <1>2, <1>3, FS_CardinalityType
<1> QED
    BY <1>1, <1>3, <1>4

LEMMA SubsetInduction ==
    ASSUME NEW F, IsFiniteSet(F), NEW T, {} \in T,
           \A s \in SUBSET F : s # {} /\ s \ {Taken(s)} \in T => s \in T
    PROVE  SUBSET F \subseteq T
<1> SUFFICES ASSUME (SUBSET F) \ T # {} PROVE FALSE
    OBVIOUS
<1> DEFINE C == {Cardinality(s) : s \in (SUBSET F) \ T}
<1>1. C \subseteq Nat /\ C # {}
    <2>1. \A s \in SUBSET F : Cardinality(s) \in Nat
        BY FS_Subset, FS_CardinalityType
    <2> QED
        BY <2>1
<1>2. PICK m \in C : \A k \in C : m <= k
    <2> HIDE DEF C
    <2> QED
        BY <1>1, LeastNat
<1>3. PICK s \in (SUBSET F) \ T : m = Cardinality(s)
    OBVIOUS
<1>4. s # {}
    OBVIOUS
<1>5. /\ s \ {Taken(s)} \in SUBSET F /\ Cardinality(s \ {Taken(s)}) \in Nat
      /\ Cardinality(s) = Cardinality(s \ {Taken(s)}) + 1
    BY <1>4, TakenIs
<1>6. s \ {Taken(s)} \notin T
    BY <1>4
<1>7. Cardinality(s \ {Taken(s)}) \in C
    BY <1>5, <1>6
<1>8. m <= Cardinality(s \ {Taken(s)})
    BY <1>2, <1>7
<1> HIDE DEF C
<1> QED
    BY <1>3, <1>5, <1>8

\* The sums of f over the subsets in D.
SumTable(g, f, D) ==
    /\ g \in [D -> Nat]
    /\ \A s \in D : g[s] = IF s = {} THEN 0 ELSE f[Taken(s)] + g[s \ {Taken(s)}]

UpToSize(F, n) == {s \in SUBSET F : Cardinality(s) <= n}

LEMMA SumTableExists ==
    ASSUME NEW F, IsFiniteSet(F), NEW f \in [F -> Nat]
    PROVE  \E g : SumTable(g, f, SUBSET F)
<1> DEFINE Bad == {n \in Nat : ~ \E g : SumTable(g, f, UpToSize(F, n))}
<1>1. ASSUME NEW n \in Nat, n = 0 \/ \E g : SumTable(g, f, UpToSize(F, n - 1))
      PROVE  \E g : SumTable(g, f, UpToSize(F, n))
    <2>1. CASE n = 0
        <3>1. \A s \in UpToSize(F, 0) : s = {}
            <4> SUFFICES ASSUME NEW s \in SUBSET F, Cardinality(s) <= 0, s # {} PROVE FALSE
                BY DEF UpToSize
            <4>1. /\ Cardinality(s \ {Taken(s)}) \in Nat
                  /\ Cardinality(s) = Cardinality(s \ {Taken(s)}) + 1
                BY TakenIs
            <4> QED
                BY <4>1
        <3> DEFINE g == [s \in UpToSize(F, 0) |-> 0]
        <3>2. SumTable(g, f, UpToSize(F, 0))
            BY <3>1 DEF SumTable
        <3> QED
            BY <2>1, <3>2
    <2>2. CASE n # 0
        <3>1. PICK g : SumTable(g, f, UpToSize(F, n - 1))
            BY <1>1, <2>2
        <3> DEFINE h == [s \in UpToSize(F, n) |->
                            IF s \in UpToSize(F, n - 1) THEN g[s]
                            ELSE f[Taken(s)] + g[s \ {Taken(s)}]]
        <3>2. {} \in UpToSize(F, n - 1)
            <4>1. Cardinality({}) = 0 /\ 0 <= n - 1
                BY <2>2, FS_EmptySet
            <4> QED
                BY <4>1 DEF UpToSize
        <3>3. ASSUME NEW s \in UpToSize(F, n), s # {}
              PROVE  /\ Taken(s) \in F /\ s \ {Taken(s)} \in UpToSize(F, n - 1)
                     /\ s \ {Taken(s)} \in UpToSize(F, n)
            <4>1. s \in SUBSET F /\ Cardinality(s) <= n
                BY DEF UpToSize
            <4>2. /\ Taken(s) \in s /\ s \ {Taken(s)} \in SUBSET F
                  /\ Cardinality(s \ {Taken(s)}) \in Nat
                  /\ Cardinality(s) = Cardinality(s \ {Taken(s)}) + 1
                BY <3>3, <4>1, TakenIs
            <4>3. Cardinality(s \ {Taken(s)}) <= n - 1 /\ Cardinality(s \ {Taken(s)}) <= n
                BY <4>1, <4>2
            <4> QED
                BY <4>1, <4>2, <4>3 DEF UpToSize
        <3>4. ASSUME NEW s \in UpToSize(F, n) PROVE h[s] \in Nat
            <4>1. CASE s \in UpToSize(F, n - 1)
                BY <3>1, <4>1 DEF SumTable
            <4>2. CASE s \notin UpToSize(F, n - 1)
                <5>1. f[Taken(s)] \in Nat /\ g[s \ {Taken(s)}] \in Nat
                    BY <3>1, <3>2, <3>3, <4>2 DEF SumTable
                <5> QED
                    BY <4>2, <5>1
            <4> QED
                BY <4>1, <4>2
        <3>5. ASSUME NEW s \in UpToSize(F, n)
              PROVE  h[s] = IF s = {} THEN 0 ELSE f[Taken(s)] + h[s \ {Taken(s)}]
            <4>1. CASE s = {}
                BY <3>1, <3>2, <4>1 DEF SumTable
            <4>2. CASE s # {}
                <5>1. h[s \ {Taken(s)}] = g[s \ {Taken(s)}]
                    BY <3>3, <4>2
                <5>2. CASE s \in UpToSize(F, n - 1)
                    BY <3>1, <4>2, <5>1, <5>2 DEF SumTable
                <5>3. CASE s \notin UpToSize(F, n - 1)
                    BY <4>2, <5>1, <5>3
                <5> QED
                    BY <5>2, <5>3
            <4> QED
                BY <4>1, <4>2
        <3>6. SumTable(h, f, UpToSize(F, n))
            <4>1. h \in [UpToSize(F, n) -> Nat]
                BY <3>4
            <4> HIDE DEF h
            <4> QED
                BY <3>5, <4>1 DEF SumTable
        <3> QED
            BY <3>6
    <2> QED
        BY <2>1, <2>2
<1>2. Bad = {}
    <2> SUFFICES ASSUME Bad # {} PROVE FALSE
        OBVIOUS
    <2>1. Bad \subseteq Nat
        OBVIOUS
    <2> HIDE DEF Bad
    <2>2. PICK n \in Bad : \A k \in Bad : n <= k
        BY <2>1, LeastNat
    <2>3. n \in Nat /\ ~ \E g : SumTable(g, f, UpToSize(F, n))
        BY <2>2 DEF Bad
    <2>4. n # 0 /\ n - 1 \in Nat /\ ~ (n <= n - 1)
        BY <1>1, <2>3
    <2>5. n - 1 \in Bad
        BY <1>1, <2>3, <2>4 DEF Bad
    <2> QED
        BY <2>2, <2>4, <2>5
<1>3. SUBSET F = UpToSize(F, Cardinality(F)) /\ Cardinality(F) \in Nat
    <2>1. \A s \in SUBSET F : Cardinality(s) <= Cardinality(F)
        BY FS_Subset
    <2> QED
        BY <2>1, FS_CardinalityType DEF UpToSize
<1>4. \E g : SumTable(g, f, UpToSize(F, Cardinality(F)))
    BY <1>2, <1>3
<1> QED
    BY <1>3, <1>4

\* The fold's table is one of these, and the sum its last entry.
LEMMA SumIsTable ==
    ASSUME NEW F, IsFiniteSet(F), NEW f \in [F -> Nat]
    PROVE  \E g : SumTable(g, f, SUBSET F) /\ SumOf(f) = g[F]
<1> DEFINE Def(g) == [s \in SUBSET F |-> IF s = {} THEN 0
                                         ELSE f[Taken(s)] + g[s \ {Taken(s)}]]
           C == CHOOSE g : g = Def(g)
<1>1. SumOf(f) = C[F]
    BY DEF SumOf, FoldFunction, FoldFunctionOnSet, MapThenFoldSet, Taken
<1>2. PICK g : SumTable(g, f, SUBSET F)
    BY SumTableExists
<1>3. g = Def(g)
    BY <1>2 DEF SumTable
<1>4. C = Def(C)
    <2> HIDE DEF Def
    <2> QED
        BY <1>3
<1> HIDE DEF C
<1>5. \A s \in SUBSET F : C[s] = IF s = {} THEN 0 ELSE f[Taken(s)] + C[s \ {Taken(s)}]
    <2>1. \A s \in SUBSET F : C[s] = Def(C)[s]
        BY <1>4
    <2> QED
        BY <2>1
<1>6. \A s \in SUBSET F : C[s] \in Nat
    <2> DEFINE T == {s \in SUBSET F : C[s] \in Nat}
    <2>1. {} \in T
        BY <1>5
    <2>2. ASSUME NEW s \in SUBSET F, s # {}, s \ {Taken(s)} \in T PROVE s \in T
        <3>1. f[Taken(s)] \in Nat /\ C[s \ {Taken(s)}] \in Nat
            <4>1. Taken(s) \in F
                BY <2>2, TakenIs
            <4> QED
                BY <2>2, <4>1
        <3> QED
            BY <1>5, <2>2, <3>1
    <2> HIDE DEF T
    <2>3. SUBSET F \subseteq T
        BY <2>1, <2>2, SubsetInduction
    <2> QED
        BY <2>3 DEF T
<1>7. C \in [SUBSET F -> Nat]
    <2>1. Def(C) = [s \in SUBSET F |-> Def(C)[s]]
        OBVIOUS
    <2>2. C = [s \in SUBSET F |-> C[s]]
        BY <1>4, <2>1
    <2> QED
        BY <1>6, <2>2
<1>8. SumTable(C, f, SUBSET F)
    BY <1>5, <1>7 DEF SumTable
<1> QED
    BY <1>1, <1>8

\* One summand may change, from f to h.
LEMMA SumChanges ==
    ASSUME NEW F, IsFiniteSet(F), NEW f \in [F -> Nat], NEW h \in [F -> Nat],
           NEW x \in F, \A y \in F : y # x => f[y] = h[y]
    PROVE  /\ SumOf(f) \in Nat /\ SumOf(h) \in Nat
           /\ f[x] <= SumOf(f) /\ SumOf(f) + h[x] = SumOf(h) + f[x]
<1>1. PICK A : SumTable(A, f, SUBSET F) /\ SumOf(f) = A[F]
    BY SumIsTable
<1>2. PICK B : SumTable(B, h, SUBSET F) /\ SumOf(h) = B[F]
    BY SumIsTable
<1> DEFINE T == {s \in SUBSET F : IF x \in s THEN f[x] <= A[s] /\ A[s] + h[x] = B[s] + f[x]
                                  ELSE A[s] = B[s]}
<1>3. {} \in T
    BY <1>1, <1>2 DEF SumTable
<1>4. ASSUME NEW s \in SUBSET F, s # {}, s \ {Taken(s)} \in T PROVE s \in T
    <2>1. Taken(s) \in s /\ s \ {Taken(s)} \in SUBSET F
        BY <1>4, TakenIs
    <2>2. PICK y \in F, r \in SUBSET F : y = Taken(s) /\ r = s \ {y} /\ r \in T
        BY <1>4, <2>1
    <2>3. A[s] = f[y] + A[r] /\ B[s] = h[y] + B[r]
        BY <1>1, <1>2, <1>4, <2>2 DEF SumTable
    <2>4. A[r] \in Nat /\ B[r] \in Nat /\ f[y] \in Nat /\ h[y] \in Nat /\ f[x] \in Nat /\ h[x] \in Nat
        BY <1>1, <1>2 DEF SumTable
    <2>5. y \in s /\ (y = x \/ f[y] = h[y])
        BY <2>1, <2>2
    <2>6. CASE y = x
        <3>1. A[r] = B[r]
            BY <2>2, <2>6
        <3> QED
            BY <2>3, <2>4, <2>5, <2>6, <3>1
    <2>7. CASE y # x /\ x \in s
        <3>1. f[x] <= A[r] /\ A[r] + h[x] = B[r] + f[x]
            BY <2>2, <2>7
        <3> QED
            BY <2>3, <2>4, <2>5, <2>7, <3>1
    <2>8. CASE x \notin s
        <3>1. A[r] = B[r]
            BY <2>2, <2>8
        <3> QED
            BY <2>3, <2>4, <2>5, <2>8, <3>1
    <2> QED
        BY <2>6, <2>7, <2>8
<1> HIDE DEF T
<1>5. SUBSET F \subseteq T
    BY <1>3, <1>4, SubsetInduction
<1>6. f[x] <= A[F] /\ A[F] + h[x] = B[F] + f[x]
    BY <1>5 DEF T
<1>7. A[F] \in Nat /\ B[F] \in Nat
    BY <1>1, <1>2 DEF SumTable
<1> QED
    BY <1>1, <1>2, <1>6, <1>7

\* No files, no bytes.
LEMMA SumOfNothing ==
    ASSUME NEW F, IsFiniteSet(F), NEW f \in [F -> Nat], \A x \in F : f[x] = 0
    PROVE  SumOf(f) = 0
<1>1. PICK A : SumTable(A, f, SUBSET F) /\ SumOf(f) = A[F]
    BY SumIsTable
<1> DEFINE T == {s \in SUBSET F : A[s] = 0}
<1>2. {} \in T
    BY <1>1 DEF SumTable
<1>3. ASSUME NEW s \in SUBSET F, s # {}, s \ {Taken(s)} \in T PROVE s \in T
    <2>1. f[Taken(s)] = 0 /\ A[s \ {Taken(s)}] = 0
        BY <1>3, TakenIs
    <2> QED
        BY <1>1, <1>3, <2>1 DEF SumTable
<1> HIDE DEF T
<1>4. SUBSET F \subseteq T
    BY <1>2, <1>3, SubsetInduction
<1> QED
    BY <1>1, <1>4 DEF T

-----------------------------------------------------------------------------
(* The files and the books.                                                *)

Booking == [owner : Owner, booked : Int]

\* What the books of w will tell once the write under way has committed.
Settled(w) == IF writing # None /\ writing.owner = w THEN writing.booked ELSE used[w]

BooksInv ==
    /\ disk \in [Owner -> [File -> Nat]]
    /\ used \in [Owner -> Int]
    /\ writing \in Booking \cup {None}
    /\ \A w \in Owner \ torn : Settled(w) = OnDisk(w)

LEMMA Files == IsFiniteSet(File) /\ None \notin Booking
BY WorkspaceConstants DEF WorkspaceConstants, Booking

LEMMA DiskSums ==
    ASSUME BooksInv, NEW w \in Owner
    PROVE  OnDisk(w) \in Nat /\ \A f \in File : disk[w][f] \in Nat /\ disk[w][f] <= OnDisk(w)
<1>1. disk[w] \in [File -> Nat]
    BY DEF BooksInv
<1>2. PICK d \in [File -> Nat] : d = disk[w]
    BY <1>1
<1>3. ASSUME NEW f \in File PROVE SumOf(d) \in Nat /\ d[f] <= SumOf(d)
    BY Files, SumChanges
<1>4. SumOf(d) \in Nat
    <2>1. CASE File = {}
        <3>1. SumOf(d) = 0
            BY <2>1, Files, SumOfNothing
        <3> QED
            BY <3>1
    <2>2. CASE File # {}
        BY <1>3, <2>2
    <2> QED
        BY <2>1, <2>2
<1> QED
    BY <1>2, <1>3, <1>4 DEF OnDisk

\* A file is replaced or removed, and the booking that is to follow fits it.
LEMMA FileChanges ==
    ASSUME BooksInv, writing = None, NEW w \in Owner, NEW f \in File, NEW size \in Nat,
           disk' = [disk EXCEPT ![w][f] = size], UNCHANGED <<used, torn>>,
           NEW n \in Int, writing' = [owner |-> w, booked |-> n],
           w \notin torn => n = OnDisk(w) + (size - disk[w][f])
    PROVE  BooksInv'
<1>1. disk \in [Owner -> [File -> Nat]] /\ used \in [Owner -> Int]
      /\ \A v \in Owner \ torn : used[v] = OnDisk(v)
    BY DEF BooksInv, Settled
<1>2. PICK d \in [File -> Nat] : d = disk[w]
    BY <1>1
<1>3. PICK e \in [File -> Nat] : e = [d EXCEPT ![f] = size]
    OBVIOUS
<1>4. disk' = [disk EXCEPT ![w] = e]
    BY <1>1, <1>2, <1>3
<1>5. disk' \in [Owner -> [File -> Nat]] /\ disk'[w] = e
      /\ \A v \in Owner : v # w => disk'[v] = disk[v]
    BY <1>1, <1>4
<1>6. writing' \in Booking /\ writing' # None /\ writing'.owner = w /\ writing'.booked = n
    BY Files DEF Booking
<1>7. SumOf(e) = SumOf(d) + (size - d[f])
    <2>1. /\ SumOf(d) \in Nat /\ SumOf(e) \in Nat
          /\ SumOf(d) + e[f] = SumOf(e) + d[f]
        <3>1. \A y \in File : y # f => d[y] = e[y]
            BY <1>3
        <3> QED
            BY <3>1, Files, SumChanges
    <2>2. e[f] = size /\ d[f] \in Nat
        BY <1>3
    <2> QED
        BY <2>1, <2>2
<1>8. ASSUME NEW v \in Owner \ torn' PROVE Settled(v)' = OnDisk(v)'
    <2>1. CASE v = w
        <3>1. n = SumOf(e)
            BY <1>2, <1>7, <2>1 DEF OnDisk
        <3> QED
            BY <1>5, <1>6, <2>1, <3>1 DEF Settled, OnDisk
    <2>2. CASE v # w
        BY <1>1, <1>5, <1>6, <2>2 DEF Settled, OnDisk
    <2> QED
        BY <2>1, <2>2
<1> QED
    BY <1>1, <1>5, <1>6, <1>8 DEF BooksInv

LEMMA ReplaceBooks ==
    ASSUME BooksInv, NEW w \in Owner, NEW f \in File, NEW size \in 0 .. MaxSize, Replace(w, f, size)
    PROVE  BooksInv'
<1>1. /\ writing = None /\ disk' = [disk EXCEPT ![w][f] = size] /\ UNCHANGED <<used, torn>>
      /\ writing' = [owner |-> w, booked |-> used[w] + (size - disk[w][f])]
    BY DEF Replace, Growth
<1>2. size \in Nat /\ used[w] \in Int /\ disk[w][f] \in Nat
    BY DEF BooksInv
<1>3. PICK n \in Int : n = used[w] + (size - disk[w][f])
    BY <1>2
<1>4. w \notin torn => n = OnDisk(w) + (size - disk[w][f])
    BY <1>1, <1>3 DEF BooksInv, Settled
<1> QED
    BY <1>1, <1>2, <1>3, <1>4, FileChanges

LEMMA UnlinkBooks ==
    ASSUME BooksInv, NEW w \in Owner, NEW f \in File, Unlink(w, f)
    PROVE  BooksInv'
<1>1. /\ writing = None /\ disk' = [disk EXCEPT ![w][f] = 0] /\ UNCHANGED <<used, torn>>
      /\ writing' = [owner |-> w,
                     booked |-> IF used[w] > disk[w][f] THEN used[w] - disk[w][f] ELSE 0]
    BY DEF Unlink
<1>2. used[w] \in Int /\ disk[w][f] \in Nat /\ disk[w][f] <= OnDisk(w) /\ OnDisk(w) \in Nat
    BY DiskSums DEF BooksInv
<1>3. PICK n \in Int : n = IF used[w] > disk[w][f] THEN used[w] - disk[w][f] ELSE 0
    BY <1>2
<1>4. w \notin torn => n = OnDisk(w) + (0 - disk[w][f])
    <2>1. w \notin torn => used[w] = OnDisk(w)
        BY <1>1 DEF BooksInv, Settled
    <2> QED
        BY <1>2, <1>3, <2>1
<1> QED
    BY <1>1, <1>3, <1>4, FileChanges

LEMMA CommitBooks ==
    ASSUME BooksInv, Commit
    PROVE  BooksInv'
<1>1. /\ writing \in Booking /\ writing' = None /\ UNCHANGED <<disk, torn>>
      /\ used' = [used EXCEPT ![writing.owner] = writing.booked]
    BY DEF BooksInv, Commit
<1>2. writing.owner \in Owner /\ writing.booked \in Int
    BY <1>1 DEF Booking
<1>3. used' \in [Owner -> Int]
    BY <1>1, <1>2 DEF BooksInv
<1>4. ASSUME NEW w \in Owner \ torn PROVE Settled(w)' = OnDisk(w)'
    <2>1. Settled(w) = OnDisk(w) /\ writing # None
        BY <1>1, Files DEF BooksInv
    <2>2. used'[w] = Settled(w)
        BY <1>1, <1>2, <2>1 DEF BooksInv, Settled
    <2> QED
        BY <1>1, <2>1, <2>2 DEF Settled, OnDisk
<1> QED
    BY <1>1, <1>3, <1>4 DEF BooksInv

LEMMA ReconcileBooks ==
    ASSUME BooksInv, ReconcileQuota
    PROVE  BooksInv'
<1>1. /\ writing = None /\ UNCHANGED <<disk, writing>> /\ used' = [w \in Owner |-> OnDisk(w)]
    BY DEF ReconcileQuota
<1>2. \A w \in Owner : OnDisk(w) \in Nat
    BY DiskSums
<1>3. used' \in [Owner -> Int]
    BY <1>1, <1>2
<1>4. ASSUME NEW w \in Owner PROVE Settled(w)' = OnDisk(w)'
    BY <1>1 DEF Settled, OnDisk
<1> QED
    BY <1>1, <1>3, <1>4 DEF BooksInv

\* A crash inside a write leaves its workspace torn.
LEMMA TearBooks ==
    ASSUME BooksInv, Tear
    PROVE  BooksInv'
<1>1. /\ writing' = None /\ UNCHANGED <<disk, used>>
      /\ torn' = IF writing = None THEN torn ELSE torn \cup {writing.owner}
    BY DEF Tear
<1>2. ASSUME NEW w \in Owner \ torn' PROVE Settled(w)' = OnDisk(w)'
    <2>1. w \notin torn /\ Settled(w) = used[w]
        BY <1>1 DEF Settled
    <2> QED
        BY <1>1, <2>1 DEF BooksInv, Settled, OnDisk
<1> QED
    BY <1>1, <1>2 DEF BooksInv

LEMMA BooksUntouched ==
    ASSUME BooksInv, UNCHANGED <<disk, used, writing, torn>>
    PROVE  BooksInv'
BY DEF BooksInv, Settled, OnDisk

LEMMA BooksInit ==
    ASSUME WsInit
    PROVE  BooksInv
<1>1. /\ disk = [w \in Owner |-> [f \in File |-> 0]] /\ used = [w \in Owner |-> 0]
      /\ writing = None
    BY DEF WsInit
<1>2. PICK d \in [File -> Nat] : d = [f \in File |-> 0]
    OBVIOUS
<1>3. SumOf(d) = 0
    BY <1>2, Files, SumOfNothing
<1>4. \A w \in Owner : Settled(w) = OnDisk(w)
    BY <1>1, <1>2, <1>3 DEF Settled, OnDisk
<1> QED
    BY <1>1, <1>4 DEF BooksInv

LEMMA BooksStep ==
    ASSUME BooksInv, [TurnNext]_allTurnVars
    PROVE  BooksInv'
<1>1. CASE UNCHANGED wsVars
    BY <1>1, BooksUntouched DEF wsVars
<1>2. ASSUME NEW a \in Agent, TurnStep(a) PROVE BooksInv'
    <2>1. CASE CallWrite(a)
        <3>1. PICK f \in File, size \in 0 .. MaxSize : Replace(a, f, size)
            BY <2>1 DEF CallWrite
        <3>2. a \in Owner
            BY TurnConstants DEF TurnConstants
        <3> QED
            BY <3>1, <3>2, ReplaceBooks
    <2>2. CASE ~ CallWrite(a)
        <3>1. UNCHANGED wsVars
            BY <1>2, <2>2 DEF TurnStep, Throttled, Respond, GiveUp, Fail, Call, Close, AutoAck,
               Complete, SummarizeAndRemember
        <3> QED
            BY <1>1, <3>1
    <2> QED
        BY <2>1, <2>2
<1>3. CASE Storage
    <2>1. CASE UpdateDiskQuota
        BY <2>1, BooksUntouched DEF UpdateDiskQuota
    <2>2. CASE \E w \in Owner, f \in File :
                  \/ Unlink(w, f)
                  \/ w \notin Agent /\ \E size \in 0 .. MaxSize : Replace(w, f, size)
        BY <2>2, ReplaceBooks, UnlinkBooks
    <2> QED
        BY <1>3, <2>1, <2>2, CommitBooks, ReconcileBooks DEF Storage
<1>4. CASE Crash
    BY <1>4, TearBooks DEF Crash
<1>5. ASSUME NEW a \in Agent, Begin(a, "peer") \/ Begin(a, "system") \/ Stop(a)
      PROVE  BooksInv'
    <2>1. UNCHANGED wsVars
        BY <1>5 DEF Begin, Stop
    <2> QED
        BY <1>1, <2>1
<1>6. UNCHANGED allTurnVars => UNCHANGED wsVars
    BY DEF allTurnVars
<1> QED
    BY <1>1, <1>2, <1>3, <1>4, <1>5, <1>6 DEF TurnNext

\* The books of every workspace without a torn file tell what is on disk.
THEOREM BooksAreKept == TurnSpec => []BooksMatchDisk
<1>1. TurnInit => BooksInv
    BY BooksInit DEF TurnInit
<1>2. BooksInv /\ [TurnNext]_allTurnVars => BooksInv'
    BY BooksStep
<1>3. BooksInv => BooksMatchDisk
    BY DEF BooksInv, Settled, BooksMatchDisk
<1> QED
    BY <1>1, <1>2, <1>3, PTL DEF TurnSpec

-----------------------------------------------------------------------------
(* Messages: sequences of distinct numbers.                                *)

\* s lists the members of S, each once.
Lists(s, S) ==
    /\ s \in Seq(Nat)
    /\ \A i, j \in 1 .. Len(s) : s[i] = s[j] => i = j
    /\ S = {s[i] : i \in 1 .. Len(s)}

LEMMA ListsNone == Lists(<<>>, {})
<1>1. <<>> \in Seq(Nat) /\ Len(<<>>) = 0 /\ 1 .. 0 = {}
    OBVIOUS
<1>2. {<<>>[i] : i \in 1 .. 0} = {}
    BY <1>1
<1> QED
    BY <1>1, <1>2 DEF Lists

LEMMA ListsAppend ==
    ASSUME NEW s, NEW S, Lists(s, S), NEW m \in Nat, m \notin S
    PROVE  Lists(Append(s, m), S \cup {m})
<1>1. s \in Seq(Nat)
    BY DEF Lists
<1>2. PICK t : t = Append(s, m)
    OBVIOUS
<1>3. PICK n \in Nat : n = Len(s)
    BY <1>1
<1>4. /\ t \in Seq(Nat) /\ Len(t) = n + 1 /\ t[n + 1] = m
      /\ \A i \in 1 .. n : t[i] = s[i]
    BY <1>1, <1>2, <1>3
<1>5. \A i \in 1 .. n + 1 : i \in 1 .. n \/ i = n + 1
    OBVIOUS
<1>6. \A i, j \in 1 .. n : s[i] = s[j] => i = j
    BY <1>3 DEF Lists
<1>7. S = {s[i] : i \in 1 .. n}
    BY <1>3 DEF Lists
<1>8. \A i, j \in 1 .. n + 1 : t[i] = t[j] => i = j
    <2>1. \A i \in 1 .. n : t[i] # m
        BY <1>4, <1>7
    <2> QED
        BY <1>4, <1>5, <1>6, <2>1
<1>9. S \cup {m} = {t[i] : i \in 1 .. n + 1}
    <2>1. n + 1 \in 1 .. n + 1 /\ \A i \in 1 .. n : i \in 1 .. n + 1
        OBVIOUS
    <2> QED
        BY <1>4, <1>5, <1>7, <2>1
<1> QED
    BY <1>2, <1>4, <1>8, <1>9 DEF Lists

LEMMA ListsTail ==
    ASSUME NEW s, NEW S, Lists(s, S), s # <<>>
    PROVE  Head(s) \in S /\ Lists(Tail(s), S \ {Head(s)})
<1>1. s \in Seq(Nat) /\ Len(s) > 0
    BY DEF Lists
<1>2. PICK t : t = Tail(s)
    OBVIOUS
<1>3. PICK n \in Nat : n = Len(s)
    BY <1>1
<1>4. /\ t \in Seq(Nat) /\ Len(t) = n - 1 /\ Head(s) = s[1]
      /\ \A i \in 1 .. n - 1 : t[i] = s[i + 1]
    BY <1>1, <1>2, <1>3
<1>5. \A i \in 1 .. n : i = 1 \/ (i - 1 \in 1 .. n - 1 /\ (i - 1) + 1 = i)
    OBVIOUS
<1>6. \A i, j \in 1 .. n : s[i] = s[j] => i = j
    BY <1>3 DEF Lists
<1>7. S = {s[i] : i \in 1 .. n}
    BY <1>3 DEF Lists
<1>8. \A i \in 1 .. n - 1 : i + 1 \in 1 .. n /\ i + 1 # 1
    OBVIOUS
<1>9. 1 \in 1 .. n
    BY <1>1, <1>3
<1>10. \A i, j \in 1 .. n - 1 : t[i] = t[j] => i = j
    <2> SUFFICES ASSUME NEW i \in 1 .. n - 1, NEW j \in 1 .. n - 1, t[i] = t[j] PROVE i = j
        OBVIOUS
    <2>1. s[i + 1] = s[j + 1]
        BY <1>4
    <2>2. i + 1 = j + 1
        BY <1>6, <1>8, <2>1
    <2> QED
        BY <2>2
<1>11. S \ {s[1]} = {t[i] : i \in 1 .. n - 1}
    <2>1. ASSUME NEW x \in S \ {s[1]} PROVE \E i \in 1 .. n - 1 : x = t[i]
        <3>1. PICK i \in 1 .. n : x = s[i]
            BY <1>7
        <3>2. i # 1
            BY <3>1
        <3>3. i - 1 \in 1 .. n - 1 /\ (i - 1) + 1 = i
            BY <1>5, <3>2
        <3>4. t[i - 1] = x
            BY <1>4, <3>1, <3>3
        <3> QED
            BY <3>3, <3>4
    <2>2. ASSUME NEW i \in 1 .. n - 1 PROVE t[i] \in S \ {s[1]}
        <3>1. t[i] = s[i + 1] /\ s[i + 1] \in S /\ s[i + 1] # s[1]
            BY <1>4, <1>6, <1>7, <1>8, <1>9
        <3> QED
            BY <3>1
    <2> QED
        BY <2>1, <2>2
<1>12. Lists(t, S \ {s[1]})
    <2> PICK k : k = n - 1
        OBVIOUS
    <2>1. /\ t \in Seq(Nat) /\ Len(t) = k
          /\ \A i, j \in 1 .. k : t[i] = t[j] => i = j
          /\ S \ {s[1]} = {t[i] : i \in 1 .. k}
        BY <1>4, <1>10, <1>11
    <2> QED
        BY <2>1 DEF Lists
<1>13. s[1] \in S
    BY <1>7, <1>9
<1> QED
    BY <1>2, <1>4, <1>12, <1>13

\* Going back, behind the others.
LEMMA ListsTurned ==
    ASSUME NEW s, NEW S, Lists(s, S), s # <<>>
    PROVE  Lists(Append(Tail(s), Head(s)), S)
<1>1. Head(s) \in S /\ Lists(Tail(s), S \ {Head(s)})
    BY ListsTail
<1>2. Head(s) \in Nat
    <2>1. s \in Seq(Nat)
        BY DEF Lists
    <2> QED
        BY <2>1
<1>3. Lists(Append(Tail(s), Head(s)), (S \ {Head(s)}) \cup {Head(s)})
    BY <1>1, <1>2, ListsAppend
<1>4. (S \ {Head(s)}) \cup {Head(s)} = S
    BY <1>1
<1> QED
    BY <1>3, <1>4

LEMMA ListsShort ==
    ASSUME NEW s, NEW S, Lists(s, S), NEW n \in Nat, S \subseteq 1 .. n
    PROVE  Len(s) \in Nat /\ Len(s) <= n
<1>1. s \in Seq(Nat) /\ Len(s) \in Nat
    BY DEF Lists
<1>2. PICK f : f = [i \in 1 .. Len(s) |-> s[i]]
    OBVIOUS
<1>3. f \in [1 .. Len(s) -> 1 .. n] /\ \A i, j \in 1 .. Len(s) : f[i] = f[j] => i = j
    BY <1>2 DEF Lists
<1>4. f \in Injection(1 .. Len(s), 1 .. n)
    BY <1>3 DEF Injection, IsInjective
<1>5. /\ IsFiniteSet(1 .. n) /\ Cardinality(1 .. n) = n
      /\ Cardinality(1 .. Len(s)) = Len(s)
    <2>1. \A k \in Nat : IsFiniteSet(1 .. k) /\ Cardinality(1 .. k) = k
        BY FS_Interval
    <2> QED
        BY <1>1, <2>1
<1>6. Cardinality(1 .. Len(s)) <= Cardinality(1 .. n)
    BY <1>4, <1>5, FS_Injection
<1> QED
    BY <1>1, <1>5, <1>6

-----------------------------------------------------------------------------
(* Messages: where each of them is.                                        *)

Env == [id : Ids, correlation : Correlations \cup {NoCorrelation},
        attempts : 0 .. MAX_ATTEMPTS - 1]

MsgTypes ==
    /\ clock \in {"running", "pausing", "paused"}
    /\ active \subseteq registered /\ served \subseteq registered /\ registered \subseteq Agents
    /\ suspended \subseteq Agents
    /\ strikes \in [Agents -> 0 .. LoopStrikes]
    /\ accepted \in 0 .. MaxMessages
    /\ queue \in [Agents -> Seq(Env)]
    /\ inbox \in [Agents -> Seq(Ids)]
    /\ seen \in [Agents -> SUBSET Correlations]
    /\ status \in [Agents -> AgentStatus]
    /\ work \in [Agents -> {0} \cup Ids]
    /\ dead \subseteq Agents
    /\ settled \subseteq Ids /\ dlq \subseteq Ids

\* The numbers in a queue.
Numbers(q) == [i \in 1 .. Len(q) |-> q[i].id]

\* t is s and, behind it, x.
Longer(t, s, x) ==
    /\ t = Append(s, x) /\ Len(t) = Len(s) + 1 /\ t[Len(s) + 1] = x
    /\ \A i \in 1 .. Len(s) : t[i] = s[i]

LEMMA Appended ==
    ASSUME NEW S, NEW s \in Seq(S), NEW x \in S
    PROVE  \E t \in Seq(S) : Longer(t, s, x)
<1>1. PICK t : t = Append(s, x)
    OBVIOUS
<1>2. t \in Seq(S)
    BY <1>1
<1>3. Len(t) = Len(s) + 1 /\ t[Len(s) + 1] = x /\ \A i \in 1 .. Len(s) : t[i] = s[i]
    BY <1>1
<1> QED
    BY <1>1, <1>2, <1>3 DEF Longer

LEMMA NumbersAre ==
    ASSUME NEW q \in Seq(Env)
    PROVE  /\ Numbers(q) \in Seq(Nat) /\ Len(Numbers(q)) = Len(q)
           /\ \A i \in 1 .. Len(q) : Numbers(q)[i] = q[i].id
           /\ \A e \in Env : Numbers(Append(q, e)) = Append(Numbers(q), e.id)
           /\ q # <<>> => /\ Head(q) \in Env /\ Tail(q) \in Seq(Env)
                          /\ Numbers(q) # <<>> /\ Head(Numbers(q)) = Head(q).id
                          /\ Numbers(Tail(q)) = Tail(Numbers(q))
<1>1. \A e \in Env : e.id \in Nat
    BY DEF Env, Ids
<1>2. PICK n \in Nat : n = Len(q)
    OBVIOUS
<1>3. \A i \in 1 .. n : q[i] \in Env
    BY <1>2
<1>4. PICK s : s = Numbers(q)
    OBVIOUS
<1>5. s \in Seq(Nat) /\ Len(s) = n /\ \A i \in 1 .. n : s[i] = q[i].id
    BY <1>1, <1>2, <1>3, <1>4 DEF Numbers
<1>6. ASSUME NEW e \in Env PROVE Numbers(Append(q, e)) = Append(s, e.id)
    <2>1. PICK r \in Seq(Env) : Longer(r, q, e)
        BY Appended
    <2>2. /\ r = Append(q, e) /\ Len(r) = n + 1 /\ r[n + 1] = e
          /\ \A i \in 1 .. n : r[i] = q[i]
        BY <1>2, <2>1 DEF Longer
    <2>3. PICK t \in Seq(Nat) : Longer(t, s, e.id)
        <3>1. s \in Seq(Nat) /\ e.id \in Nat
            BY <1>1, <1>5
        <3> QED
            BY <3>1, Appended
    <2>4. /\ t = Append(s, e.id) /\ Len(t) = n + 1 /\ t[n + 1] = e.id
          /\ \A i \in 1 .. n : t[i] = s[i]
        BY <1>5, <2>3 DEF Longer
    <2>5. \A i \in 1 .. n + 1 : t[i] = r[i].id
        <3>1. \A i \in 1 .. n + 1 : i = n + 1 \/ i \in 1 .. n
            OBVIOUS
        <3> QED
            BY <1>5, <2>2, <2>4, <3>1
    <2>6. t = [i \in 1 .. n + 1 |-> t[i]]
        BY <2>4
    <2>7. t = [i \in 1 .. n + 1 |-> r[i].id]
        BY <2>5, <2>6
    <2> QED
        BY <2>2, <2>4, <2>7 DEF Numbers
<1>7. ASSUME q # <<>>
      PROVE  /\ Head(q) \in Env /\ Tail(q) \in Seq(Env)
             /\ s # <<>> /\ Head(s) = Head(q).id
             /\ Numbers(Tail(q)) = Tail(s)
    <2>1. n > 0 /\ 1 \in 1 .. n
        BY <1>2, <1>7
    <2>2. Head(q) = q[1] /\ Head(q) \in Env
        BY <1>2, <1>3, <2>1
    <2>3. s # <<>> /\ Head(s) = s[1]
        BY <1>5, <2>1
    <2>4. PICK r : r = Tail(q)
        OBVIOUS
    <2>5. r \in Seq(Env) /\ Len(r) = n - 1 /\ \A i \in 1 .. n - 1 : r[i] = q[i + 1]
        BY <1>2, <2>1, <2>4
    <2>6. PICK t : t = Tail(s)
        OBVIOUS
    <2>7. t \in Seq(Nat) /\ Len(t) = n - 1 /\ \A i \in 1 .. n - 1 : t[i] = s[i + 1]
        BY <1>5, <2>1, <2>6
    <2>8. \A i \in 1 .. n - 1 : t[i] = r[i].id
        <3>1. \A i \in 1 .. n - 1 : i + 1 \in 1 .. n
            OBVIOUS
        <3> QED
            BY <1>5, <2>5, <2>7, <3>1
    <2>9. t = [i \in 1 .. n - 1 |-> t[i]]
        BY <2>7
    <2>10. t = [i \in 1 .. n - 1 |-> r[i].id]
        BY <2>8, <2>9
    <2> QED
        BY <1>5, <2>1, <2>2, <2>3, <2>4, <2>5, <2>6, <2>10 DEF Numbers
<1> QED
    BY <1>2, <1>4, <1>5, <1>6, <1>7

PlaceNames == {"queue", "inbox", "work", "settled", "dlq"}

\* The messages of agent a that are at place k; to and place say which is where.
At(n, to, place, a, k) == {m \in 1 .. n : to[m] = a /\ place[m] = k}

\* Messages 1 .. n are each at one place of the agent that they are for.
Placed(n, to, place) ==
    /\ to \in [1 .. n -> Agents] /\ place \in [1 .. n -> PlaceNames]
    /\ \A a \in Agents :
          /\ Lists(Numbers(queue[a]), At(n, to, place, a, "queue"))
          /\ Lists(inbox[a], At(n, to, place, a, "inbox"))
          /\ {work[a]} \ {0} = At(n, to, place, a, "work")
    /\ settled = {m \in 1 .. n : place[m] = "settled"}
    /\ dlq = {m \in 1 .. n : place[m] = "dlq"}

EachPlaced == \E n, to, place : n = accepted /\ Placed(n, to, place)

\* Who is not registered has no messages, a paused company neither, and an agent
\* at work says so.
Quiet ==
    /\ \A a \in Agents : work[a] # 0 => status[a] = "working"
    /\ \A a \in Agents \ registered : queue[a] = <<>> /\ inbox[a] = <<>> /\ work[a] = 0
    /\ QuietWhenPaused

MsgInv == MsgTypes /\ Quiet /\ EachPlaced

LEMMA AtMoves ==
    ASSUME NEW n \in Nat, NEW to \in [1 .. n -> Agents], NEW place \in [1 .. n -> PlaceNames],
           NEW m \in 1 .. n, NEW k \in PlaceNames, NEW p, p = [place EXCEPT ![m] = k]
    PROVE  /\ p \in [1 .. n -> PlaceNames]
           /\ \A a, h : At(n, to, p, a, h) =
                 IF a = to[m] THEN IF h = k THEN At(n, to, place, a, h) \cup {m}
                                   ELSE At(n, to, place, a, h) \ {m}
                 ELSE At(n, to, place, a, h)
           /\ \A h : {x \in 1 .. n : p[x] = h} =
                 IF h = k THEN {x \in 1 .. n : place[x] = h} \cup {m}
                 ELSE {x \in 1 .. n : place[x] = h} \ {m}
<1>1. p \in [1 .. n -> PlaceNames] /\ p[m] = k /\ \A x \in 1 .. n : x # m => p[x] = place[x]
    OBVIOUS
<1>2. ASSUME NEW a, NEW h
      PROVE  At(n, to, p, a, h) =
                 IF a = to[m] THEN IF h = k THEN At(n, to, place, a, h) \cup {m}
                                   ELSE At(n, to, place, a, h) \ {m}
                 ELSE At(n, to, place, a, h)
    BY <1>1 DEF At
<1>3. ASSUME NEW h
      PROVE  {x \in 1 .. n : p[x] = h} =
                 IF h = k THEN {x \in 1 .. n : place[x] = h} \cup {m}
                 ELSE {x \in 1 .. n : place[x] = h} \ {m}
    BY <1>1
<1> QED
    BY <1>1, <1>2, <1>3

\* A message that is listed somewhere is there.
LEMMA HeadPlaced ==
    ASSUME MsgTypes, NEW n \in Nat, NEW to, NEW place, Placed(n, to, place), NEW a \in Agents
    PROVE  /\ queue[a] # <<>> =>
                 /\ Head(queue[a]) \in Env /\ Tail(queue[a]) \in Seq(Env)
                 /\ Head(queue[a]).id \in 1 .. n
                 /\ to[Head(queue[a]).id] = a /\ place[Head(queue[a]).id] = "queue"
           /\ inbox[a] # <<>> =>
                 /\ Head(inbox[a]) \in 1 .. n
                 /\ to[Head(inbox[a])] = a /\ place[Head(inbox[a])] = "inbox"
           /\ work[a] # 0 =>
                 work[a] \in 1 .. n /\ to[work[a]] = a /\ place[work[a]] = "work"
<1>1. queue[a] \in Seq(Env)
    BY DEF MsgTypes
<1>2. ASSUME queue[a] # <<>>
      PROVE  /\ Head(queue[a]) \in Env /\ Tail(queue[a]) \in Seq(Env)
             /\ Head(queue[a]).id \in At(n, to, place, a, "queue")
    <2>1. Head(Numbers(queue[a])) \in At(n, to, place, a, "queue")
        <3>1. Lists(Numbers(queue[a]), At(n, to, place, a, "queue")) /\ Numbers(queue[a]) # <<>>
            BY <1>1, <1>2, NumbersAre DEF Placed
        <3> QED
            BY <3>1, ListsTail
    <2> QED
        BY <1>1, <1>2, <2>1, NumbersAre
<1>3. ASSUME inbox[a] # <<>> PROVE Head(inbox[a]) \in At(n, to, place, a, "inbox")
    <2>1. Lists(inbox[a], At(n, to, place, a, "inbox"))
        BY DEF Placed
    <2> QED
        BY <1>3, <2>1, ListsTail
<1>4. work[a] # 0 => work[a] \in At(n, to, place, a, "work")
    BY DEF Placed
<1> QED
    BY <1>2, <1>3, <1>4 DEF At

\* Message m of agent a goes from place h to place k.
Goes(a, m, h, k) ==
    /\ \A b \in Agents : b # a => /\ queue'[b] = queue[b] /\ inbox'[b] = inbox[b]
                                  /\ work'[b] = work[b]
    /\ IF h = "queue"
       THEN queue[a] # <<>> /\ Head(queue[a]).id = m /\ queue'[a] = Tail(queue[a])
       ELSE queue'[a] = queue[a]
    /\ IF h = "inbox"
       THEN inbox[a] # <<>> /\ Head(inbox[a]) = m /\ inbox'[a] = Tail(inbox[a])
       ELSE inbox'[a] = IF k = "inbox" THEN Append(inbox[a], m) ELSE inbox[a]
    /\ IF h = "work" THEN work[a] = m /\ work'[a] = 0
       ELSE IF k = "work" THEN work[a] = 0 /\ work'[a] = m ELSE work'[a] = work[a]
    /\ settled' = settled \cup (IF k = "settled" THEN {m} ELSE {})
    /\ dlq' = dlq \cup (IF k = "dlq" THEN {m} ELSE {})

LEMMA Relocated ==
    ASSUME MsgTypes, NEW n \in Nat, NEW to, NEW place, Placed(n, to, place), accepted' = n,
           NEW a \in Agents, NEW m \in 1 .. n, to[m] = a,
           NEW k \in PlaceNames \ {"queue"},
           place[m] \notin {"settled", "dlq"}, place[m] # k, Goes(a, m, place[m], k)
    PROVE  EachPlaced'
<1>0. /\ m # 0
      /\ \A b \in Agents : b # a => /\ queue'[b] = queue[b] /\ inbox'[b] = inbox[b]
                                    /\ work'[b] = work[b]
      /\ IF place[m] = "queue"
         THEN queue[a] # <<>> /\ Head(queue[a]).id = m /\ queue'[a] = Tail(queue[a])
         ELSE queue'[a] = queue[a]
      /\ IF place[m] = "inbox"
         THEN inbox[a] # <<>> /\ Head(inbox[a]) = m /\ inbox'[a] = Tail(inbox[a])
         ELSE inbox'[a] = IF k = "inbox" THEN Append(inbox[a], m) ELSE inbox[a]
      /\ IF place[m] = "work" THEN work[a] = m /\ work'[a] = 0
         ELSE IF k = "work" THEN work[a] = 0 /\ work'[a] = m ELSE work'[a] = work[a]
      /\ settled' = settled \cup (IF k = "settled" THEN {m} ELSE {})
      /\ dlq' = dlq \cup (IF k = "dlq" THEN {m} ELSE {})
    BY DEF Goes
<1> USE <1>0
<1> PICK p : p = [place EXCEPT ![m] = k]
    OBVIOUS
<1> DEFINE Is(b, h) == At(n, to, place, b, h)
           Gets(b, h) == At(n, to, p, b, h)
<1>1. to \in [1 .. n -> Agents] /\ place \in [1 .. n -> PlaceNames]
    BY DEF Placed
<1>2. p \in [1 .. n -> PlaceNames]
    BY <1>1, AtMoves
<1>3. \A b, h : Gets(b, h) = IF b = a THEN IF h = k THEN Is(b, h) \cup {m} ELSE Is(b, h) \ {m}
                             ELSE Is(b, h)
    <2> SUFFICES ASSUME NEW b, NEW h
                 PROVE  Gets(b, h) = IF b = a THEN IF h = k THEN Is(b, h) \cup {m} ELSE Is(b, h) \ {m}
                                     ELSE Is(b, h)
        OBVIOUS
    <2>1. /\ p[m] = k /\ \A x \in 1 .. n : x # m => p[x] = place[x]
        BY <1>1
    <2> QED
        BY <2>1 DEF At
<1>4. \A h : {x \in 1 .. n : p[x] = h} = IF h = k THEN {x \in 1 .. n : place[x] = h} \cup {m}
                                         ELSE {x \in 1 .. n : place[x] = h} \ {m}
    BY <1>1, AtMoves
<1>5. \A h : m \in Is(a, h) <=> place[m] = h
    BY DEF At
<1>6. /\ Lists(Numbers(queue[a]), Is(a, "queue")) /\ Lists(inbox[a], Is(a, "inbox"))
      /\ {work[a]} \ {0} = Is(a, "work") /\ queue[a] \in Seq(Env)
    BY DEF Placed, MsgTypes
<1> HIDE DEF Is, Gets
<1>7. Lists(Numbers(queue'[a]), Gets(a, "queue"))
    <2>1. CASE place[m] = "queue"
        <3>1. Lists(Tail(Numbers(queue[a])), Is(a, "queue") \ {m})
            <4>1. Numbers(queue[a]) # <<>> /\ Head(Numbers(queue[a])) = m
                BY <1>6, <2>1, NumbersAre
            <4> QED
                BY <1>6, <4>1, ListsTail
        <3>2. Numbers(queue'[a]) = Tail(Numbers(queue[a]))
            BY <1>6, <2>1, NumbersAre
        <3>3. Gets(a, "queue") = Is(a, "queue") \ {m}
            BY <1>3
        <3> QED
            BY <3>1, <3>2, <3>3
    <2>2. CASE place[m] # "queue"
        <3>1. Gets(a, "queue") = Is(a, "queue")
            BY <1>3, <1>5, <2>2
        <3>2. queue'[a] = queue[a]
            BY <2>2
        <3> QED
            BY <1>6, <3>1, <3>2
    <2> QED
        BY <2>1, <2>2
<1>8. Lists(inbox'[a], Gets(a, "inbox"))
    <2>1. CASE place[m] = "inbox"
        <3>1. Lists(Tail(inbox[a]), Is(a, "inbox") \ {m})
            BY <1>6, <2>1, ListsTail
        <3>2. Gets(a, "inbox") = Is(a, "inbox") \ {m}
            BY <1>3, <2>1
        <3> QED
            BY <2>1, <3>1, <3>2
    <2>2. CASE place[m] # "inbox" /\ k = "inbox"
        <3>1. Lists(Append(inbox[a], m), Is(a, "inbox") \cup {m})
            BY <1>5, <1>6, <2>2, ListsAppend
        <3>2. Gets(a, "inbox") = Is(a, "inbox") \cup {m}
            BY <1>3, <2>2
        <3> QED
            BY <2>2, <3>1, <3>2
    <2>3. CASE place[m] # "inbox" /\ k # "inbox"
        <3>1. Gets(a, "inbox") = Is(a, "inbox")
            BY <1>3, <1>5, <2>3
        <3> QED
            BY <1>6, <2>3, <3>1
    <2> QED
        BY <2>1, <2>2, <2>3
<1>9. {work'[a]} \ {0} = Gets(a, "work")
    <2>1. CASE place[m] = "work"
        <3>1. work[a] = m /\ work'[a] = 0 /\ Gets(a, "work") = Is(a, "work") \ {m}
            BY <1>3, <2>1
        <3> QED
            BY <1>6, <3>1
    <2>2. CASE place[m] # "work" /\ k = "work"
        <3>1. work[a] = 0 /\ work'[a] = m /\ Gets(a, "work") = Is(a, "work") \cup {m}
            BY <1>3, <2>2
        <3> QED
            BY <1>6, <3>1
    <2>3. CASE place[m] # "work" /\ k # "work"
        <3>1. work'[a] = work[a] /\ Gets(a, "work") = Is(a, "work")
            BY <1>3, <1>5, <2>3
        <3> QED
            BY <1>6, <3>1
    <2> QED
        BY <2>1, <2>2, <2>3
<1>10. ASSUME NEW b \in Agents
       PROVE  /\ Lists(Numbers(queue'[b]), Gets(b, "queue")) /\ Lists(inbox'[b], Gets(b, "inbox"))
              /\ {work'[b]} \ {0} = Gets(b, "work")
    <2>1. CASE b = a
        BY <1>7, <1>8, <1>9, <2>1
    <2>2. CASE b # a
        <3>1. /\ queue'[b] = queue[b] /\ inbox'[b] = inbox[b] /\ work'[b] = work[b]
              /\ Gets(b, "queue") = Is(b, "queue") /\ Gets(b, "inbox") = Is(b, "inbox")
              /\ Gets(b, "work") = Is(b, "work")
            BY <1>3, <2>2
        <3>2. /\ Lists(Numbers(queue[b]), Is(b, "queue")) /\ Lists(inbox[b], Is(b, "inbox"))
              /\ {work[b]} \ {0} = Is(b, "work")
            BY DEF Placed, Is
        <3> QED
            BY <3>1, <3>2
    <2> QED
        BY <2>1, <2>2
<1>11. /\ settled' = {x \in 1 .. n : p[x] = "settled"}
       /\ dlq' = {x \in 1 .. n : p[x] = "dlq"}
    <2>1. /\ settled = {x \in 1 .. n : place[x] = "settled"} /\ m \notin settled
          /\ dlq = {x \in 1 .. n : place[x] = "dlq"} /\ m \notin dlq
        BY DEF Placed
    <2>2. settled' = {x \in 1 .. n : p[x] = "settled"}
        BY <1>4, <2>1
    <2>3. dlq' = {x \in 1 .. n : p[x] = "dlq"}
        BY <1>4, <2>1
    <2> QED
        BY <2>2, <2>3
<1>12. Placed(n, to, p)'
    BY <1>1, <1>2, <1>10, <1>11 DEF Placed, Gets
<1> QED
    BY <1>12 DEF EachPlaced

\* Messages that stay where they are, whatever their order.
LEMMA Stays ==
    ASSUME MsgTypes, EachPlaced, UNCHANGED <<accepted, work, settled, dlq>>,
           \A a \in Agents :
              \/ queue'[a] = queue[a]
              \/ /\ queue[a] # <<>>
                 /\ \E e \in Env : e.id = Head(queue[a]).id
                                   /\ queue'[a] = Append(Tail(queue[a]), e),
           \A a \in Agents :
              \/ inbox'[a] = inbox[a]
              \/ inbox[a] # <<>> /\ inbox'[a] = Append(Tail(inbox[a]), Head(inbox[a]))
    PROVE  EachPlaced'
<1>1. PICK n, to, place : n = accepted /\ Placed(n, to, place)
    BY DEF EachPlaced
<1>2. ASSUME NEW a \in Agents
      PROVE  /\ Lists(Numbers(queue'[a]), At(n, to, place, a, "queue"))
             /\ Lists(inbox'[a], At(n, to, place, a, "inbox"))
    <2>1. /\ Lists(Numbers(queue[a]), At(n, to, place, a, "queue"))
          /\ Lists(inbox[a], At(n, to, place, a, "inbox")) /\ queue[a] \in Seq(Env)
        BY <1>1 DEF Placed, MsgTypes
    <2>2. Lists(Numbers(queue'[a]), At(n, to, place, a, "queue"))
        <3>1. CASE queue'[a] = queue[a]
            BY <2>1, <3>1
        <3>2. CASE queue'[a] # queue[a]
            <4>1. PICK e \in Env : e.id = Head(queue[a]).id
                                   /\ queue'[a] = Append(Tail(queue[a]), e)
                BY <3>2
            <4>2. queue[a] # <<>>
                BY <3>2
            <4>3. Tail(queue[a]) \in Seq(Env) /\ Numbers(queue[a]) # <<>>
                  /\ Head(Numbers(queue[a])) = e.id
                  /\ Numbers(Tail(queue[a])) = Tail(Numbers(queue[a]))
                BY <2>1, <4>1, <4>2, NumbersAre
            <4>4. Numbers(queue'[a]) = Append(Numbers(Tail(queue[a])), e.id)
                BY <4>1, <4>3, NumbersAre
            <4>5. Numbers(queue'[a]) = Append(Tail(Numbers(queue[a])), Head(Numbers(queue[a])))
                BY <4>3, <4>4
            <4> QED
                BY <2>1, <4>3, <4>5, ListsTurned
        <3> QED
            BY <3>1, <3>2
    <2>3. Lists(inbox'[a], At(n, to, place, a, "inbox"))
        BY <2>1, ListsTurned
    <2> QED
        BY <2>2, <2>3
<1>3. Placed(n, to, place)'
    BY <1>1, <1>2 DEF Placed
<1> QED
    BY <1>1, <1>3 DEF EachPlaced

\* New messages, each for another agent.
LEMMA Arrives ==
    ASSUME MsgTypes, EachPlaced, UNCHANGED <<inbox, work, settled, dlq>>,
           accepted' \in 0 .. MaxMessages, accepted <= accepted',
           NEW who \in [accepted + 1 .. accepted' -> Agents],
           \A i, j \in accepted + 1 .. accepted' : who[i] = who[j] => i = j,
           \A a \in Agents :
              \/ \E j \in accepted + 1 .. accepted', e \in Env :
                    who[j] = a /\ e.id = j /\ queue'[a] = Append(queue[a], e)
              \/ (\A j \in accepted + 1 .. accepted' : who[j] # a) /\ queue'[a] = queue[a]
    PROVE  EachPlaced'
<1>1. PICK n, to, place : n = accepted /\ Placed(n, to, place)
    BY DEF EachPlaced
<1>2. PICK l \in Nat : l = accepted'
    OBVIOUS
<1>3. n \in Nat /\ n <= l
    BY <1>1, <1>2 DEF MsgTypes
<1>4. PICK w : w = who
    OBVIOUS
<1>5. /\ w \in [n + 1 .. l -> Agents] /\ \A i, j \in n + 1 .. l : w[i] = w[j] => i = j
      /\ \A a \in Agents :
            \/ \E j \in n + 1 .. l, e \in Env :
                  w[j] = a /\ e.id = j /\ queue'[a] = Append(queue[a], e)
            \/ (\A j \in n + 1 .. l : w[j] # a) /\ queue'[a] = queue[a]
    BY <1>1, <1>2, <1>4
<1>6. to \in [1 .. n -> Agents] /\ place \in [1 .. n -> PlaceNames]
    BY <1>1 DEF Placed
<1>7. \A x \in 1 .. l : x \notin 1 .. n => x \in n + 1 .. l
    BY <1>3
<1>8. (1 .. n \subseteq 1 .. l) /\ (\A x \in n + 1 .. l : x \in 1 .. l /\ x \notin 1 .. n)
    BY <1>3
<1>9. PICK t, p : /\ t = [x \in 1 .. l |-> IF x \in 1 .. n THEN to[x] ELSE w[x]]
                  /\ p = [x \in 1 .. l |-> IF x \in 1 .. n THEN place[x] ELSE "queue"]
    OBVIOUS
<1>10. /\ \A x \in 1 .. n : t[x] = to[x] /\ p[x] = place[x]
       /\ \A x \in n + 1 .. l : t[x] = w[x] /\ p[x] = "queue"
    BY <1>8, <1>9
<1>11. t \in [1 .. l -> Agents] /\ p \in [1 .. l -> PlaceNames]
    <2>1. \A x \in 1 .. l : (IF x \in 1 .. n THEN to[x] ELSE w[x]) \in Agents
        BY <1>5, <1>6, <1>7
    <2>2. \A x \in 1 .. l : (IF x \in 1 .. n THEN place[x] ELSE "queue") \in PlaceNames
        BY <1>6 DEF PlaceNames
    <2> QED
        BY <1>9, <2>1, <2>2
<1>12. \A h : h # "queue" => {x \in 1 .. l : p[x] = h} = {x \in 1 .. n : place[x] = h}
    BY <1>7, <1>8, <1>10
<1>13. \A a, h : h # "queue" => At(l, t, p, a, h) = At(n, to, place, a, h)
    BY <1>7, <1>8, <1>10 DEF At
<1>14. ASSUME NEW a \in Agents
       PROVE  Lists(Numbers(queue'[a]), At(l, t, p, a, "queue"))
    <2>1. Lists(Numbers(queue[a]), At(n, to, place, a, "queue")) /\ queue[a] \in Seq(Env)
        BY <1>1 DEF Placed, MsgTypes
    <2>2. CASE \E j \in n + 1 .. l, e \in Env :
                  w[j] = a /\ e.id = j /\ queue'[a] = Append(queue[a], e)
        <3>1. PICK j \in n + 1 .. l, e \in Env :
                  w[j] = a /\ e.id = j /\ queue'[a] = Append(queue[a], e)
            BY <2>2
        <3>2. Numbers(queue'[a]) = Append(Numbers(queue[a]), j)
            BY <2>1, <3>1, NumbersAre
        <3>3. j \in Nat /\ j \notin At(n, to, place, a, "queue")
            BY <1>3, <1>8 DEF At
        <3>4. At(l, t, p, a, "queue") = At(n, to, place, a, "queue") \cup {j}
            <4>1. \A x \in n + 1 .. l : t[x] = a /\ p[x] = "queue" <=> x = j
                BY <1>5, <1>10, <3>1
            <4> QED
                BY <1>7, <1>8, <1>10, <4>1 DEF At
        <3> QED
            BY <2>1, <3>2, <3>3, <3>4, ListsAppend
    <2>3. CASE (\A j \in n + 1 .. l : w[j] # a) /\ queue'[a] = queue[a]
        <3>1. At(l, t, p, a, "queue") = At(n, to, place, a, "queue")
            BY <1>7, <1>8, <1>10, <2>3 DEF At
        <3> QED
            BY <2>1, <2>3, <3>1
    <2> QED
        BY <1>5, <2>2, <2>3
<1>15. ASSUME NEW a \in Agents
       PROVE  /\ Lists(inbox'[a], At(l, t, p, a, "inbox"))
              /\ {work'[a]} \ {0} = At(l, t, p, a, "work")
    <2>1. /\ Lists(inbox[a], At(n, to, place, a, "inbox"))
          /\ {work[a]} \ {0} = At(n, to, place, a, "work")
        BY <1>1 DEF Placed
    <2> QED
        BY <1>13, <2>1
<1>16. /\ settled' = {x \in 1 .. l : p[x] = "settled"}
       /\ dlq' = {x \in 1 .. l : p[x] = "dlq"}
    <2>1. /\ settled = {x \in 1 .. n : place[x] = "settled"}
          /\ dlq = {x \in 1 .. n : place[x] = "dlq"}
        BY <1>1 DEF Placed
    <2>2. settled' = {x \in 1 .. l : p[x] = "settled"}
        BY <1>12, <2>1
    <2>3. dlq' = {x \in 1 .. l : p[x] = "dlq"}
        BY <1>12, <2>1
    <2> QED
        BY <2>2, <2>3
<1>17. Placed(l, t, p)'
    BY <1>11, <1>14, <1>15, <1>16 DEF Placed
<1> QED
    BY <1>2, <1>17 DEF EachPlaced

-----------------------------------------------------------------------------
(* Messages: what each step does.                                          *)

LEMMA Untouched ==
    ASSUME MsgInv, UNCHANGED <<registered, served, accepted, queue, inbox, seen>>,
           UNCHANGED <<status, work, dead, settled, dlq>>,
           active' \subseteq active, suspended' \subseteq Agents,
           strikes' \in [Agents -> 0 .. LoopStrikes],
           clock' \in {"running", "pausing", "paused"},
           clock' = "paused" => clock = "paused" \/ CompanyIdle
    PROVE  MsgInv'
<1>1. MsgTypes'
    BY DEF MsgInv, MsgTypes
<1>2. Quiet'
    <2>1. /\ \A a \in Agents : work[a] # 0 => status[a] = "working"
          /\ \A a \in Agents \ registered : queue[a] = <<>> /\ inbox[a] = <<>> /\ work[a] = 0
          /\ clock = "paused" => \A a \in Agents : work[a] = 0 /\ queue[a] = <<>>
        BY DEF MsgInv, Quiet, QuietWhenPaused
    <2>2. CompanyIdle => \A a \in Agents : work[a] = 0 /\ queue[a] = <<>>
        BY <2>1 DEF CompanyIdle
    <2> QED
        BY <2>1, <2>2 DEF Quiet, QuietWhenPaused
<1>3. EachPlaced'
    <2>1. PICK n, to, place : n = accepted /\ Placed(n, to, place)
        BY DEF MsgInv, EachPlaced
    <2>2. Placed(n, to, place)'
        BY <2>1 DEF Placed
    <2> QED
        BY <2>1, <2>2 DEF EachPlaced
<1> QED
    BY <1>1, <1>2, <1>3 DEF MsgInv

LEMMA PushKeeps ==
    ASSUME MsgInv, NEW a \in registered, NEW c \in Correlations \cup {NoCorrelation},
           Accepting, Push(a, c), UNCHANGED <<clock, gates, agentVars>>
    PROVE  MsgInv'
<1>1. /\ accepted < MaxMessages /\ accepted' = accepted + 1
      /\ queue' = [queue EXCEPT ![a] =
                      Append(queue[a], [id |-> accepted', correlation |-> c, attempts |-> 0])]
      /\ seen' = [seen EXCEPT ![a] = seen[a] \cup ({c} \cap Correlations)]
      /\ UNCHANGED dlq
    BY DEF Push
<1>2. /\ UNCHANGED <<clock, active, registered, served, suspended, strikes>>
      /\ UNCHANGED <<inbox, status, work, dead, settled>>
    BY DEF gates, staff, agentVars
<1>3. accepted \in Nat /\ accepted' \in Nat /\ accepted' \in Ids /\ accepted' \in 0 .. MaxMessages
    BY <1>1, MessagingConstants DEF MsgInv, MsgTypes, MessagingConstants, Ids
<1>4. PICK e \in Env : e = [id |-> accepted', correlation |-> c, attempts |-> 0]
    <2>1. 0 \in 0 .. MAX_ATTEMPTS - 1
        BY DEF MAX_ATTEMPTS
    <2>2. [id |-> accepted', correlation |-> c, attempts |-> 0] \in Env
        BY <1>3, <2>1 DEF Env
    <2> QED
        BY <2>2
<1>5. /\ e.id = accepted' /\ queue' = [queue EXCEPT ![a] = Append(queue[a], e)]
      /\ a \in Agents /\ queue \in [Agents -> Seq(Env)]
    BY <1>1, <1>4 DEF MsgInv, MsgTypes
<1>6. queue' \in [Agents -> Seq(Env)] /\ queue'[a] = Append(queue[a], e)
      /\ \A b \in Agents : b # a => queue'[b] = queue[b]
    BY <1>5
<1>7. MsgTypes'
    <2>1. seen' \in [Agents -> SUBSET Correlations]
        BY <1>1, <1>5 DEF MsgInv, MsgTypes
    <2> QED
        BY <1>1, <1>2, <1>3, <1>6, <2>1 DEF MsgInv, MsgTypes
<1>8. Quiet'
    <2>1. clock = "running"
        BY DEF Accepting
    <2> QED
        BY <1>2, <1>6, <2>1 DEF MsgInv, Quiet, QuietWhenPaused
<1>9. EachPlaced'
    <2>1. accepted + 1 .. accepted' = {accepted'}
        BY <1>1, <1>3
    <2>2. PICK who : who = [j \in {accepted'} |-> a]
        OBVIOUS
    <2>3. who \in [accepted + 1 .. accepted' -> Agents] /\ who[accepted'] = a
        BY <1>5, <2>1, <2>2
    <2>4. accepted <= accepted'
        BY <1>1, <1>3
    <2>5. \A i, j \in accepted + 1 .. accepted' : who[i] = who[j] => i = j
        BY <2>1
    <2>6. ASSUME NEW b \in Agents
          PROVE  \/ \E j \in accepted + 1 .. accepted', d \in Env :
                       who[j] = b /\ d.id = j /\ queue'[b] = Append(queue[b], d)
                 \/ (\A j \in accepted + 1 .. accepted' : who[j] # b) /\ queue'[b] = queue[b]
        BY <1>5, <1>6, <2>1, <2>3
    <2> QED
        BY <1>1, <1>2, <1>3, <2>3, <2>4, <2>5, <2>6, Arrives DEF MsgInv
<1> QED
    BY <1>7, <1>8, <1>9 DEF MsgInv

LEMMA SystemSendKeeps ==
    ASSUME MsgInv, NEW a \in Agents, SystemSend(a)
    PROVE  MsgInv'
BY PushKeeps DEF SystemSend, Deliverable

LEMMA SendKeeps ==
    ASSUME MsgInv, NEW from \in Agents, NEW a \in Agents,
           NEW c \in Correlations \cup {NoCorrelation}, Send(from, a, c)
    PROVE  MsgInv'
BY PushKeeps DEF Send, Deliverable

LEMMA DispatchKeeps ==
    ASSUME MsgInv, NEW a \in Agents, Dispatch(a)
    PROVE  MsgInv'
<1>1. PICK n, to, place : n = accepted /\ Placed(n, to, place)
    BY DEF MsgInv, EachPlaced
<1>2. PICK m : m = Head(queue[a]).id
    OBVIOUS
<1>3. /\ a \in served /\ Accepting /\ queue[a] # <<>>
      /\ inbox' = [inbox EXCEPT ![a] = Append(inbox[a], m)]
      /\ queue' = [queue EXCEPT ![a] = Tail(queue[a])]
      /\ UNCHANGED <<clock, active, registered, served, suspended, strikes>>
      /\ UNCHANGED <<accepted, seen, dlq, status, work, dead, settled>>
    BY <1>2 DEF Dispatch, gates, staff
<1>4. n \in Nat /\ 1 .. n \subseteq Ids /\ (1 .. n \subseteq Nat \ {0})
    BY <1>1, MessagingConstants DEF MsgInv, MsgTypes, MessagingConstants, Ids
<1>5. /\ Tail(queue[a]) \in Seq(Env) /\ m \in 1 .. n /\ to[m] = a /\ place[m] = "queue"
    BY <1>1, <1>2, <1>3, <1>4, HeadPlaced DEF MsgInv
<1>6. /\ queue \in [Agents -> Seq(Env)] /\ inbox \in [Agents -> Seq(Ids)] /\ m \in Ids
      /\ inbox[a] \in Seq(Ids)
    BY <1>4, <1>5 DEF MsgInv, MsgTypes
<1>7. Append(inbox[a], m) \in Seq(Ids)
    BY <1>6
<1>8. /\ queue' \in [Agents -> Seq(Env)] /\ inbox' \in [Agents -> Seq(Ids)]
      /\ queue'[a] = Tail(queue[a]) /\ inbox'[a] = Append(inbox[a], m)
      /\ \A b \in Agents : b # a => queue'[b] = queue[b] /\ inbox'[b] = inbox[b]
    BY <1>3, <1>5, <1>6, <1>7
<1>9. MsgTypes'
    BY <1>3, <1>8 DEF MsgInv, MsgTypes
<1>10. Quiet'
    <2>1. clock = "running" /\ a \in registered
        BY <1>3 DEF Accepting, MsgInv, MsgTypes
    <2> QED
        BY <1>3, <1>8, <2>1 DEF MsgInv, Quiet, QuietWhenPaused
<1>11. EachPlaced'
    <2>1. "inbox" \in PlaceNames \ {"queue"}
        BY DEF PlaceNames
    <2>2. Goes(a, m, "queue", "inbox")
        BY <1>2, <1>3, <1>8 DEF Goes
    <2> QED
        BY <1>1, <1>3, <1>4, <1>5, <2>1, <2>2, Relocated DEF MsgInv
<1> QED
    BY <1>9, <1>10, <1>11 DEF MsgInv

\* The numbers in use, and the head of what waits.
LEMMA NumbersIn ==
    ASSUME MsgInv, NEW n, n = accepted
    PROVE  n \in Nat /\ 1 .. n \subseteq Ids /\ 1 .. n \subseteq Nat \ {0}
BY MessagingConstants DEF MsgInv, MsgTypes, MessagingConstants, Ids

LEMMA DispatchFailsKeeps ==
    ASSUME MsgInv, NEW a \in Agents, DispatchFails(a)
    PROVE  MsgInv'
<1>1. PICK n, to, place : n = accepted /\ Placed(n, to, place)
    BY DEF MsgInv, EachPlaced
<1>2. PICK env : env = [Head(queue[a]) EXCEPT !.attempts = @ + 1]
    OBVIOUS
<1>3. /\ a \in served /\ Accepting /\ queue[a] # <<>>
      /\ \/ /\ env.attempts >= MAX_ATTEMPTS
            /\ dlq' = dlq \cup {env.id}
            /\ queue' = [queue EXCEPT ![a] = Tail(queue[a])]
         \/ /\ env.attempts < MAX_ATTEMPTS
            /\ queue' = [queue EXCEPT ![a] = Append(Tail(queue[a]), env)]
            /\ UNCHANGED dlq
      /\ UNCHANGED <<clock, active, registered, served, suspended, strikes>>
      /\ UNCHANGED <<accepted, seen, inbox, status, work, dead, settled>>
    BY <1>2 DEF DispatchFails, gates, staff, agentVars
<1>4. n \in Nat /\ 1 .. n \subseteq Ids /\ (1 .. n \subseteq Nat \ {0})
    BY <1>1, NumbersIn
<1>5. PICK h \in Env : h = Head(queue[a])
    BY <1>1, <1>3, <1>4, HeadPlaced DEF MsgInv
<1>6. PICK m : m = h.id
    OBVIOUS
<1>7. Tail(queue[a]) \in Seq(Env) /\ m \in 1 .. n /\ to[m] = a /\ place[m] = "queue"
    BY <1>1, <1>3, <1>4, <1>5, <1>6, HeadPlaced DEF MsgInv
<1>8. env.id = m /\ (env.attempts < MAX_ATTEMPTS => env \in Env)
    <2>1. h.attempts \in 0 .. 2 /\ env.attempts = h.attempts + 1 /\ env.id = h.id
        BY <1>2, <1>5 DEF Env, MAX_ATTEMPTS
    <2>2. env.attempts < MAX_ATTEMPTS => env.attempts \in 0 .. MAX_ATTEMPTS - 1
        BY <2>1 DEF MAX_ATTEMPTS
    <2>3. env = [h EXCEPT !.attempts = h.attempts + 1]
        BY <1>2, <1>5
    <2>4. env.attempts \in 0 .. MAX_ATTEMPTS - 1 => env \in Env
        BY <2>1, <2>3 DEF Env
    <2> QED
        BY <1>6, <2>1, <2>2, <2>4
<1>9. queue \in [Agents -> Seq(Env)] /\ m \in Ids /\ clock = "running" /\ a \in registered
    BY <1>3, <1>4, <1>7 DEF MsgInv, MsgTypes, Accepting
<1>10. ASSUME NEW q \in Seq(Env), queue' = [queue EXCEPT ![a] = q], dlq' \subseteq Ids
       PROVE  MsgTypes' /\ Quiet'
    <2>1. queue' \in [Agents -> Seq(Env)] /\ \A b \in Agents : b # a => queue'[b] = queue[b]
        BY <1>9, <1>10
    <2>2. MsgTypes'
        BY <1>3, <1>10, <2>1 DEF MsgInv, MsgTypes
    <2>3. Quiet'
        BY <1>3, <1>9, <2>1 DEF MsgInv, Quiet, QuietWhenPaused
    <2> QED
        BY <2>2, <2>3
<1>11. CASE /\ dlq' = dlq \cup {env.id}
            /\ queue' = [queue EXCEPT ![a] = Tail(queue[a])]
    <2>1. "dlq" \in PlaceNames \ {"queue"}
        BY DEF PlaceNames
    <2>2. Goes(a, m, "queue", "dlq")
        BY <1>3, <1>5, <1>6, <1>8, <1>9, <1>11 DEF Goes
    <2>3. EachPlaced'
        BY <1>1, <1>3, <1>4, <1>7, <2>1, <2>2, Relocated DEF MsgInv
    <2>4. dlq' \subseteq Ids
        BY <1>8, <1>9, <1>11 DEF MsgInv, MsgTypes
    <2> QED
        BY <1>7, <1>10, <1>11, <2>3, <2>4 DEF MsgInv
<1>12. CASE /\ env.attempts < MAX_ATTEMPTS
            /\ queue' = [queue EXCEPT ![a] = Append(Tail(queue[a]), env)]
            /\ UNCHANGED dlq
    <2>1. env \in Env
        BY <1>8, <1>12
    <2>2. PICK q \in Seq(Env) : q = Append(Tail(queue[a]), env)
        <3>1. Append(Tail(queue[a]), env) \in Seq(Env)
            BY <1>7, <2>1, Appended DEF Longer
        <3> QED
            BY <3>1
    <2>3. queue' = [queue EXCEPT ![a] = q] /\ dlq' \subseteq Ids
        BY <1>12, <2>2 DEF MsgInv, MsgTypes
    <2>4. EachPlaced'
        <3>1. ASSUME NEW b \in Agents
              PROVE  \/ queue'[b] = queue[b]
                     \/ /\ queue[b] # <<>>
                        /\ \E e \in Env : e.id = Head(queue[b]).id
                                          /\ queue'[b] = Append(Tail(queue[b]), e)
            BY <1>3, <1>5, <1>6, <1>8, <1>9, <2>1, <2>2, <2>3
        <3> QED
            BY <1>3, <1>12, <3>1, Stays DEF MsgInv
    <2> QED
        BY <1>10, <2>3, <2>4 DEF MsgInv
<1> QED
    BY <1>3, <1>11, <1>12

LEMMA RequeueKeeps ==
    ASSUME MsgInv, NEW a \in Agents, Requeue(a)
    PROVE  MsgInv'
<1>1. PICK n, to, place : n = accepted /\ Placed(n, to, place)
    BY DEF MsgInv, EachPlaced
<1>2. n \in Nat
    BY <1>1, NumbersIn
<1>3. /\ a \in served /\ queue[a] # <<>>
      /\ queue' = [queue EXCEPT ![a] = Append(Tail(queue[a]), Head(queue[a]))]
      /\ UNCHANGED <<clock, active, registered, served, suspended, strikes>>
      /\ UNCHANGED <<accepted, seen, dlq, inbox, status, work, dead, settled>>
    BY DEF Requeue, gates, staff, agentVars
<1>4. Head(queue[a]) \in Env /\ Tail(queue[a]) \in Seq(Env)
    BY <1>1, <1>2, <1>3, HeadPlaced DEF MsgInv
<1>5. PICK q \in Seq(Env) : q = Append(Tail(queue[a]), Head(queue[a]))
    <2>1. Append(Tail(queue[a]), Head(queue[a])) \in Seq(Env)
        BY <1>4, Appended DEF Longer
    <2> QED
        BY <2>1
<1>6. queue \in [Agents -> Seq(Env)] /\ a \in registered
    BY <1>3 DEF MsgInv, MsgTypes
<1>7. /\ queue' \in [Agents -> Seq(Env)] /\ queue'[a] = q
      /\ \A b \in Agents : b # a => queue'[b] = queue[b]
    BY <1>3, <1>5, <1>6
<1>8. MsgTypes'
    BY <1>3, <1>7 DEF MsgInv, MsgTypes
<1>9. Quiet'
    BY <1>3, <1>6, <1>7 DEF MsgInv, Quiet, QuietWhenPaused
<1>10. EachPlaced'
    <2>1. ASSUME NEW b \in Agents
          PROVE  \/ queue'[b] = queue[b]
                 \/ /\ queue[b] # <<>>
                    /\ \E e \in Env : e.id = Head(queue[b]).id
                                      /\ queue'[b] = Append(Tail(queue[b]), e)
        BY <1>3, <1>4, <1>5, <1>7
    <2> QED
        BY <1>3, <2>1, Stays DEF MsgInv
<1> QED
    BY <1>8, <1>9, <1>10 DEF MsgInv

LEMMA TakeKeeps ==
    ASSUME MsgInv, NEW a \in Agents, Take(a)
    PROVE  MsgInv'
<1>1. PICK n, to, place : n = accepted /\ Placed(n, to, place)
    BY DEF MsgInv, EachPlaced
<1>2. PICK m : m = Head(inbox[a])
    OBVIOUS
<1>3. /\ work[a] = 0 /\ inbox[a] # <<>> /\ Accepting
      /\ work' = [work EXCEPT ![a] = m]
      /\ inbox' = [inbox EXCEPT ![a] = Tail(inbox[a])]
      /\ status' = [status EXCEPT ![a] = "working"]
      /\ UNCHANGED <<clock, active, registered, served, suspended, strikes>>
      /\ UNCHANGED <<accepted, seen, dlq, queue, dead, settled>>
    BY <1>2 DEF Take, gates, staff, queueVars
<1>4. n \in Nat /\ 1 .. n \subseteq Ids /\ (1 .. n \subseteq Nat \ {0})
    BY <1>1, NumbersIn
<1>5. m \in 1 .. n /\ to[m] = a /\ place[m] = "inbox"
    BY <1>1, <1>2, <1>3, <1>4, HeadPlaced DEF MsgInv
<1>6. /\ inbox \in [Agents -> Seq(Ids)] /\ work \in [Agents -> {0} \cup Ids]
      /\ status \in [Agents -> AgentStatus] /\ m \in Ids /\ clock = "running"
      /\ inbox[a] \in Seq(Ids) /\ "working" \in AgentStatus
    BY <1>3, <1>4, <1>5 DEF MsgInv, MsgTypes, Accepting, AgentStatus
<1>7. PICK q \in Seq(Ids) : q = Tail(inbox[a])
    <2>1. Tail(inbox[a]) \in Seq(Ids)
        BY <1>3, <1>6
    <2> QED
        BY <2>1
<1>8. /\ inbox' \in [Agents -> Seq(Ids)] /\ inbox'[a] = q
      /\ \A b \in Agents : b # a => inbox'[b] = inbox[b]
    BY <1>3, <1>6, <1>7
<1>9. /\ work' \in [Agents -> {0} \cup Ids] /\ work'[a] = m
      /\ status' \in [Agents -> AgentStatus] /\ status'[a] = "working"
      /\ \A b \in Agents : b # a => work'[b] = work[b] /\ status'[b] = status[b]
    BY <1>3, <1>6
<1>10. MsgTypes'
    BY <1>3, <1>8, <1>9 DEF MsgInv, MsgTypes
<1>11. Quiet'
    <2>1. a \in registered
        BY <1>3 DEF MsgInv, Quiet
    <2> QED
        BY <1>3, <1>6, <1>8, <1>9, <2>1 DEF MsgInv, Quiet, QuietWhenPaused
<1>12. EachPlaced'
    <2>1. "work" \in PlaceNames \ {"queue"}
        BY DEF PlaceNames
    <2>2. Goes(a, m, "inbox", "work")
        BY <1>2, <1>3, <1>7, <1>8, <1>9 DEF Goes
    <2> QED
        BY <1>1, <1>3, <1>4, <1>5, <2>1, <2>2, Relocated DEF MsgInv
<1> QED
    BY <1>10, <1>11, <1>12 DEF MsgInv

LEMMA PutBackKeeps ==
    ASSUME MsgInv, NEW a \in Agents, PutBack(a)
    PROVE  MsgInv'
<1>1. /\ inbox[a] # <<>>
      /\ inbox' = [inbox EXCEPT ![a] = Append(Tail(inbox[a]), Head(inbox[a]))]
      /\ UNCHANGED <<clock, active, registered, served, suspended, strikes>>
      /\ UNCHANGED <<accepted, seen, dlq, queue, status, work, dead, settled>>
    BY DEF PutBack, gates, staff, queueVars
<1>2. inbox \in [Agents -> Seq(Ids)] /\ inbox[a] \in Seq(Ids)
    BY DEF MsgInv, MsgTypes
<1>3. PICK q : q = Append(Tail(inbox[a]), Head(inbox[a]))
    OBVIOUS
<1>4. q \in Seq(Ids)
    <2>1. Head(inbox[a]) \in Ids /\ Tail(inbox[a]) \in Seq(Ids)
        BY <1>1, <1>2
    <2> QED
        BY <1>3, <2>1
<1>5. /\ inbox' \in [Agents -> Seq(Ids)] /\ inbox'[a] = q
      /\ \A b \in Agents : b # a => inbox'[b] = inbox[b]
    BY <1>1, <1>2, <1>3, <1>4
<1>6. MsgTypes'
    BY <1>1, <1>5 DEF MsgInv, MsgTypes
<1>7. Quiet'
    <2>1. a \in registered
        BY <1>1 DEF MsgInv, Quiet
    <2> QED
        BY <1>1, <1>5, <2>1 DEF MsgInv, Quiet, QuietWhenPaused
<1>8. EachPlaced'
    <2>1. ASSUME NEW b \in Agents
          PROVE  \/ inbox'[b] = inbox[b]
                 \/ inbox[b] # <<>> /\ inbox'[b] = Append(Tail(inbox[b]), Head(inbox[b]))
        BY <1>1, <1>3, <1>5
    <2> QED
        BY <1>1, <2>1, Stays DEF MsgInv
<1> QED
    BY <1>6, <1>7, <1>8 DEF MsgInv

LEMMA EndTurnKeeps ==
    ASSUME MsgInv, NEW a \in Agents, NEW result \in AgentStatus, EndTurn(a, result),
           dead' \subseteq Agents
    PROVE  MsgInv'
<1>1. PICK n, to, place : n = accepted /\ Placed(n, to, place)
    BY DEF MsgInv, EachPlaced
<1>2. PICK m : m = work[a]
    OBVIOUS
<1>3. /\ work[a] # 0 /\ settled' = settled \cup {m}
      /\ work' = [work EXCEPT ![a] = 0]
      /\ status' = [status EXCEPT ![a] = result]
      /\ UNCHANGED <<clock, active, registered, served, suspended, strikes>>
      /\ UNCHANGED <<accepted, seen, dlq, queue, inbox>>
    BY <1>2 DEF EndTurn, gates, staff, queueVars
<1>4. n \in Nat /\ 1 .. n \subseteq Ids /\ (1 .. n \subseteq Nat \ {0})
    BY <1>1, NumbersIn
<1>5. m \in 1 .. n /\ to[m] = a /\ place[m] = "work"
    BY <1>1, <1>2, <1>3, <1>4, HeadPlaced DEF MsgInv
<1>6. /\ work \in [Agents -> {0} \cup Ids] /\ status \in [Agents -> AgentStatus] /\ m \in Ids
    BY <1>4, <1>5 DEF MsgInv, MsgTypes
<1>7. /\ work' \in [Agents -> {0} \cup Ids] /\ work'[a] = 0
      /\ status' \in [Agents -> AgentStatus]
      /\ \A b \in Agents : b # a => work'[b] = work[b] /\ status'[b] = status[b]
    BY <1>3, <1>6
<1>8. MsgTypes'
    BY <1>3, <1>6, <1>7 DEF MsgInv, MsgTypes
<1>9. Quiet'
    BY <1>3, <1>7 DEF MsgInv, Quiet, QuietWhenPaused
<1>10. EachPlaced'
    <2>1. "settled" \in PlaceNames \ {"queue"}
        BY DEF PlaceNames
    <2>2. Goes(a, m, "work", "settled")
        BY <1>2, <1>3, <1>7 DEF Goes
    <2> QED
        BY <1>1, <1>3, <1>4, <1>5, <2>1, <2>2, Relocated DEF MsgInv
<1> QED
    BY <1>8, <1>9, <1>10 DEF MsgInv

\* s names members of R, each at most once.
Once(s, R) == s \in Seq(R) /\ \A i, j \in 1 .. Len(s) : s[i] = s[j] => i = j

LEMMA OnceFirst ==
    ASSUME NEW x, NEW s \in {<<>>, <<x>>}
    PROVE  Once(s, {x})
<1>1. <<>> \in Seq({x}) /\ Len(<<>>) = 0 /\ <<x>> \in Seq({x}) /\ Len(<<x>>) = 1
    OBVIOUS
<1>2. (\A i \in 1 .. 0 : FALSE) /\ (\A i \in 1 .. 1 : i = 1)
    OBVIOUS
<1> QED
    BY <1>1, <1>2 DEF Once

LEMMA OnceJoin ==
    ASSUME NEW R, NEW s, Once(s, R), NEW x, x \notin R, NEW p \in {<<>>, <<x>>}
    PROVE  Once(s \o p, R \cup {x})
<1>1. s \in Seq(R) /\ s \in Seq(R \cup {x})
    BY DEF Once
<1>2. CASE p = <<>>
    <2>1. s \o p = s
        BY <1>1, <1>2
    <2> QED
        BY <1>1, <2>1 DEF Once
<1>3. CASE p = <<x>>
    <2>1. PICK n \in Nat : n = Len(s)
        BY <1>1
    <2>2. PICK t : t = s \o p
        OBVIOUS
    <2>3. /\ t \in Seq(R \cup {x}) /\ Len(t) = n + 1 /\ t[n + 1] = x
          /\ \A i \in 1 .. n : t[i] = s[i]
        <3>1. x \in R \cup {x}
            OBVIOUS
        <3>2. /\ s \o <<x>> \in Seq(R \cup {x}) /\ Len(s \o <<x>>) = Len(s) + 1
              /\ (s \o <<x>>)[Len(s) + 1] = x
              /\ \A i \in 1 .. Len(s) : (s \o <<x>>)[i] = s[i]
            BY <1>1, <3>1, Joined
        <3> QED
            BY <1>3, <2>1, <2>2, <3>2
    <2>4. \A i \in 1 .. n : s[i] # x
        BY <1>1, <2>1
    <2>5. \A i, j \in 1 .. n : s[i] = s[j] => i = j
        BY <2>1 DEF Once
    <2>6. \A i \in 1 .. n + 1 : i \in 1 .. n \/ i = n + 1
        OBVIOUS
    <2>7. \A i, j \in 1 .. n + 1 : t[i] = t[j] => i = j
        BY <2>3, <2>4, <2>5, <2>6
    <2> QED
        BY <2>2, <2>3, <2>7 DEF Once
<1> QED
    BY <1>2, <1>3

LEMMA NoticesAre ==
    ASSUME NEW a, NEW manager, NEW requester, a # manager, a # requester
    PROVE  /\ Once(Notices(a, manager, requester), {a, manager, requester})
           /\ ~ Accepting => Notices(a, manager, requester) = <<>>
<1> DEFINE N(b) == IF Accepting /\ (b = a \/ Deliverable(b)) THEN <<b>> ELSE <<>>
           T == IF requester = manager THEN <<>> ELSE N(requester)
<1>1. Notices(a, manager, requester) = (N(a) \o N(manager)) \o T
    BY DEF Notices
<1>2. N(a) \in {<<>>, <<a>>} /\ N(manager) \in {<<>>, <<manager>>} /\ N(requester) \in {<<>>, <<requester>>}
    OBVIOUS
<1>3. ~ Accepting => N(a) = <<>> /\ N(manager) = <<>> /\ T = <<>>
    OBVIOUS
<1>4. T = IF requester = manager THEN <<>> ELSE N(requester)
    OBVIOUS
<1> HIDE DEF N, T
<1>5. Once(N(a) \o N(manager), {a} \cup {manager})
    <2>1. Once(N(a), {a})
        BY <1>2, OnceFirst
    <2>2. manager \notin {a}
        OBVIOUS
    <2> QED
        BY <1>2, <2>1, <2>2, OnceJoin
<1>6. Once((N(a) \o N(manager)) \o T, {a, manager, requester})
    <2>1. {a} \cup {manager} = {a, manager}
        OBVIOUS
    <2>2. PICK s, R : s = N(a) \o N(manager) /\ R = {a} \cup {manager} /\ Once(s, R)
        BY <1>5
    <2>3. CASE requester = manager
        <3>1. s \o T = s /\ R = {a, manager, requester}
            BY <1>4, <2>2, <2>3 DEF Once
        <3> QED
            BY <2>2, <3>1
    <2>4. CASE requester # manager
        <3>1. requester \notin R /\ T \in {<<>>, <<requester>>}
            BY <1>2, <1>4, <2>2, <2>4
        <3>2. Once(s \o T, R \cup {requester})
            BY <2>2, <3>1, OnceJoin
        <3>3. R \cup {requester} = {a, manager, requester}
            BY <2>2
        <3> QED
            BY <2>2, <3>2, <3>3
    <2> QED
        BY <2>3, <2>4
<1> QED
    BY <1>1, <1>3, <1>6

LEMMA HireKeeps ==
    ASSUME MsgInv, NEW a \in Agents, NEW manager \in Agents, NEW requester \in Agents,
           Hire(a, manager, requester)
    PROVE  MsgInv'
<1>1. PICK sent : sent = Notices(a, manager, requester)
    OBVIOUS
<1>2. /\ a \notin registered /\ {manager, requester} \subseteq active
      /\ active' = active \cup {a} /\ registered' = registered \cup {a}
      /\ accepted + Len(sent) <= MaxMessages /\ accepted' = accepted + Len(sent)
      /\ queue' = [b \in Agents |->
                      queue[b] \o IF b \in ToSet(sent)
                                  THEN <<[id |-> accepted + CHOOSE j \in DOMAIN sent : sent[j] = b,
                                          correlation |-> NoCorrelation, attempts |-> 0]>>
                                  ELSE <<>>]
      /\ UNCHANGED <<clock, served, suspended, strikes, seen, dlq>>
      /\ UNCHANGED <<inbox, status, work, dead, settled>>
    BY <1>1 DEF Hire, Register, agentVars
<1>3. /\ queue \in [Agents -> Seq(Env)] /\ active \subseteq registered /\ registered \subseteq Agents
      /\ accepted \in Nat /\ MaxMessages \in Nat
    BY MessagingConstants DEF MsgInv, MsgTypes, MessagingConstants
<1>4. Once(sent, {a, manager, requester}) /\ (clock # "running" => sent = <<>>)
    <2>1. a # manager /\ a # requester
        BY <1>2, <1>3
    <2> QED
        BY <1>1, <2>1, NoticesAre DEF Accepting
<1>5. PICK k \in Nat : k = Len(sent)
    BY <1>4 DEF Once
<1>6. /\ DOMAIN sent = 1 .. k /\ \A j \in 1 .. k : sent[j] \in {a, manager, requester}
      /\ \A i, j \in 1 .. k : sent[i] = sent[j] => i = j
    BY <1>4, <1>5 DEF Once
<1>7. PICK n \in Nat : n = accepted
    BY <1>3
<1>8. accepted' = n + k /\ n + k <= MaxMessages
    BY <1>2, <1>5, <1>7
<1>9. ASSUME NEW b \in Agents
      PROVE  \/ \E j \in 1 .. k, e \in Env :
                    sent[j] = b /\ e.id = n + j /\ queue'[b] = Append(queue[b], e)
             \/ (\A j \in 1 .. k : sent[j] # b) /\ queue'[b] = queue[b]
    <2>1. queue[b] \in Seq(Env)
        BY <1>3
    <2>2. CASE b \in ToSet(sent)
        <3>1. PICK j : j = CHOOSE i \in DOMAIN sent : sent[i] = b
            OBVIOUS
        <3>2. j \in 1 .. k /\ sent[j] = b
            <4>1. \E i \in DOMAIN sent : sent[i] = b
                BY <2>2 DEF ToSet
            <4>2. j \in DOMAIN sent /\ sent[j] = b
                BY <3>1, <4>1
            <4> QED
                BY <1>6, <4>2
        <3>3. n + j \in Ids
            BY <1>3, <1>8, <3>2 DEF Ids
        <3>4. 0 \in 0 .. MAX_ATTEMPTS - 1
            BY DEF MAX_ATTEMPTS
        <3>5. PICK e \in Env : e = [id |-> n + j, correlation |-> NoCorrelation, attempts |-> 0]
            <4>1. [id |-> n + j, correlation |-> NoCorrelation, attempts |-> 0] \in Env
                BY <3>3, <3>4 DEF Env
            <4> QED
                BY <4>1
        <3>6. queue'[b] = queue[b] \o <<e>>
            BY <1>2, <1>7, <2>2, <3>1, <3>5
        <3>7. queue[b] \o <<e>> = Append(queue[b], e)
            BY <2>1
        <3> QED
            BY <3>2, <3>5, <3>6, <3>7
    <2>3. CASE b \notin ToSet(sent)
        <3>1. queue'[b] = queue[b] \o <<>>
            BY <1>2, <2>3
        <3>2. queue[b] \o <<>> = queue[b]
            BY <2>1
        <3>3. \A j \in 1 .. k : sent[j] # b
            BY <1>6, <2>3 DEF ToSet
        <3> QED
            BY <3>1, <3>2, <3>3
    <2> QED
        BY <2>2, <2>3
<1>10. queue' \in [Agents -> Seq(Env)]
    <2>1. ASSUME NEW b \in Agents PROVE queue'[b] \in Seq(Env)
        <3>1. queue[b] \in Seq(Env)
            BY <1>3
        <3>2. \A e \in Env : Append(queue[b], e) \in Seq(Env)
            BY <3>1, Appended DEF Longer
        <3> QED
            BY <1>9, <3>1, <3>2
    <2> DEFINE F(b) == queue[b] \o IF b \in ToSet(sent)
                           THEN <<[id |-> accepted + CHOOSE j \in DOMAIN sent : sent[j] = b,
                                   correlation |-> NoCorrelation, attempts |-> 0]>>
                           ELSE <<>>
    <2>2. queue' = [b \in Agents |-> F(b)]
        BY <1>2, Zenon
    <2> HIDE DEF F
    <2>3. queue' = [b \in Agents |-> queue'[b]]
        BY <2>2
    <2> QED
        BY <2>1, <2>3
<1>11. MsgTypes'
    <2>1. accepted' \in 0 .. MaxMessages
        BY <1>3, <1>8
    <2> QED
        BY <1>2, <1>3, <1>10, <2>1 DEF MsgInv, MsgTypes
<1>12. Quiet'
    <2>1. \A b \in Agents \ registered' : queue'[b] = queue[b]
        <3> SUFFICES ASSUME NEW b \in Agents, b \notin registered' PROVE queue'[b] = queue[b]
            OBVIOUS
        <3>1. b \notin {a, manager, requester}
            BY <1>2, <1>3
        <3>2. \A j \in 1 .. k : sent[j] # b
            BY <1>6, <3>1
        <3> QED
            BY <1>9, <3>2
    <2>2. clock = "paused" => \A b \in Agents : queue'[b] = queue[b]
        <3>1. clock = "paused" => k = 0
            BY <1>4, <1>5
        <3> QED
            BY <1>9, <3>1
    <2> QED
        BY <1>2, <2>1, <2>2 DEF MsgInv, Quiet, QuietWhenPaused
<1>13. EachPlaced'
    <2>1. PICK who : who = [j \in n + 1 .. n + k |-> sent[j - n]]
        OBVIOUS
    <2>2. \A j \in n + 1 .. n + k : j - n \in 1 .. k /\ n + (j - n) = j
        OBVIOUS
    <2>3. \A j \in 1 .. k : n + j \in n + 1 .. n + k /\ (n + j) - n = j
        OBVIOUS
    <2>4. who \in [n + 1 .. n + k -> Agents]
        BY <1>2, <1>3, <1>6, <2>1, <2>2
    <2>5. \A i, j \in n + 1 .. n + k : who[i] = who[j] => i = j
        <3> SUFFICES ASSUME NEW i \in n + 1 .. n + k, NEW j \in n + 1 .. n + k, who[i] = who[j]
                     PROVE  i = j
            OBVIOUS
        <3>1. i - n = j - n
            BY <1>6, <2>1, <2>2
        <3> QED
            BY <2>2, <3>1
    <2>6. ASSUME NEW b \in Agents
          PROVE  \/ \E j \in n + 1 .. n + k, e \in Env :
                       who[j] = b /\ e.id = j /\ queue'[b] = Append(queue[b], e)
                 \/ (\A j \in n + 1 .. n + k : who[j] # b) /\ queue'[b] = queue[b]
        <3>1. CASE \E j \in 1 .. k, e \in Env :
                      sent[j] = b /\ e.id = n + j /\ queue'[b] = Append(queue[b], e)
            <4>1. PICK j \in 1 .. k, e \in Env :
                      sent[j] = b /\ e.id = n + j /\ queue'[b] = Append(queue[b], e)
                BY <3>1
            <4>2. n + j \in n + 1 .. n + k /\ who[n + j] = b
                BY <2>1, <2>3, <4>1
            <4> QED
                BY <4>1, <4>2
        <3>2. CASE (\A j \in 1 .. k : sent[j] # b) /\ queue'[b] = queue[b]
            BY <2>1, <2>2, <3>2
        <3> QED
            BY <1>9, <3>1, <3>2
    <2>7. accepted <= accepted' /\ accepted' \in 0 .. MaxMessages /\ n = accepted /\ n + k = accepted'
        BY <1>3, <1>7, <1>8
    <2>8. /\ who \in [accepted + 1 .. accepted' -> Agents]
          /\ \A i, j \in accepted + 1 .. accepted' : who[i] = who[j] => i = j
          /\ \A b \in Agents :
                \/ \E j \in accepted + 1 .. accepted', e \in Env :
                      who[j] = b /\ e.id = j /\ queue'[b] = Append(queue[b], e)
                \/ (\A j \in accepted + 1 .. accepted' : who[j] # b) /\ queue'[b] = queue[b]
        BY <2>4, <2>5, <2>6, <2>7
    <2> QED
        BY <1>2, <2>7, <2>8, Arrives DEF MsgInv
<1> QED
    BY <1>11, <1>12, <1>13 DEF MsgInv

LEMMA MsgInvStep ==
    ASSUME MsgInv, [Next]_vars
    PROVE  MsgInv'
<1>1. CASE \E s, a \in Agents : HandleLoop(s, a)
    <2>1. PICK s \in Agents, a \in Agents : HandleLoop(s, a)
        BY <1>1
    <2>2. /\ strikes' = [strikes EXCEPT ![a] = IF @ < LoopStrikes THEN @ + 1 ELSE @]
          /\ suspended' \subseteq suspended \cup {a}
          /\ UNCHANGED <<clock, active, registered, served>>
          /\ UNCHANGED <<accepted, queue, seen, dlq>>
          /\ UNCHANGED <<inbox, status, work, dead, settled>>
        BY <2>1 DEF HandleLoop, staff, queueVars, agentVars
    <2>3. strikes \in [Agents -> 0 .. LoopStrikes] /\ LoopStrikes \in Nat
        BY MessagingConstants DEF MsgInv, MsgTypes, MessagingConstants
    <2>4. strikes' \in [Agents -> 0 .. LoopStrikes]
        <3>1. (IF strikes[a] < LoopStrikes THEN strikes[a] + 1 ELSE strikes[a]) \in 0 .. LoopStrikes
            BY <2>3
        <3> QED
            BY <2>2, <2>3, <3>1
    <2>5. suspended' \subseteq Agents /\ clock' \in {"running", "pausing", "paused"}
        BY <2>2 DEF MsgInv, MsgTypes
    <2> QED
        BY <2>2, <2>4, <2>5, Untouched
<1>2. CASE \E s, a \in Agents : NotifySenderInvalid(s, a) \/ NotifySlowDown(s, a) \/ Watchdog(s, a)
    BY <1>2, SystemSendKeeps DEF NotifySenderInvalid, NotifySlowDown, Watchdog, Nudge,
       NotifyManagerUnhealthy
<1>3. CASE \E a \in Agents : Suspend(a) \/ LiftSuspension(a) \/ Fire(a)
    <2>1. PICK a \in Agents : Suspend(a) \/ LiftSuspension(a) \/ Fire(a)
        BY <1>3
    <2>2. /\ active' \subseteq active /\ suspended' \subseteq suspended \cup {a}
          /\ UNCHANGED <<clock, registered, served, strikes>>
          /\ UNCHANGED <<accepted, queue, seen, dlq>>
          /\ UNCHANGED <<inbox, status, work, dead, settled>>
        BY <2>1 DEF Suspend, LiftSuspension, Fire, staff, queueVars, agentVars
    <2>3. /\ suspended' \subseteq Agents /\ clock' \in {"running", "pausing", "paused"}
          /\ strikes' \in [Agents -> 0 .. LoopStrikes]
        BY <2>2 DEF MsgInv, MsgTypes
    <2> QED
        BY <2>2, <2>3, Untouched
<1>4. CASE Pause \/ FinalisePause \/ Resume \/ UNCHANGED vars
    <2>1. /\ clock' = clock \/ clock' \in {"running", "pausing"} \/ (clock' = "paused" /\ CompanyIdle)
          /\ UNCHANGED <<active, registered, served, suspended, strikes>>
          /\ UNCHANGED <<accepted, queue, seen, dlq>>
          /\ UNCHANGED <<inbox, status, work, dead, settled>>
        <3>1. CASE Pause \/ FinalisePause \/ Resume
            BY <3>1 DEF Pause, FinalisePause, Resume, gates, staff, queueVars, agentVars
        <3>2. CASE UNCHANGED vars
            BY <3>2 DEF vars, gates, staff, queueVars, agentVars
        <3> QED
            BY <1>4, <3>1, <3>2
    <2>2. /\ suspended' \subseteq Agents /\ clock' \in {"running", "pausing", "paused"}
          /\ strikes' \in [Agents -> 0 .. LoopStrikes]
        BY <2>1 DEF MsgInv, MsgTypes
    <2> QED
        BY <2>1, <2>2, Untouched
<1>5. ASSUME NEW a \in Agents, TurnCompletes(a) \/ TurnFails(a) PROVE MsgInv'
    <2>1. \E result \in AgentStatus : EndTurn(a, result)
        BY <1>5 DEF TurnCompletes, TurnFails, AgentStatus
    <2>2. dead' \subseteq Agents
        BY <1>5 DEF TurnCompletes, TurnFails, MsgInv, MsgTypes
    <2> QED
        BY <2>1, <2>2, EndTurnKeeps
<1> QED
    BY <1>1, <1>2, <1>3, <1>4, <1>5, HireKeeps, SendKeeps, SystemSendKeeps, DispatchKeeps,
       DispatchFailsKeeps, RequeueKeeps, TakeKeeps, PutBackKeeps DEF Next

LEMMA MsgInvInit ==
    ASSUME Init
    PROVE  MsgInv
<1>1. LoopStrikes \in Nat /\ MaxMessages \in Nat
    BY MessagingConstants DEF MessagingConstants
<1>2. /\ queue = [a \in Agents |-> <<>>] /\ inbox = [a \in Agents |-> <<>>]
      /\ work = [a \in Agents |-> 0] /\ status = [a \in Agents |-> "idle"]
      /\ accepted = 0 /\ settled = {} /\ dlq = {} /\ clock = "running"
      /\ registered \subseteq Agents /\ active = registered /\ served = registered
      /\ suspended = {} /\ dead = {} /\ strikes = [a \in Agents |-> 0]
      /\ seen = [a \in Agents |-> {}]
    BY DEF Init
<1>3. MsgTypes
    <2>1. queue \in [Agents -> Seq(Env)] /\ inbox \in [Agents -> Seq(Ids)]
        BY <1>2
    <2>2. status \in [Agents -> AgentStatus] /\ work \in [Agents -> {0} \cup Ids]
        BY <1>2 DEF AgentStatus
    <2>3. strikes \in [Agents -> 0 .. LoopStrikes] /\ accepted \in 0 .. MaxMessages
        BY <1>1, <1>2
    <2>4. seen \in [Agents -> SUBSET Correlations]
        BY <1>2
    <2> QED
        BY <1>2, <2>1, <2>2, <2>3, <2>4 DEF MsgTypes
<1>4. Quiet
    BY <1>2 DEF Quiet, QuietWhenPaused
<1>5. EachPlaced
    <2>1. PICK to, place : to = [m \in 1 .. 0 |-> CHOOSE a \in Agents : TRUE]
                           /\ place = [m \in 1 .. 0 |-> "queue"]
        OBVIOUS
    <2>2. 1 .. 0 = {}
        OBVIOUS
    <2>3. to \in [1 .. 0 -> Agents] /\ place \in [1 .. 0 -> PlaceNames]
        BY <2>1, <2>2
    <2>4. \A a, k : At(0, to, place, a, k) = {}
        BY <2>2 DEF At
    <2>5. Numbers(<<>>) = <<>>
        BY <2>2 DEF Numbers
    <2>6. Placed(0, to, place)
        BY <1>2, <2>2, <2>3, <2>4, <2>5, ListsNone DEF Placed
    <2> QED
        BY <1>2, <2>6 DEF EachPlaced
<1> QED
    BY <1>3, <1>4, <1>5 DEF MsgInv

\* Where in the sequences of L number m is.
SpotsOf(L, M, m) == {p \in Agents \X (1 .. M) : p[2] <= Len(L[p[1]]) /\ L[p[1]][p[2]] = m}

\* The sequences of L hold the messages that are at place h.
Hold(L, n, to, place, h) == \A b \in Agents : Lists(L[b], At(n, to, place, b, h))

\* A message is listed once at its place, and nowhere else.
LEMMA Spots ==
    ASSUME NEW L, NEW n \in Nat, NEW M \in Nat, n <= M, NEW to, NEW place, NEW h,
           Hold(L, n, to, place, h), NEW m \in 1 .. n, to[m] \in Agents
    PROVE  Cardinality(SpotsOf(L, M, m)) = IF place[m] = h THEN 1 ELSE 0
<1> DEFINE S == {p \in Agents \X (1 .. M) : p[2] <= Len(L[p[1]]) /\ L[p[1]][p[2]] = m}
<1> SUFFICES Cardinality(S) = IF place[m] = h THEN 1 ELSE 0
    BY DEF SpotsOf
<1>1. ASSUME NEW b \in Agents
      PROVE  /\ Len(L[b]) \in Nat /\ Len(L[b]) <= M
             /\ \A i, j \in 1 .. Len(L[b]) : L[b][i] = L[b][j] => i = j
             /\ At(n, to, place, b, h) = {L[b][i] : i \in 1 .. Len(L[b])}
    <2>1. Lists(L[b], At(n, to, place, b, h)) /\ At(n, to, place, b, h) \subseteq 1 .. n
        BY DEF At, Hold
    <2>2. Len(L[b]) \in Nat /\ Len(L[b]) <= n
        BY <2>1, ListsShort
    <2>3. Len(L[b]) <= M
        BY <2>2
    <2> QED
        BY <2>1, <2>2, <2>3 DEF Lists
<1>2. ASSUME NEW p \in S PROVE p[1] = to[m] /\ place[m] = h /\ p[2] \in 1 .. Len(L[p[1]])
    <2>1. p[1] \in Agents /\ p[2] \in 1 .. M /\ p[2] <= Len(L[p[1]]) /\ L[p[1]][p[2]] = m
        OBVIOUS
    <2>2. p[2] \in 1 .. Len(L[p[1]])
        BY <1>1, <2>1
    <2>3. m \in At(n, to, place, p[1], h)
        BY <1>1, <2>1, <2>2
    <2> QED
        BY <2>2, <2>3 DEF At
<1>3. CASE place[m] = h
    <2>1. m \in At(n, to, place, to[m], h)
        BY <1>3 DEF At
    <2>2. PICK i \in 1 .. Len(L[to[m]]) : L[to[m]][i] = m
        BY <1>1, <2>1
    <2>3. i \in 1 .. M /\ i <= Len(L[to[m]])
        BY <1>1, <2>2
    <2>4. <<to[m], i>> \in S
        BY <2>2, <2>3
    <2>5. ASSUME NEW p \in S PROVE p = <<to[m], i>>
        <3>1. p[1] = to[m] /\ p[2] \in 1 .. Len(L[to[m]]) /\ L[to[m]][p[2]] = m
            BY <1>2
        <3>2. p[2] = i
            BY <1>1, <2>2, <3>1
        <3> QED
            BY <3>1, <3>2
    <2>6. S = {<<to[m], i>>}
        <3> HIDE DEF S
        <3> QED
            BY <2>4, <2>5
    <2> HIDE DEF S
    <2>7. Cardinality(S) = 1
        BY <2>6, FS_Singleton
    <2> QED
        BY <1>3, <2>7 DEF S
<1>4. CASE place[m] # h
    <2>1. S = {}
        BY <1>2, <1>4
    <2> QED
        BY <1>4, <2>1, FS_EmptySet
<1> QED
    BY <1>3, <1>4

LEMMA EachOnce ==
    ASSUME MsgInv, NEW m \in 1 .. accepted
    PROVE  Copies(m) = 1
<1>1. PICK n, to, place : n = accepted /\ Placed(n, to, place)
    BY DEF MsgInv, EachPlaced
<1>2. /\ n \in Nat /\ n <= MaxMessages /\ MaxMessages \in Nat /\ m \in 1 .. n /\ m # 0
      /\ to[m] \in Agents /\ place[m] \in PlaceNames
    BY <1>1, MessagingConstants DEF MsgInv, MsgTypes, MessagingConstants, Placed
<1> DEFINE Spot(h) == IF place[m] = h THEN 1 ELSE 0
<1>3. Cardinality({p \in Agents \X (1 .. MaxMessages) :
                      p[2] <= Len(queue[p[1]]) /\ queue[p[1]][p[2]].id = m}) = Spot("queue")
    <2>1. PICK L : L = [b \in Agents |-> Numbers(queue[b])]
        OBVIOUS
    <2>2. Hold(L, n, to, place, "queue")
        BY <1>1, <2>1 DEF Placed, Hold
    <2>3. Cardinality(SpotsOf(L, MaxMessages, m)) = Spot("queue")
        <3>1. Cardinality(SpotsOf(L, MaxMessages, m)) = IF place[m] = "queue" THEN 1 ELSE 0
            BY <1>2, <2>2, Spots
        <3> QED
            BY <3>1
    <2>4. ASSUME NEW b \in Agents, NEW i \in 1 .. MaxMessages
          PROVE  i <= Len(L[b]) /\ L[b][i] = m <=> i <= Len(queue[b]) /\ queue[b][i].id = m
        <3>1. queue[b] \in Seq(Env) /\ L[b] = Numbers(queue[b])
            BY <2>1 DEF MsgInv, MsgTypes
        <3>2. /\ Len(L[b]) = Len(queue[b]) /\ Len(queue[b]) \in Nat
              /\ \A j \in 1 .. Len(queue[b]) : L[b][j] = queue[b][j].id
            BY <3>1, NumbersAre
        <3>3. i <= Len(queue[b]) => i \in 1 .. Len(queue[b])
            BY <3>2
        <3> QED
            BY <3>2, <3>3
    <2>5. SpotsOf(L, MaxMessages, m)
             = {p \in Agents \X (1 .. MaxMessages) :
                   p[2] <= Len(queue[p[1]]) /\ queue[p[1]][p[2]].id = m}
        BY <2>4 DEF SpotsOf
    <2> QED
        BY <2>3, <2>5
<1>4. Cardinality({p \in Agents \X (1 .. MaxMessages) :
                      p[2] <= Len(inbox[p[1]]) /\ inbox[p[1]][p[2]] = m}) = Spot("inbox")
    <2>1. Hold(inbox, n, to, place, "inbox")
        BY <1>1 DEF Placed, Hold
    <2>2. Cardinality(SpotsOf(inbox, MaxMessages, m)) = Spot("inbox")
        BY <1>2, <2>1, Spots
    <2> QED
        BY <2>2 DEF SpotsOf
<1>5. Cardinality({a \in Agents : work[a] = m}) = Spot("work")
    <2>1. \A a \in Agents : work[a] = m <=> a = to[m] /\ place[m] = "work"
        BY <1>1, <1>2 DEF Placed, At
    <2>2. CASE place[m] = "work"
        <3>1. {a \in Agents : work[a] = m} = {to[m]}
            BY <1>2, <2>1, <2>2
        <3> QED
            BY <2>2, <3>1, FS_Singleton
    <2>3. CASE place[m] # "work"
        <3>1. {a \in Agents : work[a] = m} = {}
            BY <2>1, <2>3
        <3> QED
            BY <2>3, <3>1, FS_EmptySet
    <2> QED
        BY <2>2, <2>3
<1>6. /\ Cardinality({m} \cap settled) = Spot("settled")
      /\ Cardinality({m} \cap dlq) = Spot("dlq")
    <2>1. (m \in settled <=> place[m] = "settled") /\ (m \in dlq <=> place[m] = "dlq")
        BY <1>1, <1>2 DEF Placed
    <2>2. \A T : Cardinality({m} \cap T) = IF m \in T THEN 1 ELSE 0
        <3> SUFFICES ASSUME NEW T PROVE Cardinality({m} \cap T) = IF m \in T THEN 1 ELSE 0
            OBVIOUS
        <3>1. CASE m \in T
            <4>1. {m} \cap T = {m}
                BY <3>1
            <4> QED
                BY <3>1, <4>1, FS_Singleton
        <3>2. CASE m \notin T
            <4>1. {m} \cap T = {}
                BY <3>2
            <4> QED
                BY <3>2, <4>1, FS_EmptySet
        <3> QED
            BY <3>1, <3>2
    <2> QED
        BY <2>1, <2>2
<1>7. Spot("queue") + Spot("inbox") + Spot("work") + Spot("settled") + Spot("dlq") = 1
    BY <1>2 DEF PlaceNames
<1> HIDE DEF Spot
<1> QED
    BY <1>3, <1>4, <1>5, <1>6, <1>7 DEF Copies

\* The type invariant of the messages.
THEOREM MessagingTypes == Spec => []TypeOK
<1>1. Init => MsgInv
    BY MsgInvInit
<1>2. MsgInv /\ [Next]_vars => MsgInv'
    BY MsgInvStep
<1>3. MsgInv => TypeOK
    <2> SUFFICES ASSUME MsgTypes PROVE TypeOK
        BY DEF MsgInv
    <2>1. ASSUME NEW a \in Agents
          PROVE  /\ \A i \in 1 .. Len(queue[a]) : queue[a][i] \in Env
                 /\ \A i \in 1 .. Len(inbox[a]) : inbox[a][i] \in Ids
        <3>1. queue[a] \in Seq(Env) /\ inbox[a] \in Seq(Ids)
            BY DEF MsgTypes
        <3> QED
            BY <3>1
    <2> QED
        BY <2>1 DEF MsgTypes, TypeOK, Env
<1> QED
    BY <1>1, <1>2, <1>3, PTL DEF Spec

\* Every accepted message is at exactly one place.
THEOREM NoMessageLost == Spec => []NothingLost
<1>1. Init => MsgInv
    BY MsgInvInit
<1>2. MsgInv /\ [Next]_vars => MsgInv'
    BY MsgInvStep
<1>3. MsgInv => NothingLost
    BY EachOnce DEF NothingLost
<1> QED
    BY <1>1, <1>2, <1>3, PTL DEF Spec

\* A paused company has no turn running and nothing queued.
THEOREM PauseIsQuiet == Spec => []QuietWhenPaused
<1>1. Init => MsgInv
    BY MsgInvInit
<1>2. MsgInv /\ [Next]_vars => MsgInv'
    BY MsgInvStep
<1>3. MsgInv => QuietWhenPaused
    BY DEF MsgInv, Quiet
<1> QED
    BY <1>1, <1>2, <1>3, PTL DEF Spec
=============================================================================
