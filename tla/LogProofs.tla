------------------------------ MODULE LogProofs ------------------------------
(***************************************************************************)
(* A project's output: the ring keeps the last lines, the line buffer cuts *)
(* what is read, and the files hold the last lines written.                *)
(***************************************************************************)
EXTENDS LogEntryProperties, WellFoundedInduction, TLAPS

(* The ring: one push.                                                     *)

\* Below two turns of the ring, % takes at most one turn away.
LEMMA OneTurn ==
  ASSUME NEW x \in 0 .. 2 * Cap - 1
  PROVE  x % Cap = IF x < Cap THEN x ELSE x - Cap
<1>1. CASE x < Cap
  BY <1>1, RingAssumption
<1>2. CASE x >= Cap
  BY <1>2, RingAssumption
<1> QED BY <1>1, <1>2, RingAssumption

\* The slot of the i-th line from head on.
SlotOf(h, i) == IF h + i < Cap THEN h + i ELSE h + i - Cap

\* % computes it, and it is a slot.
LEMMA SlotIs ==
  ASSUME NEW h \in Slots, NEW i \in Slots
  PROVE  (h + i) % Cap = SlotOf(h, i) /\ SlotOf(h, i) \in Slots
  BY OneTurn, RingAssumption DEF Slots, SlotOf

\* The slot after a slot.
LEMMA NextHead ==
  ASSUME NEW h \in Slots
  PROVE  (h + 1) % Cap = (IF h + 1 < Cap THEN h + 1 ELSE 0) /\ (h + 1) % Cap \in Slots
  BY OneTurn, RingAssumption DEF Slots

\* A sequence is the function of its members.
LEMMA SeqIsFunction ==
  ASSUME NEW S, NEW s \in Seq(S)
  PROVE  s = [i \in 1 .. Len(s) |-> s[i]]
  OBVIOUS
\* pushLocked keeps the fields in range and fills the slot after the last line.
LEMMA PutTyping ==
  ASSUME RingTypeOK, NEW v \in Values, Put(v)
  PROVE  /\ buf' \in [Slots -> Values \cup {Zero}] /\ head' \in Slots /\ count' \in 0 .. Cap
         /\ \A i \in 1 .. count' : (buf[(head + i - 1) % Cap])' \in Values
<1>1. Cap \in Nat \ {0} /\ head \in Slots /\ count \in 0 .. Cap
  BY RingAssumption DEF RingTypeOK
<1>2. \A i \in 1 .. count : buf[SlotOf(head, i - 1)] \in Values
  <2> SUFFICES ASSUME NEW i \in 1 .. count PROVE buf[SlotOf(head, i - 1)] \in Values
    OBVIOUS
  <2>1. i - 1 \in Slots /\ head + (i - 1) = head + i - 1
    BY <1>1 DEF Slots
  <2> QED BY <2>1, <1>1, SlotIs DEF RingTypeOK
<1>3. CASE count < Cap
  <2>1. count \in Slots BY <1>1, <1>3 DEF Slots
  <2>2. /\ buf' = [buf EXCEPT ![SlotOf(head, count)] = v] /\ head' = head /\ count' = count + 1
    BY <2>1, <1>1, <1>3, SlotIs DEF Put
  <2>3. ASSUME NEW i \in 1 .. count + 1 PROVE buf'[(head + i - 1) % Cap] \in Values
    <3>1. i - 1 \in Slots /\ head + (i - 1) = head + i - 1
      BY <1>1, <1>3 DEF Slots
    <3>2. (head + i - 1) % Cap = SlotOf(head, i - 1) /\ SlotOf(head, i - 1) \in Slots
      BY <3>1, <1>1, SlotIs
    <3>3. CASE i = count + 1 BY <3>2, <3>3, <2>2, <1>1 DEF RingTypeOK
    <3>4. CASE i \in 1 .. count
      BY <3>2, <3>4, <2>2, <1>1, <1>2 DEF RingTypeOK
    <3> QED BY <3>3, <3>4, <1>1
  <2> QED BY <2>2, <2>3, <1>1, <1>3, SlotIs, <2>1 DEF RingTypeOK
<1>4. CASE ~(count < Cap)
  <2>1. count = Cap /\ (head + count) % Cap = head
    BY <1>1, <1>4, OneTurn DEF Slots
  <2>2. /\ buf' = [buf EXCEPT ![head] = v] /\ head' = (head + 1) % Cap /\ count' = Cap
        /\ head' \in Slots
    BY <2>1, <1>1, <1>4, NextHead DEF Put
  <2>3. ASSUME NEW i \in 1 .. Cap PROVE buf'[(head' + i - 1) % Cap] \in Values
    <3>1. i - 1 \in Slots /\ head' + (i - 1) = head' + i - 1
      BY <1>1, <2>2 DEF Slots
    <3>2. (head' + i - 1) % Cap = SlotOf(head', i - 1) /\ SlotOf(head', i - 1) \in Slots
      BY <3>1, <2>2, SlotIs
    <3>3. CASE i = Cap
      <4>1. SlotOf(head', i - 1) = head
        BY <3>3, <2>2, <1>1, NextHead DEF SlotOf, Slots
      <4> QED BY <4>1, <3>2, <2>2, <1>1 DEF RingTypeOK
    <3>4. CASE i < Cap
      <4>1. SlotOf(head', i - 1) = SlotOf(head, (i + 1) - 1) /\ i + 1 \in 1 .. count
        BY <3>4, <2>1, <2>2, <1>1, NextHead DEF SlotOf, Slots
      <4> QED BY <4>1, <3>2, <2>2, <1>1, <1>2 DEF RingTypeOK
    <3> QED BY <3>3, <3>4, <1>1
  <2> QED BY <2>2, <2>3, <1>1 DEF RingTypeOK
<1> QED BY <1>3, <1>4

\* pushLocked appends to what Snapshot returns, and evicts its first line when full.
LEMMA PutAppends ==
  ASSUME RingTypeOK, NEW v \in Values, Put(v)
  PROVE  T!Add(v)
<1>1. Cap \in Nat \ {0} /\ head \in Slots /\ count \in 0 .. Cap
  BY RingAssumption DEF RingTypeOK
<1>2. Snapshot \in Seq(Values) /\ Len(Snapshot) = count
  BY <1>1 DEF Snapshot, RingTypeOK
<1>3. Append(Snapshot, v) \in Seq(Values) /\ Len(Append(Snapshot, v)) = count + 1
  BY <1>2
<1>4. \A i \in 1 .. count : /\ i - 1 \in Slots
                           /\ Append(Snapshot, v)[i] = buf[SlotOf(head, i - 1)]
  <2> SUFFICES ASSUME NEW i \in 1 .. count
               PROVE  i - 1 \in Slots /\ Append(Snapshot, v)[i] = buf[SlotOf(head, i - 1)]
    OBVIOUS
  <2>1. i - 1 \in Slots /\ head + (i - 1) = head + i - 1
    BY <1>1 DEF Slots
  <2>2. Append(Snapshot, v)[i] = Snapshot[i] BY <1>1, <1>2
  <2> QED BY <2>1, <2>2, <1>1, SlotIs DEF Snapshot
<1>5. Append(Snapshot, v)[count + 1] = v BY <1>1, <1>2
<1>6. CASE count < Cap
  <2>1. count \in Slots BY <1>1, <1>6 DEF Slots
  <2>2. /\ buf' = [buf EXCEPT ![SlotOf(head, count)] = v] /\ head' = head /\ count' = count + 1
        /\ SlotOf(head, count) \in Slots
    BY <2>1, <1>1, <1>6, SlotIs DEF Put
  <2>3. T!LastOf(Append(Snapshot, v), Cap) = Append(Snapshot, v)
    BY <1>1, <1>3, <1>6 DEF T!LastOf
  <2>4. \A i \in 1 .. count + 1 : Snapshot'[i] = Append(Snapshot, v)[i]
    <3> SUFFICES ASSUME NEW i \in 1 .. count + 1
                 PROVE  Snapshot'[i] = Append(Snapshot, v)[i]
      OBVIOUS
    <3>1. i - 1 \in Slots /\ head + (i - 1) = head + i - 1
      BY <1>1, <1>6 DEF Slots
    <3>2. Snapshot'[i] = buf'[SlotOf(head, i - 1)] /\ SlotOf(head, i - 1) \in Slots
      BY <3>1, <2>2, <1>1, SlotIs DEF Snapshot
    <3>3. CASE i = count + 1 BY <3>2, <3>3, <2>2, <1>1, <1>5 DEF RingTypeOK
    <3>4. CASE i \in 1 .. count
      <4>1. SlotOf(head, i - 1) # SlotOf(head, count)
        BY <3>4, <1>1, <1>6 DEF SlotOf, Slots
      <4> QED BY <4>1, <3>2, <3>4, <2>2, <1>4 DEF RingTypeOK
    <3>5. i = count + 1 \/ i \in 1 .. count BY <1>1
    <3> QED BY <3>3, <3>4, <3>5
  <2>5. Snapshot' = [i \in 1 .. count + 1 |-> Snapshot'[i]]
    BY <2>2 DEF Snapshot
  <2>6. Append(Snapshot, v) = [i \in 1 .. count + 1 |-> Append(Snapshot, v)[i]]
    BY <1>3, SeqIsFunction
  <2> QED BY <2>3, <2>4, <2>5, <2>6 DEF T!Add
<1>7. CASE ~(count < Cap)
  <2>1. count = Cap /\ (head + count) % Cap = head
    BY <1>1, <1>7, OneTurn DEF Slots
  <2>2. /\ buf' = [buf EXCEPT ![head] = v] /\ head' = (head + 1) % Cap /\ count' = Cap
        /\ head' \in Slots
    BY <2>1, <1>1, <1>7, NextHead DEF Put
  <2>3. T!LastOf(Append(Snapshot, v), Cap) = SubSeq(Append(Snapshot, v), 2, Cap + 1)
    BY <1>1, <1>3, <2>1 DEF T!LastOf
  <2>4. SubSeq(Append(Snapshot, v), 2, Cap + 1) = [i \in 1 .. Cap |-> Append(Snapshot, v)[i + 1]]
    BY <1>1, <1>3, <2>1
  <2>5. \A i \in 1 .. Cap : Snapshot'[i] = Append(Snapshot, v)[i + 1]
    <3> SUFFICES ASSUME NEW i \in 1 .. Cap
                 PROVE  Snapshot'[i] = Append(Snapshot, v)[i + 1]
      OBVIOUS
    <3>1. i - 1 \in Slots /\ head' + (i - 1) = head' + i - 1
      BY <1>1, <2>2 DEF Slots
    <3>2. Snapshot'[i] = buf'[SlotOf(head', i - 1)] /\ SlotOf(head', i - 1) \in Slots
      BY <3>1, <2>2, <1>1, SlotIs DEF Snapshot
    <3>3. CASE i = Cap
      <4>1. SlotOf(head', i - 1) = head
        BY <3>3, <2>2, <1>1, NextHead DEF SlotOf, Slots
      <4> QED BY <4>1, <3>2, <3>3, <2>1, <2>2, <1>1, <1>5 DEF RingTypeOK
    <3>4. CASE i < Cap
      <4>1. /\ SlotOf(head', i - 1) = SlotOf(head, (i + 1) - 1) /\ i + 1 \in 1 .. count
            /\ SlotOf(head', i - 1) # head
        BY <3>4, <2>1, <2>2, <1>1, NextHead DEF SlotOf, Slots
      <4> QED BY <4>1, <3>2, <2>2, <1>1, <1>4 DEF RingTypeOK
    <3>5. i = Cap \/ i < Cap BY <1>1
    <3> QED BY <3>3, <3>4, <3>5
  <2>6. Snapshot' = [i \in 1 .. Cap |-> Snapshot'[i]]
    BY <2>2 DEF Snapshot
  <2> QED BY <2>3, <2>4, <2>5, <2>6 DEF T!Add
<1> QED BY <1>6, <1>7
-----------------------------------------------------------------------------
(* The whole ring.                                                         *)

\* What PushMany is given is a sequence of lines.
LEMMA BatchesAre == \A vs \in Batches : vs \in Seq(Values)
  BY DEF Batches

\* pushing over the whole ring leaves the last Cap of the lines given.
LEMMA PushOverTyping ==
  ASSUME RingTypeOK, NEW vs \in Seq(Values), PushOver(vs)
  PROVE  RingTypeOK' /\ T!Replace(vs)
<1>1. Cap \in Nat \ {0} /\ Len(vs) \in Nat /\ Len(vs) >= Cap /\ todo' = todo
  BY RingAssumption DEF PushOver
<1>2. head' = 0 /\ count' = Cap /\ buf' = [i \in Slots |-> vs[Len(vs) - Cap + i + 1]]
  BY DEF PushOver
<1>3. \A i \in Slots : vs[Len(vs) - Cap + i + 1] \in Values
  BY <1>1 DEF Slots
<1>4. \A i \in 1 .. Cap : (head' + i - 1) % Cap = i - 1 /\ i - 1 \in Slots
  BY <1>1, <1>2, OneTurn DEF Slots
<1>5. RingTypeOK'
  BY <1>1, <1>2, <1>3, <1>4 DEF RingTypeOK, Slots
<1>6. Snapshot' = [i \in 1 .. Cap |-> vs[Len(vs) - Cap + (i - 1) + 1]]
  BY <1>2, <1>4 DEF Snapshot
<1>7. T!LastOf(vs, Cap) = [i \in 1 .. Cap |-> vs[Len(vs) - Cap + (i - 1) + 1]]
  <2>1. CASE Len(vs) = Cap
    <3>1. vs = [i \in 1 .. Cap |-> vs[i]] BY <2>1, <1>1
    <3>2. \A i \in 1 .. Cap : Len(vs) - Cap + (i - 1) + 1 = i BY <2>1, <1>1
    <3> QED BY <3>1, <3>2, <2>1, <1>1 DEF T!LastOf
  <2>2. CASE Len(vs) > Cap
    <3>1. T!LastOf(vs, Cap) = SubSeq(vs, Len(vs) - Cap + 1, Len(vs))
      BY <2>2, <1>1 DEF T!LastOf
    <3>2. SubSeq(vs, Len(vs) - Cap + 1, Len(vs))
            = [i \in 1 .. Cap |-> vs[Len(vs) - Cap + (i - 1) + 1]]
      BY <1>1, <2>2
    <3> QED BY <3>1, <3>2
  <2> QED BY <2>1, <2>2, <1>1
<1> QED BY <1>1, <1>5, <1>6, <1>7 DEF T!Replace

\* Every step keeps the fields in range and is a step of the tail, or none.
LEMMA RingStep ==
  ASSUME RingTypeOK, [RingNext]_ring
  PROVE  RingTypeOK' /\ [T!TailNext]_Snapshot
<1>1. ASSUME NEW v \in Values, Push(v)
      PROVE  RingTypeOK' /\ [T!TailNext]_Snapshot
  <2>1. Put(v) /\ todo' = todo BY <1>1 DEF Push
  <2> QED BY <2>1, PutTyping, PutAppends DEF T!TailNext, RingTypeOK
<1>2. ASSUME NEW vs \in Batches, PushOver(vs)
      PROVE  RingTypeOK' /\ [T!TailNext]_Snapshot
  <2>1. vs \in Seq(Values) BY BatchesAre
  <2> QED BY <1>2, <2>1, PushOverTyping DEF T!TailNext
<1>3. ASSUME NEW vs \in Batches, PushMany(vs)
      PROVE  RingTypeOK' /\ [T!TailNext]_Snapshot
  BY <1>3, BatchesAre DEF PushMany, RingTypeOK, Snapshot
<1>4. ASSUME PushNext
      PROVE  RingTypeOK' /\ [T!TailNext]_Snapshot
  <2>1. Head(todo) \in Values /\ Tail(todo) \in Seq(Values)
    BY <1>4 DEF PushNext, RingTypeOK
  <2>2. Put(Head(todo)) /\ todo' = Tail(todo) BY <1>4 DEF PushNext
  <2> QED BY <2>1, <2>2, PutTyping, PutAppends DEF T!TailNext, RingTypeOK
<1>5. ASSUME Clear
      PROVE  RingTypeOK' /\ [T!TailNext]_Snapshot
  <2>1. Snapshot' = <<>> BY <1>5 DEF Clear, Snapshot
  <2>2. RingTypeOK' BY <1>5, RingAssumption DEF Clear, RingTypeOK, Slots
  <2> QED BY <2>1, <2>2 DEF T!TailNext, T!Empty
<1>6. ASSUME UNCHANGED ring
      PROVE  RingTypeOK' /\ [T!TailNext]_Snapshot
  BY <1>6 DEF ring, RingTypeOK, Snapshot
<1> QED BY <1>1, <1>2, <1>3, <1>4, <1>5, <1>6 DEF RingNext

\* The fields stay within the ring (ringbuffer.go).
THEOREM RingTyping == RingSpec => []RingTypeOK
<1>1. RingInit => RingTypeOK
  BY RingAssumption DEF RingInit, RingTypeOK, Slots
<1>2. RingTypeOK /\ [RingNext]_ring => RingTypeOK'
  BY RingStep
<1> QED BY <1>1, <1>2, PTL DEF RingSpec

\* The ring shows the last Cap lines pushed since it was cleared, for every Cap.
THEOREM RingKeepsTail == RingSpec => KeepsTail
<1>1. RingInit => T!TailInit
  BY DEF RingInit, T!TailInit, Snapshot
<1>2. RingTypeOK /\ [RingNext]_ring => [T!TailNext]_Snapshot
  BY RingStep
<1> QED BY <1>1, <1>2, RingTyping, PTL DEF RingSpec, KeepsTail, T!TailSpec
-----------------------------------------------------------------------------
(* Induction over numbers, for the loop of the line buffer.                *)

\* Every set of numbers that is not empty has a least one.
LEMMA LeastNumber ==
  ASSUME NEW S, S \subseteq Nat, S # {}
  PROVE  \E n \in S : \A m \in S : n <= m
<1> DEFINE Less == OpToRel(<, Nat)
<1>1. IsWellFoundedOn(Less, Nat)
  BY NatLessThanWellFounded, Zenon
<1>2. PICK n \in S : \A m \in S : <<m, n>> \notin Less
  <2> HIDE DEF Less
  <2> QED BY <1>1, WFMin, Zenon
<1>3. ASSUME NEW m \in S PROVE ~(m < n)
  <2>1. m < n => <<m, n>> \in Less
    BY Zenon DEF OpToRel
  <2> QED BY <2>1, <1>2
<1> QED BY <1>3

\* Induction from 0 to n.
LEMMA Induction ==
  ASSUME NEW S, NEW n \in Nat, 0 \in S, \A i \in 0 .. n - 1 : i \in S => i + 1 \in S
  PROVE  0 .. n \subseteq S
<1> DEFINE R == (0 .. n) \ S
<1>1. SUFFICES ASSUME R # {} PROVE FALSE
  OBVIOUS
<1>2. R \subseteq Nat
  OBVIOUS
<1>3. PICK i \in R : \A j \in R : i <= j
  <2> HIDE DEF R
  <2> QED BY <1>1, <1>2, LeastNumber
<1>4. i # 0 /\ i \in 1 .. n /\ i \notin S
  OBVIOUS
<1>5. i - 1 \in 0 .. n - 1 /\ i - 1 \notin R
  BY <1>3, <1>4
<1>6. i - 1 \in S
  BY <1>5
<1>7. (i - 1) + 1 = i
  BY <1>4
<1> QED BY <1>4, <1>5, <1>6, <1>7

Begun == [start |-> 1, lines |-> <<>>]

\* The loop is the function it says it is.
LEMMA LoopIs ==
  ASSUME NEW B, NEW c \in Seq(B)
  PROVE  Loop(c) = [i \in 0 .. Len(c) |-> IF i = 0 THEN Begun ELSE FeedByte(c, Loop(c)[i - 1], i)]
<1> DEFINE IsLoop(n, g) == g = [i \in 0 .. n |-> IF i = 0 THEN Begun ELSE FeedByte(c, g[i - 1], i)]
           S == {n \in Nat : \E g : IsLoop(n, g)}
<1>1. 0 \in S
  <2> DEFINE g == [i \in 0 .. 0 |-> Begun]
  <2>1. IsLoop(0, g)
    OBVIOUS
  <2> QED BY <2>1
<1>2. ASSUME NEW n \in Nat, n \in S PROVE n + 1 \in S
  <2>1. PICK g : IsLoop(n, g)
    BY <1>2
  <2> DEFINE e == FeedByte(c, g[n], n + 1)
             h == [i \in 0 .. n + 1 |-> IF i = n + 1 THEN e ELSE g[i]]
  <2>2. \A i \in 0 .. n : g[i] = IF i = 0 THEN Begun ELSE FeedByte(c, g[i - 1], i)
    BY <2>1
  <2> HIDE DEF IsLoop
  <2>3. ASSUME NEW i \in 0 .. n + 1
        PROVE  h[i] = IF i = 0 THEN Begun ELSE FeedByte(c, h[i - 1], i)
    <3>1. CASE i = n + 1
      <4>1. i # 0 /\ i - 1 = n /\ n # n + 1 /\ n \in 0 .. n + 1
        BY <3>1
      <4>2. h[i - 1] = g[n] /\ h[i] = e
        BY <4>1, <3>1
      <4> QED BY <4>1, <4>2, <3>1
    <3>2. CASE i \in 1 .. n
      <4>1. i # 0 /\ i # n + 1 /\ i - 1 # n + 1 /\ i - 1 \in 0 .. n + 1 /\ i \in 0 .. n
        BY <3>2
      <4>2. h[i - 1] = g[i - 1] /\ h[i] = g[i]
        BY <4>1
      <4> QED BY <4>1, <4>2, <2>2
    <3>3. CASE i = 0
      <4>1. h[0] = g[0] /\ 0 \in 0 .. n
        OBVIOUS
      <4> QED BY <4>1, <3>3, <2>2
    <3> QED BY <3>1, <3>2, <3>3
  <2>4. h = [i \in 0 .. n + 1 |-> h[i]]
    OBVIOUS
  <2> HIDE DEF h
  <2>5. h = [i \in 0 .. n + 1 |-> IF i = 0 THEN Begun ELSE FeedByte(c, h[i - 1], i)]
    BY <2>3, <2>4
  <2>6. IsLoop(n + 1, h)
    BY <2>5 DEF IsLoop
  <2> QED BY <2>6
<1>3. Len(c) \in S
  <2>1. Len(c) \in Nat
    OBVIOUS
  <2> HIDE DEF S
  <2>2. 0 .. Len(c) \subseteq S
    BY <2>1, <1>1, <1>2, Induction
  <2> QED BY <2>1, <2>2
<1>4. PICK g : IsLoop(Len(c), g)
  BY <1>3
<1> QED BY <1>4 DEF Loop, Begun

\* Feed's loop starts with nothing and takes one byte after the other.
LEMMA LoopStep ==
  ASSUME NEW B, NEW c \in Seq(B)
  PROVE  Loop(c)[0] = Begun /\ \A i \in 1 .. Len(c) : Loop(c)[i] = FeedByte(c, Loop(c)[i - 1], i)
<1> DEFINE f == [i \in 0 .. Len(c) |-> IF i = 0 THEN Begun ELSE FeedByte(c, Loop(c)[i - 1], i)]
<1>1. Loop(c) = f
  BY LoopIs
<1>2. 0 \in 0 .. Len(c) /\ \A i \in 1 .. Len(c) : i \in 0 .. Len(c) /\ i # 0
  OBVIOUS
<1>3. f[0] = Begun /\ \A i \in 1 .. Len(c) : f[i] = FeedByte(c, Loop(c)[i - 1], i)
  BY <1>2
<1> QED BY <1>1, <1>3
-----------------------------------------------------------------------------
(* The line buffer.                                                        *)

\* How far a forced split goes back.
Back(c, cap, floor) == {k \in 0 .. 3 : k <= cap - floor /\ \A j \in 0 .. k - 1 : Continues(c[cap - j])}

Furthest(c, cap, floor, k) ==
  /\ k \in Back(c, cap, floor) /\ \A j \in Back(c, cap, floor) : j <= k
  /\ SafeSplit(c, cap, floor) = IF cap - k = floor THEN cap ELSE cap - k

\* There is a longest way back.
LEMMA BackIs ==
  ASSUME NEW c, NEW cap \in Nat, NEW floor \in Nat, floor < cap
  PROVE  \E k : Furthest(c, cap, floor, k)
<1> DEFINE S == Back(c, cap, floor)
           m == CHOOSE k \in S : \A j \in S : j <= k
<1>1. 0 \in S /\ S \subseteq 0 .. 3
  BY DEF Back
<1>2. \E k \in S : \A j \in S : j <= k
  <2>1. CASE 3 \in S
    BY <2>1, <1>1
  <2>2. CASE 3 \notin S /\ 2 \in S
    BY <2>2, <1>1
  <2>3. CASE 3 \notin S /\ 2 \notin S /\ 1 \in S
    BY <2>3, <1>1
  <2>4. CASE 3 \notin S /\ 2 \notin S /\ 1 \notin S
    BY <2>4, <1>1
  <2> QED BY <2>1, <2>2, <2>3, <2>4
<1>3. m \in S /\ \A j \in S : j <= m
  BY <1>2
<1>4. SafeSplit(c, cap, floor) = IF cap - m = floor THEN cap ELSE cap - m
  BY DEF SafeSplit, Back
<1> QED BY <1>3, <1>4 DEF Furthest

\* A forced split leaves something on either side.
LEMMA SplitWithin ==
  ASSUME NEW c, NEW cap \in Nat, NEW floor \in Nat, floor < cap
  PROVE  SafeSplit(c, cap, floor) \in floor + 1 .. cap
<1>1. PICK k : Furthest(c, cap, floor, k)
  BY BackIs
<1>2. k \in 0 .. 3 /\ k <= cap - floor
  BY <1>1 DEF Furthest, Back
<1> QED BY <1>1, <1>2 DEF Furthest

Line(B) == [bytes : Seq(B), partial : BOOLEAN]

\* A carriage return with its newline behind it.
AtPair(c, i) == i \in 1 .. Len(c) - 1 /\ c[i] = CR /\ c[i + 1] = LF

\* After i bytes: no line end is left behind, what is kept is no longer than a line may
\* be, and every line has taken up a byte.
Progress(B) == [start : Nat, lines : Seq(Line(B))]
Fed(B, c, s, i) ==
  /\ s \in Progress(B) /\ s.start \in 1 .. Len(c) + 1
  /\ IF AtPair(c, i) THEN s.start = i + 2 ELSE s.start <= i + 1
  /\ i + 1 - s.start <= MaxLineSize
  /\ \A j \in s.start .. i : c[j] \notin {CR, LF}
  /\ Len(s.lines) < s.start

\* A cut at a line end, and one within a line.
CutWhole(c, s, end, from) == Cut(c, s, end, from, FALSE)
CutPart(c, s, end, from) == Cut(c, s, end, from, TRUE)

\* A cut adds a line and goes on behind it.
LEMMA CutIs ==
  ASSUME NEW B, NEW c \in Seq(B), NEW s \in Progress(B), s.start \in 1 .. Len(c) + 1,
         NEW end \in 0 .. Len(c), NEW from \in Nat,
         NEW t, t \in {CutWhole(c, s, end, from), CutPart(c, s, end, from)}
  PROVE  t \in Progress(B) /\ t.start = from /\ Len(t.lines) = Len(s.lines) + 1
<1>1. s.lines \in Seq(Line(B))
  BY DEF Progress
<1>2. SubSeq(c, s.start, end) \in Seq(B)
  OBVIOUS
<1>3. PICK ln \in Line(B) : t = [start |-> from, lines |-> Append(s.lines, ln)]
  <2>1. CASE t = CutPart(c, s, end, from)
    <3> DEFINE ln == [bytes |-> SubSeq(c, s.start, end), partial |-> TRUE]
    <3>1. ln \in Line(B)
      BY <1>2 DEF Line
    <3>2. t = [start |-> from, lines |-> Append(s.lines, ln)]
      BY <2>1, Zenon DEF Cut, CutWhole, CutPart
    <3> QED BY <3>1, <3>2, Zenon
  <2>2. CASE t = CutWhole(c, s, end, from)
    <3> DEFINE ln == [bytes |-> SubSeq(c, s.start, end), partial |-> FALSE]
    <3>1. ln \in Line(B)
      BY <1>2 DEF Line
    <3>2. t = [start |-> from, lines |-> Append(s.lines, ln)]
      BY <2>2, Zenon DEF Cut, CutWhole, CutPart
    <3> QED BY <3>1, <3>2, Zenon
  <2> QED BY <2>1, <2>2
<1>5. Append(s.lines, ln) \in Seq(Line(B)) /\ Len(Append(s.lines, ln)) = Len(s.lines) + 1
  BY <1>1
<1> QED BY <1>3, <1>5 DEF Progress

\* One byte.
LEMMA FeedByteKeeps ==
  ASSUME NEW B, NEW c \in Seq(B), NEW i \in 1 .. Len(c), NEW s, Fed(B, c, s, i - 1)
  PROVE  Fed(B, c, FeedByte(c, s, i), i)
<1> SUFFICES ASSUME NEW t, t = FeedByte(c, s, i) PROVE Fed(B, c, t, i)
  OBVIOUS
<1>0. /\ Len(c) \in Nat /\ i \in Nat /\ CR # LF /\ MaxLineSize \in Nat \ {0}
      /\ s \in Progress(B) /\ s.start \in 1 .. Len(c) + 1 /\ s.lines \in Seq(Line(B)) /\ Len(s.lines) \in Nat
      /\ i - s.start <= MaxLineSize /\ Len(s.lines) < s.start
      /\ \A j \in s.start .. i - 1 : c[j] \notin {CR, LF}
  <2>1. (i - 1) + 1 - s.start = i - s.start
    BY DEF Fed
  <2>2. s \in Progress(B) => s.lines \in Seq(Line(B)) /\ Len(s.lines) \in Nat
    BY DEF Progress
  <2> QED BY <2>1, <2>2, EntryAssumption DEF Fed, CR, LF
<1>1. CASE AtPair(c, i - 1)
  <2>1. c[i] = LF /\ c[i - 1] = CR /\ i > 1
    BY <1>1, <1>0 DEF AtPair
  <2>2. s.start = i + 1
    BY <1>1, <1>0 DEF Fed
  <2>3. t = s
    BY <2>1, <1>0 DEF FeedByte
  <2>4. ~AtPair(c, i)
    BY <2>1, <1>0 DEF AtPair
  <2> QED BY <1>0, <2>2, <2>3, <2>4 DEF Fed
<1>2. CASE ~AtPair(c, i - 1)
  <2>0. s.start <= i
    BY <1>2, <1>0 DEF Fed
  <2>1. CASE AtPair(c, i)
    <3>0. i < Len(c) /\ c[i] = CR /\ c[i + 1] = LF
      BY <2>1, <1>0 DEF AtPair
    <3>1. t = CutWhole(c, s, i - 1, i + 2)
      BY <3>0, <1>0, Zenon DEF FeedByte, CutWhole, CutPart
    <3>2. i - 1 \in 0 .. Len(c) /\ i + 2 \in 1 .. Len(c) + 1
      BY <3>0, <1>0
    <3>3. t \in Progress(B) /\ t.start = i + 2 /\ Len(t.lines) = Len(s.lines) + 1
      <4>1. i + 2 \in Nat /\ i - 1 \in 0 .. Len(c)
        BY <3>2, <1>0
      <4> QED BY <3>1, <4>1, <1>0, CutIs
    <3> QED BY <3>2, <3>3, <2>0, <2>1, <1>0 DEF Fed
  <2>2. CASE ~AtPair(c, i) /\ c[i] = CR
    <3>0. ~(i < Len(c) /\ c[i + 1] = LF)
      BY <2>2, <1>0 DEF AtPair
    <3>1. t = [s EXCEPT !.start = i + 1]
      BY <2>2, <3>0, <1>0, Zenon DEF FeedByte, CutWhole, CutPart
    <3>2. t \in Progress(B) /\ t.start = i + 1 /\ t.lines = s.lines
      BY <3>1, <1>0 DEF Progress
    <3> QED BY <3>2, <2>0, <2>2, <1>0 DEF Fed
  <2>3. CASE c[i] = LF
    <3>0. ~(i > 1 /\ c[i - 1] = CR)
      BY <1>0, <1>2, <2>3 DEF AtPair
    <3>1. t = CutWhole(c, s, i - 1, i + 1)
      BY <2>3, <1>0, <3>0, Zenon DEF FeedByte, CutWhole, CutPart
    <3>2. i - 1 \in 0 .. Len(c) /\ ~AtPair(c, i)
      BY <2>3, <1>0 DEF AtPair
    <3>3. t \in Progress(B) /\ t.start = i + 1 /\ Len(t.lines) = Len(s.lines) + 1
      <4>1. i + 1 \in Nat /\ i - 1 \in 0 .. Len(c)
        BY <3>2, <1>0
      <4> QED BY <3>1, <4>1, <1>0, CutIs
    <3> QED BY <3>2, <3>3, <2>0, <1>0 DEF Fed
  <2>4. CASE c[i] \notin {CR, LF} /\ i - s.start < MaxLineSize
    <3>1. t = s
      BY <2>4, <1>0 DEF FeedByte
    <3>2. ~AtPair(c, i)
      BY <2>4 DEF AtPair
    <3>3. \A j \in s.start .. i : c[j] \notin {CR, LF}
      BY <1>0, <2>0, <2>4
    <3> QED BY <3>1, <3>2, <3>3, <2>0, <2>4, <1>0 DEF Fed
  <2>5. CASE c[i] \notin {CR, LF} /\ ~(i - s.start < MaxLineSize)
    <3> DEFINE at == SafeSplit(c, s.start + MaxLineSize, s.start)
    <3>1. t = CutPart(c, s, at - 1, at)
      BY <2>5, <1>0, Zenon DEF FeedByte, CutWhole, CutPart
    <3>2. s.start + MaxLineSize = i
      BY <2>5, <1>0
    <3>3. at \in s.start + 1 .. i
      BY <3>2, <1>0, SplitWithin
    <3>4. ~AtPair(c, i)
      BY <2>5 DEF AtPair
    <3> HIDE DEF at
    <3>5. at - 1 \in 0 .. Len(c) /\ at \in 1 .. Len(c) + 1 /\ at \in Nat
      BY <3>3, <1>0
    <3>6. t \in Progress(B) /\ t.start = at /\ Len(t.lines) = Len(s.lines) + 1
      <4>1. t \in {CutWhole(c, s, at - 1, at), CutPart(c, s, at - 1, at)}
        BY <3>1
      <4>2. s \in Progress(B) /\ s.start \in 1 .. Len(c) + 1
        BY <1>0
      <4> QED BY <3>5, <4>1, <4>2, CutIs
    <3>7. \A j \in at .. i : c[j] \notin {CR, LF}
      BY <1>0, <3>3, <2>5
    <3> QED BY <3>2, <3>3, <3>4, <3>5, <3>6, <3>7, <1>0 DEF Fed
  <2> QED BY <2>1, <2>2, <2>3, <2>4, <2>5
<1> QED BY <1>1, <1>2

\* So at the end of every chunk.
LEMMA LoopKeeps ==
  ASSUME NEW B, NEW c \in Seq(B)
  PROVE  \A i \in 0 .. Len(c) : Fed(B, c, Loop(c)[i], i)
<1> DEFINE S == {i \in 0 .. Len(c) : Fed(B, c, Loop(c)[i], i)}
<1>1. 0 \in S
  <2>1. Loop(c)[0] = Begun /\ ~AtPair(c, 0) /\ Len(c) \in Nat
    BY LoopStep DEF AtPair
  <2>2. Fed(B, c, Begun, 0)
    <3>1. Begun \in Progress(B) /\ Begun.start = 1 /\ Begun.lines = <<>>
      BY DEF Begun, Progress
    <3> QED BY <2>1, <3>1, EntryAssumption DEF Fed
  <2> QED BY <2>1, <2>2
<1>2. ASSUME NEW i \in 0 .. Len(c) - 1, i \in S PROVE i + 1 \in S
  <2>1. i + 1 \in 1 .. Len(c) /\ (i + 1) - 1 = i /\ i + 1 \in 0 .. Len(c)
    OBVIOUS
  <2>2. Fed(B, c, Loop(c)[i], i)
    BY <1>2
  <2>3. Loop(c)[i + 1] = FeedByte(c, Loop(c)[i], i + 1)
    BY <2>1, LoopStep
  <2> QED BY <2>1, <2>2, <2>3, FeedByteKeeps
<1>3. Len(c) \in Nat
  OBVIOUS
<1> HIDE DEF S
<1>4. 0 .. Len(c) \subseteq S
  BY <1>1, <1>2, <1>3, Induction
<1> QED BY <1>4 DEF S

\* What Feed returns: lines and what is kept of a line, no more of them than bytes.
LEMMA FeedIs ==
  ASSUME NEW B, NEW c \in Seq(B)
  PROVE  /\ FeedAll(c).lines \in Seq(Line(B)) /\ FeedAll(c).kept \in Seq(B)
         /\ Len(FeedAll(c).kept) <= MaxLineSize
         /\ Len(FeedAll(c).lines) + Len(FeedAll(c).kept) <= Len(c)
         /\ \A j \in 1 .. Len(FeedAll(c).kept) : FeedAll(c).kept[j] \notin {CR, LF}
<1> DEFINE n == Len(c)
           s == Loop(c)[n]
           kept == SubSeq(c, s.start, n)
<1>1. Fed(B, c, s, n) /\ n \in Nat /\ ~AtPair(c, n)
  BY LoopKeeps DEF AtPair
<1>2. FeedAll(c).lines = s.lines /\ FeedAll(c).kept = kept
  BY DEF FeedAll
<1> HIDE DEF s
<1>3. s.lines \in Seq(Line(B)) /\ s.start \in 1 .. n + 1 /\ Len(s.lines) < s.start /\ n + 1 - s.start <= MaxLineSize
  <2>1. s \in Progress(B) => s.lines \in Seq(Line(B))
    BY DEF Progress
  <2> QED BY <1>1, <2>1 DEF Fed
<1>4. kept \in Seq(B) /\ Len(kept) = n + 1 - s.start /\ \A j \in 1 .. Len(kept) : kept[j] = c[s.start + j - 1]
  BY <1>1, <1>3
<1>5. \A j \in s.start .. n : c[j] \notin {CR, LF}
  BY <1>1 DEF Fed
<1>6. \A j \in 1 .. Len(kept) : s.start + j - 1 \in s.start .. n
  BY <1>1, <1>3, <1>4
<1>7. Len(s.lines) \in Nat
  BY <1>3
<1> HIDE DEF kept
<1>8. Len(s.lines) + Len(kept) <= n
  BY <1>1, <1>3, <1>4, <1>7
<1> QED BY <1>2, <1>3, <1>4, <1>5, <1>6, <1>8, EntryAssumption
-----------------------------------------------------------------------------
(* WriteRaw, from the bytes to the ring.                                   *)

\* What was read is in lines or kept.
ReadInv ==
  /\ stream \in Streams /\ pos \in 0 .. Len(stream)
  /\ part \in Seq(Range(stream)) /\ out \in Seq(Line(Range(stream)))
  /\ Len(part) <= MaxLineSize /\ Len(out) + Len(part) <= pos
\* No more lines are numbered than there are numbers for.
NumberInv ==
  /\ life \in 1 .. MaxLives /\ base \in Nat
  /\ \E s \in Streams : Len(stream) <= Len(s) /\ base + Len(s) <= life * Len(s)
\* Where the goroutine is, in the list of lines and in a rotation.
PlaceInv ==
  /\ pc \in {"read", "push", "write", "close", "drop", "shift", "main", "open"}
  /\ next \in base + 1 .. base + Len(out) + 1
  /\ pc = "read" <=> next = base + Len(out) + 1
FileInv ==
  /\ file \in {"open", "none", "dead"}
  /\ shift \in 0 .. Backups - 1 /\ (pc = "shift" => shift >= 1)
  /\ unseen \in BOOLEAN
EntryInv == RingTypeOK /\ ReadInv /\ NumberInv /\ PlaceInv /\ FileInv

\* A step to the next line keeps the goroutine's place.
LEMMA NextLinePlace ==
  ASSUME PlaceInv, ReadInv, NumberInv, NextLine, pc # "read", UNCHANGED <<base, out>>
  PROVE  PlaceInv' /\ pc' # "shift"
<1>1. base \in Nat /\ Len(out) \in Nat
  BY DEF ReadInv, NumberInv
<1> QED BY <1>1 DEF PlaceInv, NextLine

\* What a child prints is a sequence of bytes.
LEMMA StreamIs == \A s \in Streams : s \in Seq(Range(s)) /\ Len(s) \in Nat
  BY EntryAssumption

\* A product of numbers is no less for a larger factor.
LEMMA Larger ==
  ASSUME NEW n \in Nat, NEW a \in Nat, NEW b \in Nat, a <= b
  PROVE  n * a <= n * b /\ a * n <= b * n
<1>1. PICK d \in Nat : b = a + d
  <2>1. b - a \in Nat /\ b = a + (b - a)
    OBVIOUS
  <2> QED BY <2>1
<1>2. n * d \in Nat /\ n * b = n * a + n * d /\ b * n = a * n + n * d /\ n * a \in Nat
  BY <1>1
<1> QED BY <1>2

\* The line to store has a number in Values.
LEMMA NextIsLine ==
  ASSUME EntryInv, pc # "read"
  PROVE  next \in Values
<1>1. PICK s \in Streams : Len(stream) <= Len(s) /\ base + Len(s) <= life * Len(s)
  BY DEF EntryInv, NumberInv
<1>2. Len(s) \in Nat /\ life \in Nat /\ MaxLives \in Nat /\ life <= MaxLives /\ Len(stream) \in Nat
  BY EntryAssumption, StreamIs DEF EntryInv, NumberInv, ReadInv
<1>3. life * Len(s) <= MaxLives * Len(s) /\ life * Len(s) \in Nat /\ MaxLives * Len(s) \in Nat
  BY <1>2, Larger
<1>4. Len(out) \in Nat /\ Len(part) \in Nat /\ Len(out) <= Len(stream) /\ base \in Nat
  BY <1>2 DEF EntryInv, ReadInv, NumberInv
<1>5. next \in Nat /\ next >= 1 /\ next <= base + Len(out)
  BY <1>4 DEF EntryInv, PlaceInv
<1>6. next \in 1 .. MaxLives * Len(s)
  BY <1>1, <1>2, <1>3, <1>4, <1>5
<1> QED BY <1>6, EntryAssumption

\* It begins so.
LEMMA EntryStarts == Init => EntryInv
<1> SUFFICES ASSUME Init PROVE EntryInv
  OBVIOUS
<1>1. stream \in Seq(Range(stream)) /\ Len(stream) \in Nat /\ stream \in Streams
  BY StreamIs DEF Init
<1>2. RingTypeOK
  BY RingAssumption DEF Init, RingInit, RingTypeOK, Slots
<1>3. ReadInv
  BY <1>1, EntryAssumption DEF Init, ReadInv
<1>4. NumberInv
  <2>1. base + Len(stream) <= life * Len(stream)
    BY <1>1 DEF Init
  <2> QED BY <1>1, <2>1, EntryAssumption DEF Init, NumberInv
<1>5. PlaceInv /\ FileInv
  BY EntryAssumption DEF Init, PlaceInv, FileInv, Opened
<1> QED BY <1>2, <1>3, <1>4, <1>5 DEF EntryInv

\* A read adds its lines and keeps the rest.
LEMMA ReadKeeps ==
  ASSUME EntryInv, Read
  PROVE  ReadInv' /\ PlaceInv'
<1> DEFINE B == Range(stream)
<1>0. /\ stream \in Seq(B) /\ Len(stream) \in Nat /\ pos \in 0 .. Len(stream) /\ part \in Seq(B)
      /\ out \in Seq(Line(B)) /\ Len(out) + Len(part) <= pos /\ base \in Nat /\ stream \in Streams
  BY StreamIs DEF EntryInv, ReadInv, NumberInv
<1>1. PICK n \in 1 .. Len(stream) - pos :
        LET fed == Feed(part, SubSeq(stream, pos + 1, pos + n)) IN
        /\ pos' = pos + n /\ part' = fed.kept /\ out' = out \o fed.lines
        /\ pc' = IF fed.lines = <<>> THEN "read" ELSE "push"
  BY DEF Read
<1> DEFINE chunk == SubSeq(stream, pos + 1, pos + n)
           c == part \o chunk
           fed == FeedAll(c)
<1> HIDE DEF B
<1>2. chunk \in Seq(B) /\ Len(chunk) = n
  BY <1>0
<1> HIDE DEF chunk
<1>3. c \in Seq(B) /\ Len(c) = Len(part) + n
  <2>1. part \in Seq(B)
    BY <1>0
  <2>2. c \in Seq(B) /\ Len(c) = Len(part) + Len(chunk)
    BY <2>1, <1>2
  <2> QED BY <2>2, <1>2
<1> HIDE DEF c
<1>4. /\ fed.lines \in Seq(Line(B)) /\ fed.kept \in Seq(B) /\ Len(fed.kept) <= MaxLineSize
      /\ Len(fed.lines) + Len(fed.kept) <= Len(c)
  BY <1>3, FeedIs
<1>5. Feed(part, chunk) = fed
  BY DEF Feed, c
<1> HIDE DEF fed
<1>6. /\ pos' = pos + n /\ part' = fed.kept /\ out' = out \o fed.lines
      /\ pc' = IF fed.lines = <<>> THEN "read" ELSE "push"
  BY <1>1, <1>5 DEF chunk
<1>7. out' \in Seq(Line(B)) /\ Len(out') = Len(out) + Len(fed.lines) /\ Len(fed.lines) \in Nat /\ Len(out) \in Nat
      /\ Len(fed.kept) \in Nat /\ Len(part) \in Nat
  BY <1>0, <1>4, <1>6
<1>8. Len(out') + Len(part') <= pos' /\ pos' \in 0 .. Len(stream)
  <2>1. n \in Nat /\ pos \in Nat /\ pos + n <= Len(stream)
    BY <1>0
  <2>2. Len(part') = Len(fed.kept) /\ pos' = pos + n
    BY <1>6
  <2>3. Len(fed.lines) + Len(fed.kept) <= Len(part) + n /\ Len(out) + Len(part) <= pos
    BY <1>0, <1>3, <1>4
  <2>4. \A a, b, d, e \in Nat : b + d <= e + n /\ a + e <= pos => (a + b) + d <= pos + n
    BY <2>1
  <2>5. (Len(out) + Len(fed.lines)) + Len(fed.kept) <= pos + n
    BY <2>3, <2>4, <1>7
  <2>6. Len(out') + Len(part') <= pos'
    BY <2>2, <2>5, <1>7
  <2> QED BY <2>1, <2>2, <2>6, <1>0
<1>9. UNCHANGED <<stream, base, next>> /\ pc = "read"
  BY DEF Read
<1>10. ReadInv'
  BY <1>0, <1>4, <1>6, <1>7, <1>8, <1>9 DEF ReadInv, B
<1>11. PlaceInv'
  <2>1. next = base + Len(out) + 1
    BY <1>9 DEF EntryInv, PlaceInv
  <2>2. CASE fed.lines = <<>>
    BY <2>1, <2>2, <1>0, <1>6, <1>7, <1>9 DEF PlaceInv
  <2>3. CASE fed.lines # <<>>
    <3>1. Len(fed.lines) > 0
      BY <2>3, <1>4
    <3> QED BY <2>1, <2>3, <3>1, <1>0, <1>6, <1>7, <1>9 DEF PlaceInv
  <2> QED BY <2>2, <2>3
<1> QED BY <1>10, <1>11

\* After a crash the numbers go on behind the lines of the lives before.
LEMMA CrashKeeps ==
  ASSUME EntryInv, Crash
  PROVE  ReadInv' /\ NumberInv' /\ PlaceInv'
<1>1. PICK s \in Streams : Len(stream) <= Len(s) /\ base + Len(s) <= life * Len(s)
  BY DEF EntryInv, NumberInv
<1>2. /\ Len(s) \in Nat /\ Len(stream) \in Nat /\ life \in Nat \ {0} /\ base \in Nat /\ life < MaxLives
      /\ Len(out) \in Nat /\ Len(out) <= Len(stream) /\ MaxLives \in Nat
  <2>1. Len(out) \in Nat /\ Len(part) \in Nat
    BY DEF EntryInv, ReadInv
  <2> QED BY <2>1, EntryAssumption, StreamIs DEF EntryInv, ReadInv, NumberInv, Crash
<1>3. stream' \in Streams /\ stream' \in Seq(Range(stream')) /\ Len(stream') \in Nat
  BY StreamIs DEF Crash
<1>4. /\ pos' = 0 /\ part' = <<>> /\ out' = <<>> /\ base' = base + Len(out)
      /\ next' = base + Len(out) + 1 /\ pc' = "read" /\ life' = life + 1
  BY DEF Crash
<1>5. ReadInv' /\ PlaceInv'
  BY <1>2, <1>3, <1>4, EntryAssumption DEF ReadInv, PlaceInv
<1>9. /\ life' \in 1 .. MaxLives /\ base' \in Nat
  BY <1>2, <1>4
<1>6. base' <= life * Len(s) /\ life * Len(s) \in Nat
  BY <1>1, <1>2, <1>4
<1>7. CASE Len(stream') <= Len(s)
  <2>1. (life + 1) * Len(s) = life * Len(s) + Len(s)
    BY <1>2
  <2>2. base' + Len(s) <= life' * Len(s)
    BY <2>1, <1>2, <1>4, <1>6
  <2> QED BY <1>5, <1>7, <1>9, <2>2, Zenon DEF NumberInv
<1>8. CASE ~(Len(stream') <= Len(s))
  <2>1. (life + 1) * Len(stream') = life * Len(stream') + Len(stream') /\ life * Len(stream') \in Nat
    BY <1>2, <1>3
  <2>2. life * Len(s) <= life * Len(stream')
    BY <1>2, <1>3, <1>8, Larger
  <2>3. base' + Len(stream') <= life' * Len(stream')
    BY <2>1, <2>2, <1>2, <1>3, <1>4, <1>6
  <2>4. Len(stream') <= Len(stream')
    BY <1>3
  <2> QED BY <1>3, <1>5, <1>9, <2>3, <2>4, Zenon DEF NumberInv
<1> QED BY <1>7, <1>8

\* A line goes to the ring as it is pushed to the tail.
LEMMA PushKeeps ==
  ASSUME EntryInv, PushLine
  PROVE  RingTypeOK' /\ T!Add(next) /\ next \in Values
<1>1. next \in Values
  BY NextIsLine DEF PushLine
<1>2. RingTypeOK /\ Put(next) /\ todo' = todo
  BY DEF EntryInv, PushLine, Push
<1> QED BY <1>1, <1>2, PutTyping, PutAppends DEF RingTypeOK

\* What empties the ring empties the tail.
LEMMA EmptyRing ==
  ASSUME buf' = [i \in Slots |-> Zero], head' = 0, count' = 0, todo' = <<>>
  PROVE  RingTypeOK' /\ T!Empty
<1>1. Snapshot' = <<>>
  BY DEF Snapshot
<1> QED BY <1>1, RingAssumption DEF RingTypeOK, Slots, T!Empty

\* Every step keeps the whole, and is one of the tail's, or none.
LEMMA EntryStep ==
  ASSUME EntryInv, [Next]_vars
  PROVE  EntryInv' /\ [T!TailNext]_Snapshot
<1>0. RingTypeOK /\ ReadInv /\ NumberInv /\ PlaceInv /\ FileInv /\ Backups \in Nat \ {0}
  BY EntryAssumption DEF EntryInv
<1>1. ASSUME UNCHANGED ring PROVE RingTypeOK' /\ UNCHANGED Snapshot
  BY <1>1, <1>0 DEF ring, RingTypeOK, Snapshot
<1>2. ASSUME UNCHANGED <<feed, life>> PROVE ReadInv' /\ NumberInv' /\ UNCHANGED <<base, out>>
  BY <1>2, <1>0 DEF feed, ReadInv, NumberInv
<1>3. CASE Read
  <2>1. ReadInv' /\ PlaceInv'
    BY <1>3, ReadKeeps
  <2>2. UNCHANGED <<stream, base, ring, file, shift, unseen, life>> /\ pc' \in {"read", "push"}
    BY <1>3 DEF Read, store
  <2>3. NumberInv' /\ FileInv'
    BY <2>2, <1>0 DEF NumberInv, FileInv
  <2> QED BY <2>1, <2>2, <2>3, <1>1 DEF EntryInv
<1>4. CASE PushLine
  <2>1. RingTypeOK' /\ [T!TailNext]_Snapshot
    BY <1>4, PushKeeps DEF T!TailNext
  <2>2. UNCHANGED <<feed, life, next, file, shift, unseen>> /\ pc = "push" /\ pc' = "write"
    BY <1>4 DEF PushLine, store
  <2>3. ReadInv' /\ NumberInv' /\ UNCHANGED <<base, out>>
    BY <2>2, <1>2
  <2>4. PlaceInv' /\ FileInv'
    BY <2>2, <2>3, <1>0 DEF PlaceInv, FileInv
  <2> QED BY <2>1, <2>3, <2>4 DEF EntryInv
<1>5. CASE WriteLine \/ WriteTorn
  <2>1. UNCHANGED <<feed, ring, life, shift, unseen>> /\ pc = "write" /\ file' = "open" /\ (GoOn("close") \/ NextLine)
    BY <1>5 DEF WriteLine, WriteTorn
  <2>2. ReadInv' /\ NumberInv' /\ UNCHANGED <<base, out>>
    BY <2>1, <1>2
  <2>3. PlaceInv' /\ pc' # "shift"
    BY <2>1, <2>2, <1>0, NextLinePlace DEF GoOn, PlaceInv
  <2>4. FileInv'
    BY <2>1, <2>3, <1>0 DEF FileInv
  <2> QED BY <2>1, <2>2, <2>3, <2>4, <1>1 DEF EntryInv
<1>6. CASE WriteFails \/ CloseFails \/ Reopen \/ RotationFails
  <2>1. /\ UNCHANGED <<feed, ring, life, shift, unseen>> /\ pc # "read" /\ NextLine
        /\ file' \in {"open", "none", "dead"}
    BY <1>6, <1>0 DEF WriteFails, CloseFails, Reopen, RotationFails, store, FileInv
  <2>2. ReadInv' /\ NumberInv' /\ UNCHANGED <<base, out>>
    BY <2>1, <1>2
  <2>3. PlaceInv' /\ pc' # "shift"
    BY <2>1, <2>2, <1>0, NextLinePlace
  <2>4. FileInv'
    BY <2>1, <2>3, <1>0 DEF FileInv
  <2> QED BY <2>1, <2>2, <2>3, <2>4, <1>1 DEF EntryInv
<1>7. CASE Close \/ Drop \/ Shift \/ MoveMain \/ PassOver
  <2>1. /\ UNCHANGED <<feed, ring, life>> /\ pc # "read"
        /\ \E p \in {"drop", "shift", "main", "open"} : GoOn(p)
    BY <1>7 DEF Close, Drop, Shift, MoveMain, PassOver
  <2>2. ReadInv' /\ NumberInv' /\ UNCHANGED <<base, out>>
    BY <2>1, <1>2
  <2>3. PlaceInv'
    BY <2>1, <2>2, <1>0 DEF GoOn, PlaceInv
  <2>4. FileInv'
    <3>1. CASE PassOver
      <4>1. unseen' \in BOOLEAN
        BY <3>1, <1>0 DEF PassOver, FileInv
      <4>2. file' = file /\ shift' \in 0 .. Backups - 1 /\ (pc' = "shift" => shift' >= 1)
        BY <3>1, <1>0 DEF PassOver, FileInv, GoOn
      <4> QED BY <4>1, <4>2, <1>0 DEF FileInv
    <3>2. CASE Close \/ Drop \/ Shift \/ MoveMain
      BY <3>2, <1>0 DEF FileInv, Close, Drop, Shift, MoveMain, GoOn
    <3> QED BY <3>1, <3>2, <1>7
  <2> QED BY <2>1, <2>2, <2>3, <2>4, <1>1 DEF EntryInv
<1>8. CASE ClearRing
  <2>1. RingTypeOK' /\ [T!TailNext]_Snapshot
    BY <1>8, EmptyRing DEF ClearRing, Clear, T!TailNext
  <2>2. UNCHANGED <<feed, life, next, pc, file, shift, unseen>>
    BY <1>8 DEF ClearRing, store
  <2>3. ReadInv' /\ NumberInv' /\ UNCHANGED <<base, out>>
    BY <2>2, <1>2
  <2>4. PlaceInv' /\ FileInv'
    BY <2>2, <2>3, <1>0 DEF PlaceInv, FileInv
  <2> QED BY <2>1, <2>3, <2>4 DEF EntryInv
<1>9. CASE Crash
  <2>1. RingTypeOK' /\ [T!TailNext]_Snapshot
    BY <1>9, EmptyRing DEF Crash, T!TailNext
  <2>2. ReadInv' /\ NumberInv' /\ PlaceInv'
    BY <1>9, CrashKeeps
  <2>3. FileInv'
    BY <1>9, <1>0 DEF Crash, FileInv, Opened
  <2> QED BY <2>1, <2>2, <2>3 DEF EntryInv
<1>10. CASE UNCHANGED vars
  <2>1. UNCHANGED <<ring, feed, life, next, pc, file, shift, unseen>>
    BY <1>10 DEF vars, store
  <2>2. ReadInv' /\ NumberInv' /\ UNCHANGED <<base, out>>
    BY <2>1, <1>2
  <2>3. PlaceInv' /\ FileInv'
    BY <2>1, <2>2, <1>0 DEF PlaceInv, FileInv
  <2> QED BY <2>1, <2>2, <2>3, <1>1 DEF EntryInv
<1> QED BY <1>3, <1>4, <1>5, <1>6, <1>7, <1>8, <1>9, <1>10 DEF Next, Rotate

\* The ring, the line buffer and the goroutine's place keep to their kinds, whatever
\* the child prints and wherever the reads end (WriteRaw, LineBuffer.Feed).
THEOREM EntryTyping == Spec => []TypeOK
<1>1. EntryInv => TypeOK
  BY DEF EntryInv, ReadInv, PlaceInv, FileInv, TypeOK
<1>2. EntryInv /\ [Next]_vars => EntryInv'
  BY EntryStep
<1> QED BY <1>1, <1>2, EntryStarts, PTL DEF Spec

\* The ring shows the last lines that were pushed to it since it was cleared or the
\* daemon started, however the pushes interleave with the file's rotation (WriteRaw).
THEOREM EntryKeepsTail == Spec => KeepsTail
<1>1. Init => T!TailInit
  BY DEF Init, RingInit, T!TailInit, Snapshot
<1>2. EntryInv /\ [Next]_vars => EntryInv' /\ [T!TailNext]_Snapshot
  BY EntryStep
<1> QED BY <1>1, <1>2, EntryStarts, PTL DEF Spec, KeepsTail, T!TailSpec
-----------------------------------------------------------------------------
(* The files.                                                              *)

\* The file that a rotation has just emptied, or the one that is written to.
Gap == IF pc = "shift" THEN shift + 1 ELSE IF pc = "main" THEN 1 ELSE 0
Files == 0 .. Backups
Lost == ~(Range(saved) \subseteq Held)
\* What a rotation nobody disturbed leaves: full files without a hole, and no line is
\* gone while one of them is empty.
Stacked ==
  /\ \A i \in Files \ {Gap} : disk[i] = <<>> \/ Len(disk[i]) >= MaxSize
  /\ \A i, j \in Files \ {Gap} : i < j /\ disk[j] # <<>> => disk[i] # <<>>
  /\ Lost => \A i \in Files \ {Gap} : disk[i] # <<>>
  /\ pc \in {"close", "drop"} => Len(disk[0]) >= MaxSize
\* No line behind one that is held is gone; the file that is moved to was emptied before.
Latest == \A x \in Held, y \in Range(saved) : x < y => y \in Held
Emptied == pc \in {"shift", "main"} => disk[Gap] = <<>>
\* Every line written so far has a smaller number than the next to be written.
SavedInv ==
  /\ saved \in Seq(Nat) /\ \A k, m \in DOMAIN saved : k < m => saved[k] < saved[m]
  /\ \A k \in DOMAIN saved : saved[k] <= next /\ (pc \in {"read", "push", "write"} => saved[k] < next)
HeldInv ==
  /\ disk \in [Files -> Seq(Nat)] /\ intact \in BOOLEAN
  /\ Held \subseteq Range(saved) /\ InOrder
  /\ ~unseen => Latest /\ Emptied
  /\ intact => Stacked /\ ~unseen

\* What is held is what is in some file.
LEMMA HeldIs ==
  \A x : x \in Held <=> \E i \in Files : \E a \in DOMAIN disk[i] : x = disk[i][a]
  BY DEF Held, Range, Files

\* A line is added behind those of a file.
LEMMA AddedTo ==
  ASSUME NEW s \in Seq(Nat), NEW v \in Nat, NEW t, t = Append(s, v)
  PROVE  /\ t \in Seq(Nat) /\ Len(t) = Len(s) + 1 /\ Range(t) = Range(s) \cup {v}
         /\ \A a \in DOMAIN t : (a \in DOMAIN s /\ t[a] = s[a]) \/ (a = Len(s) + 1 /\ t[a] = v)
         /\ \A a \in DOMAIN s : a \in DOMAIN t /\ a < Len(s) + 1 /\ t[a] = s[a]
<1>1. t \in Seq(Nat) /\ Len(t) = Len(s) + 1 /\ DOMAIN s = 1 .. Len(s) /\ DOMAIN t = 1 .. Len(s) + 1 /\ Len(s) \in Nat
  OBVIOUS
<1>2. \A a \in DOMAIN t : (a \in DOMAIN s /\ t[a] = s[a]) \/ (a = Len(s) + 1 /\ t[a] = v)
  BY <1>1
<1>3. \A a \in DOMAIN s : a \in DOMAIN t /\ a < Len(s) + 1 /\ t[a] = s[a]
  BY <1>1
<1>4. Len(s) + 1 \in DOMAIN t /\ t[Len(s) + 1] = v
  BY <1>1
<1>5. Range(t) = Range(s) \cup {v}
  BY <1>2, <1>3, <1>4 DEF Range
<1> QED BY <1>1, <1>2, <1>3, <1>5

\* No number passes the next line's.
LEMMA SavedBelow ==
  ASSUME SavedInv, next \in Nat
  PROVE  /\ \A x \in Range(saved) : x \in Nat /\ x <= next
         /\ pc = "write" => \A x \in Range(saved) : x < next
  BY DEF SavedInv, Range

\* A written line comes after all that were written.
LEMMA WriteSaves ==
  ASSUME EntryInv, SavedInv, WriteLine \/ WriteTorn
  PROVE  SavedInv'
<1>1. next \in Nat /\ pc = "write" /\ saved \in Seq(Nat) /\ saved' = Append(saved, next)
  <2>1. pc = "write" /\ saved' = Append(saved, next)
    BY DEF WriteLine, WriteTorn
  <2> QED BY <2>1 DEF EntryInv, PlaceInv, NumberInv, ReadInv, SavedInv
<1>2. \A k \in DOMAIN saved : saved[k] < next
  BY <1>1 DEF SavedInv
<1>3. /\ saved' \in Seq(Nat)
      /\ \A a \in DOMAIN saved' : (a \in DOMAIN saved /\ saved'[a] = saved[a]) \/ (a = Len(saved) + 1 /\ saved'[a] = next)
      /\ \A a \in DOMAIN saved : a < Len(saved) + 1 /\ a \in Nat
  BY <1>1, AddedTo
<1>4. (next' = next /\ pc' = "close") \/ next' = next + 1
  BY DEF WriteLine, WriteTorn, GoOn, NextLine
<1>5. ASSUME NEW k \in DOMAIN saved', NEW m \in DOMAIN saved', k < m PROVE saved'[k] < saved'[m]
  <2>1. k \in DOMAIN saved /\ saved'[k] = saved[k]
    BY <1>3, <1>5, <1>1
  <2>2. CASE m \in DOMAIN saved /\ saved'[m] = saved[m]
    <3>1. \A a, b \in DOMAIN saved : a < b => saved[a] < saved[b]
      BY DEF SavedInv
    <3>2. saved[k] < saved[m]
      BY <3>1, <2>1, <2>2, <1>5
    <3> QED BY <2>1, <2>2, <3>2
  <2>3. CASE m = Len(saved) + 1 /\ saved'[m] = next
    BY <2>1, <2>3, <1>2, <1>3
  <2> QED BY <2>2, <2>3, <1>3
<1>6. ASSUME NEW k \in DOMAIN saved' PROVE saved'[k] <= next' /\ (pc' \in {"read", "push", "write"} => saved'[k] < next')
  <2>1. saved'[k] \in Nat /\ saved'[k] <= next
    BY <1>1, <1>2, <1>3 DEF SavedInv
  <2> QED BY <2>1, <1>1, <1>4
<1> QED BY <1>3, <1>5, <1>6 DEF SavedInv

\* No other step writes a line, and none gives up a number.
LEMMA OthersSave ==
  ASSUME EntryInv, SavedInv, [Next]_vars, ~WriteLine, ~WriteTorn
  PROVE  SavedInv'
<1>1. saved' = saved
  BY DEF Next, Rotate, Read, PushLine, WriteFails, Close, CloseFails, Drop, Shift, MoveMain, Reopen, PassOver, RotationFails, ClearRing, Crash, vars, store
<1>2. next \in Nat /\ base \in Nat /\ Len(out) \in Nat
  BY DEF EntryInv, PlaceInv, NumberInv, ReadInv
<1>3. \/ next' = next /\ (pc' \in {"read", "push", "write"} => pc \in {"read", "push", "write"})
      \/ next' = next + 1
      \/ pc = "read" /\ next' = next
      \/ pc # "read" /\ next' > next /\ next' \in Nat
  <2>1. CASE Crash
    <3>1. next' = base + Len(out) + 1
      BY <2>1 DEF Crash
    <3>2. pc = "read" => next' = next
      BY <3>1 DEF EntryInv, PlaceInv
    <3>3. pc # "read" => next <= base + Len(out)
      BY <1>2 DEF EntryInv, PlaceInv
    <3> QED BY <3>1, <3>2, <3>3, <1>2
  <2>2. CASE ~Crash
    BY <2>2 DEF Next, Rotate, Read, PushLine, WriteFails, Close, CloseFails, Drop, Shift, MoveMain, Reopen, PassOver, RotationFails, ClearRing, vars, NextLine, GoOn
  <2> QED BY <2>1, <2>2
<1>4. \A k \in DOMAIN saved : saved[k] \in Nat /\ saved[k] <= next /\ (pc \in {"read", "push", "write"} => saved[k] < next)
  BY DEF SavedInv
<1>5. ASSUME NEW k \in DOMAIN saved PROVE saved[k] <= next' /\ (pc' \in {"read", "push", "write"} => saved[k] < next')
  BY <1>2, <1>3, <1>4
<1> QED BY <1>1, <1>5 DEF SavedInv

\* What is true of the files is true of the same files.
LEMMA FilesAlone ==
  ASSUME HeldInv, UNCHANGED <<disk, saved>>, intact' = intact \/ intact' = FALSE,
         pc' \in {"shift", "main"} => unseen' \/ (pc' = pc /\ shift' = shift),
         pc' \in {"close", "drop"} => pc = "close", Gap' = Gap \/ ~intact',
         intact' => unseen' = unseen, unseen => unseen'
  PROVE  HeldInv'
<1>1. Held' = Held /\ (InOrder => InOrder') /\ (Latest => Latest') /\ (Gap' = Gap /\ Stacked => Stacked')
  BY DEF Held, InOrder, Stacked, Lost, Latest
<1>2. ~unseen' => (pc' \in {"shift", "main"} => disk[Gap'] = <<>>)
  BY DEF HeldInv, Gap, Emptied
<1>3. intact' \in BOOLEAN /\ (intact' => Stacked' /\ ~unseen')
  <2>1. CASE intact' = FALSE
    BY <2>1, Zenon
  <2>2. CASE intact' = intact /\ intact'
    <3>1. Stacked /\ ~unseen /\ unseen' = unseen /\ Gap' = Gap
      BY <2>2, Zenon DEF HeldInv
    <3> QED BY <2>2, <3>1, <1>1, Zenon
  <2>3. CASE intact' = intact /\ ~intact'
    BY <2>3, Zenon DEF HeldInv
  <2> QED BY <2>1, <2>2, <2>3, Zenon
<1>4. ~unseen' => Emptied'
  BY <1>2 DEF Emptied
<1>5. ~unseen' => Latest'
  BY <1>1, Zenon DEF HeldInv
<1> QED BY <1>1, <1>3, <1>4, <1>5, Zenon DEF HeldInv

\* A line is written behind all others.
LEMMA WriteHolds ==
  ASSUME EntryInv, SavedInv, HeldInv, WriteLine \/ WriteTorn
  PROVE  HeldInv'
<1> DEFINE d0 == Append(disk[0], next)
<1>0. /\ next \in Nat /\ pc = "write" /\ disk \in [Files -> Seq(Nat)] /\ saved \in Seq(Nat) /\ Backups \in Nat
      /\ disk[0] \in Seq(Nat) /\ 0 \in Files /\ MaxSize \in Nat
  BY EntryAssumption DEF EntryInv, PlaceInv, NumberInv, ReadInv, SavedInv, WriteLine, WriteTorn, HeldInv, Files
<1>1. disk' = [disk EXCEPT ![0] = d0] /\ saved' = Append(saved, next) /\ intact' = intact /\ unseen' = unseen
  BY DEF WriteLine, WriteTorn
<1>2. pc' = "close" => Len(disk'[0]) >= MaxSize
  BY DEF WriteLine, WriteTorn, NextLine
<1>3. pc' \in {"read", "push", "close"}
  BY DEF WriteLine, WriteTorn, NextLine, GoOn
<1>4. /\ d0 \in Seq(Nat) /\ Len(d0) = Len(disk[0]) + 1
      /\ \A a \in DOMAIN d0 : (a \in DOMAIN disk[0] /\ d0[a] = disk[0][a]) \/ (a = Len(disk[0]) + 1 /\ d0[a] = next)
      /\ \A a \in DOMAIN disk[0] : a \in DOMAIN d0 /\ a < Len(disk[0]) + 1 /\ d0[a] = disk[0][a]
      /\ Range(d0) = Range(disk[0]) \cup {next}
  BY <1>0, AddedTo
<1>5. Range(saved') = Range(saved) \cup {next}
  BY <1>0, <1>1, AddedTo
<1> HIDE DEF d0
<1>6. disk' \in [Files -> Seq(Nat)] /\ disk'[0] = d0 /\ \A i \in Files : i # 0 => disk'[i] = disk[i]
  BY <1>0, <1>1, <1>4
<1>7. Held' = Held \cup {next}
  <2>1. Held = UNION {Range(disk[i]) : i \in Files} /\ Held' = UNION {Range(disk'[i]) : i \in Files}
    BY DEF Held, Files
  <2>2. \A i \in Files : Range(disk'[i]) = IF i = 0 THEN Range(disk[i]) \cup {next} ELSE Range(disk[i])
    BY <1>4, <1>6
  <2> QED BY <2>1, <2>2, <1>0
<1>8. \A x \in Range(saved) : x \in Nat /\ x < next
  BY <1>0, SavedBelow
<1>9. Held \subseteq Range(saved)
  BY DEF HeldInv
<1>10. InOrder'
  <2> SUFFICES ASSUME NEW i \in Files, NEW j \in Files, NEW a \in DOMAIN disk'[i], NEW b \in DOMAIN disk'[j],
                      i > j \/ (i = j /\ a < b)
               PROVE  disk'[i][a] < disk'[j][b]
    BY DEF InOrder, Files
  <2>1. i \in Nat /\ j \in Nat
    BY <1>0 DEF Files
  <2>2. a \in DOMAIN disk[i] /\ disk'[i][a] = disk[i][a]
    <3>1. CASE i # 0
      BY <3>1, <1>6
    <3>2. CASE i = 0
      <4>1. j = 0 /\ a < b /\ a \in DOMAIN d0 /\ b \in DOMAIN d0
        BY <3>2, <2>1, <1>6
      <4>2. b <= Len(disk[0]) + 1 /\ a # Len(disk[0]) + 1
        BY <4>1, <1>0, <1>4
      <4> QED BY <3>2, <4>1, <4>2, <1>4, <1>6
    <3> QED BY <3>1, <3>2
  <2>3. disk[i][a] \in Held
    BY <2>2, HeldIs
  <2>4. CASE b \in DOMAIN disk[j] /\ disk'[j][b] = disk[j][b]
    BY <2>2, <2>4 DEF HeldInv, InOrder, Files
  <2>5. CASE disk'[j][b] = next
    BY <2>2, <2>3, <2>5, <1>8, <1>9
  <2> QED BY <2>4, <2>5, <1>4, <1>6
<1>11. Latest => Latest'
  <2> SUFFICES ASSUME Latest, NEW x \in Held', NEW y \in Range(saved'), x < y PROVE y \in Held'
    BY DEF Latest
  <2>1. CASE y = next
    BY <2>1, <1>7
  <2>2. CASE y \in Range(saved)
    <3>1. x # next
      BY <2>2, <1>0, <1>8
    <3>2. x \in Held
      BY <3>1, <1>7
    <3> QED BY <2>2, <3>2, <1>7 DEF Latest
  <2> QED BY <2>1, <2>2, <1>5
<1>12. intact => Stacked'
  <2> SUFFICES ASSUME Stacked PROVE Stacked'
    BY DEF HeldInv
  <2>1. Gap = 0 /\ Gap' = 0
    BY <1>0, <1>3 DEF Gap
  <2>2. Lost' => Lost
    BY <1>5, <1>7 DEF Lost
  <2>3. \A i \in Files \ {0} : disk'[i] = disk[i]
    BY <1>6
  <2>4. pc' \in {"close", "drop"} => Len(disk'[0]) >= MaxSize
    BY <1>2, <1>3
  <2> QED BY <2>1, <2>2, <2>3, <2>4 DEF Stacked
<1>13. Held' \subseteq Range(saved)'
  BY <1>5, <1>7, <1>9
<1>14. Emptied'
  BY <1>3 DEF Emptied
<1>15. (~unseen' => Latest' /\ Emptied') /\ (intact' => Stacked' /\ ~unseen') /\ intact' \in BOOLEAN
  BY <1>1, <1>11, <1>12, <1>14, Zenon DEF HeldInv
<1> QED BY <1>6, <1>10, <1>13, <1>15, Zenon DEF HeldInv

\* The oldest backup goes: its lines come before all others.
LEMMA DropHolds ==
  ASSUME SavedInv, HeldInv, FileInv, Drop
  PROVE  HeldInv'
<1>0. /\ disk \in [Files -> Seq(Nat)] /\ Backups \in Nat \ {0} /\ Backups \in Files /\ 0 \in Files
      /\ MaxSize \in Nat \ {0} /\ saved' = saved /\ intact' = intact /\ unseen' = unseen /\ pc = "drop"
      /\ disk' = [disk EXCEPT ![Backups] = <<>>] /\ shift' = Backups - 1
      /\ pc' = IF Backups > 1 THEN "shift" ELSE "main"
  BY EntryAssumption DEF HeldInv, Files, Drop, GoOn
<1>1. Gap = 0 /\ Gap' = Backups
  BY <1>0 DEF Gap
<1>2. disk' \in [Files -> Seq(Nat)] /\ disk'[Backups] = <<>> /\ \A i \in Files \ {Backups} : disk'[i] = disk[i]
  <2>1. <<>> \in Seq(Nat)
    OBVIOUS
  <2> QED BY <2>1, <1>0
<1>3. ASSUME NEW i \in Files, NEW a \in DOMAIN disk'[i]
      PROVE  i # Backups /\ a \in DOMAIN disk[i] /\ disk'[i][a] = disk[i][a]
  <2>1. DOMAIN <<>> = {}
    OBVIOUS
  <2> QED BY <2>1, <1>2, <1>3
<1>4. \A x : x \in Held' <=> \E i \in Files : \E a \in DOMAIN disk'[i] : x = disk'[i][a]
  BY DEF Held, Range, Files
<1>5. ASSUME NEW x \in Held' PROVE x \in Held /\ \A y \in Range(disk[Backups]) : y < x
  <2>1. PICK i \in Files : \E a \in DOMAIN disk'[i] : x = disk'[i][a]
    BY <1>4, <1>5
  <2>2. PICK a \in DOMAIN disk'[i] : x = disk'[i][a]
    BY <2>1
  <2>3. i < Backups /\ a \in DOMAIN disk[i] /\ x = disk[i][a]
    BY <2>2, <1>3, <1>0 DEF Files
  <2>4. x \in Held
    BY <2>3, HeldIs
  <2>5. ASSUME NEW b \in DOMAIN disk[Backups] PROVE disk[Backups][b] < x
    BY <2>3, <1>0 DEF HeldInv, InOrder, Files
  <2> QED BY <2>4, <2>5 DEF Range
<1>6. ASSUME NEW y \in Held, y \notin Range(disk[Backups]) PROVE y \in Held'
  <2>1. PICK i \in Files : \E a \in DOMAIN disk[i] : y = disk[i][a]
    BY <1>6, HeldIs
  <2>2. i # Backups
    BY <2>1, <1>6 DEF Range
  <2>3. disk'[i] = disk[i]
    BY <2>2, <1>2
  <2> QED BY <2>1, <2>3, <1>4
<1>7. Held' \subseteq Range(saved)'
  BY <1>0, <1>5 DEF HeldInv
<1>8. InOrder'
  <2> SUFFICES ASSUME NEW i \in Files, NEW j \in Files, NEW a \in DOMAIN disk'[i], NEW b \in DOMAIN disk'[j],
                      i > j \/ (i = j /\ a < b)
               PROVE  disk'[i][a] < disk'[j][b]
    BY DEF InOrder, Files
  <2>1. a \in DOMAIN disk[i] /\ disk'[i][a] = disk[i][a] /\ b \in DOMAIN disk[j] /\ disk'[j][b] = disk[j][b]
    BY <1>3
  <2> QED BY <2>1 DEF HeldInv, InOrder, Files
<1>9. ASSUME Latest, NEW x \in Held', NEW y \in Range(saved)', x < y PROVE y \in Held'
  <2>1. x \in Held /\ y \in Range(saved)
    BY <1>0, <1>5
  <2>2. y \in Held
    BY <2>1, <1>9 DEF Latest
  <2>3. x \in Nat /\ y \in Nat
    BY <2>1, SavedBelow DEF HeldInv, SavedInv, Range
  <2>4. y \notin Range(disk[Backups])
    BY <1>5, <1>9, <2>3
  <2> QED BY <2>2, <2>4, <1>6
<1>10. intact' => Stacked'
  <2> SUFFICES ASSUME Stacked PROVE Stacked'
    BY <1>0 DEF HeldInv
  <2>1. Len(disk[0]) >= MaxSize /\ disk[0] # <<>>
    <3>1. Len(<<>>) = 0
      OBVIOUS
    <3> QED BY <3>1, <1>0 DEF Stacked
  <2>2. \A i \in Files \ {Backups} : disk'[i] = <<>> \/ Len(disk'[i]) >= MaxSize
    BY <2>1, <1>1, <1>2 DEF Stacked
  <2>3. \A i, j \in Files \ {Backups} : i < j /\ disk'[j] # <<>> => disk'[i] # <<>>
    BY <2>1, <1>1, <1>2 DEF Stacked, Files
  <2>4. Lost' => \A i \in Files \ {Backups} : disk'[i] # <<>>
    <3> SUFFICES ASSUME Lost', NEW i \in Files \ {Backups} PROVE disk[i] # <<>>
      BY <1>2
    <3>1. CASE i = 0
      BY <3>1, <2>1
    <3>2. CASE i # 0 /\ Lost
      BY <3>2, <1>1 DEF Stacked
    <3>3. CASE i # 0 /\ ~Lost
      <4>1. PICK y \in Range(saved) : y \notin Held'
        BY <1>0 DEF Lost
      <4>2. y \in Range(disk[Backups])
        BY <3>3, <4>1, <1>6 DEF Lost
      <4>3. disk[Backups] # <<>>
        BY <4>2 DEF Range
      <4>4. i < Backups
        BY <1>0 DEF Files
      <4> QED BY <3>3, <4>3, <4>4, <1>0, <1>1 DEF Stacked
    <3> QED BY <3>1, <3>2, <3>3
  <2>5. pc' \notin {"close", "drop"}
    BY <1>0
  <2> QED BY <2>2, <2>3, <2>4, <2>5, <1>1 DEF Stacked
<1>11. Latest => Latest'
  BY <1>9 DEF Latest
<1>12. Emptied'
  BY <1>1, <1>2 DEF Emptied
<1>13. (~unseen' => Latest' /\ Emptied') /\ (intact' => Stacked' /\ ~unseen') /\ intact' \in BOOLEAN
  BY <1>0, <1>10, <1>11, <1>12, Zenon DEF HeldInv
<1> QED BY <1>2, <1>7, <1>8, <1>13, Zenon DEF HeldInv

\* A file is renamed into the gap, which is then where the file was.
LEMMA MoveHolds ==
  ASSUME HeldInv, NEW f \in 0 .. Backups - 1, disk' = Rename(f, f + 1), UNCHANGED <<saved, intact, unseen>>,
         Gap = f + 1, Gap' = f, pc \in {"shift", "main"}, pc' \notin {"close", "drop"}
  PROVE  HeldInv'
<1>0. /\ disk \in [Files -> Seq(Nat)] /\ Backups \in Nat \ {0} /\ f \in Files /\ f + 1 \in Files /\ f \in Nat
      /\ <<>> \in Seq(Nat) /\ f # f + 1 /\ (~unseen => disk[f + 1] = <<>>)
  BY EntryAssumption DEF HeldInv, Files, Emptied
<1>a. CASE disk[f] = <<>> /\ disk[f + 1] # <<>>
  <2>1. disk' = disk /\ unseen /\ unseen' = unseen
    BY <1>a, <1>0 DEF Rename
  <2>2. Held' = Held /\ (InOrder => InOrder') /\ disk' \in [Files -> Seq(Nat)]
    BY <2>1 DEF Held, InOrder, HeldInv
  <2>3. Held' \subseteq Range(saved)'
    BY <2>2 DEF HeldInv
  <2>4. intact' \in BOOLEAN /\ ~intact' /\ unseen'
    <3>1. intact = FALSE
      BY <2>1, Zenon DEF HeldInv
    <3>2. intact' = FALSE
      BY <3>1
    <3>3. unseen'
      BY <2>1
    <3> QED BY <3>2, <3>3, Zenon
  <2> QED BY <2>2, <2>3, <2>4, Zenon DEF HeldInv
<1>b. SUFFICES ASSUME disk[f] # <<>> \/ disk[f + 1] = <<>> PROVE HeldInv'
  BY <1>a
<1>1. /\ disk' \in [Files -> Seq(Nat)] /\ disk'[f] = <<>> /\ disk'[f + 1] = disk[f]
      /\ \A i \in Files : i # f /\ i # f + 1 => disk'[i] = disk[i]
  <2>1. CASE disk[f] = <<>>
    BY <2>1, <1>0, <1>b DEF Rename
  <2>2. CASE disk[f] # <<>>
    <3>1. disk' = [disk EXCEPT ![f + 1] = disk[f], ![f] = <<>>]
      BY <2>2 DEF Rename
    <3> QED BY <3>1, <1>0
  <2> QED BY <2>1, <2>2
<1> DEFINE old(i) == IF i = f + 1 THEN f ELSE i
<1>2. ASSUME NEW i \in Files \ {f} PROVE disk'[i] = disk[old(i)] /\ old(i) \in Files \ {f + 1}
  BY <1>0, <1>1
<1>3. ASSUME NEW i \in Files \ {f}, NEW j \in Files \ {f} PROVE (i < j <=> old(i) < old(j)) /\ (i = j <=> old(i) = old(j))
  BY <1>0 DEF Files
<1>4. ASSUME NEW i \in Files, NEW a \in DOMAIN disk'[i] PROVE i \in Files \ {f}
  <2>1. DOMAIN <<>> = {}
    OBVIOUS
  <2> QED BY <2>1, <1>1, <1>4
<1>5. Held' \subseteq Held /\ (disk[f + 1] = <<>> => Held' = Held)
  <2>1. Held = UNION {Range(disk[i]) : i \in Files} /\ Held' = UNION {Range(disk'[i]) : i \in Files}
    BY DEF Held, Files
  <2>2. Range(<<>>) = {}
    BY DEF Range
  <2>3. \A i \in Files : Range(disk'[i]) = IF i = f THEN {} ELSE IF i = f + 1 THEN Range(disk[f]) ELSE Range(disk[i])
    BY <1>1, <2>2
  <2>4. disk[f + 1] = <<>> => Range(disk[f + 1]) = {}
    BY <2>2
  <2> QED BY <2>1, <2>3, <2>4, <1>0
<1> HIDE DEF old
<1>6. InOrder'
  <2> SUFFICES ASSUME NEW i \in Files, NEW j \in Files, NEW a \in DOMAIN disk'[i], NEW b \in DOMAIN disk'[j],
                      i > j \/ (i = j /\ a < b)
               PROVE  disk'[i][a] < disk'[j][b]
    BY DEF InOrder, Files
  <2>1. i \in Files \ {f} /\ j \in Files \ {f}
    BY <1>4
  <2>2. disk'[i] = disk[old(i)] /\ disk'[j] = disk[old(j)] /\ old(i) \in Files /\ old(j) \in Files
    BY <2>1, <1>2
  <2>3. old(i) > old(j) \/ (old(i) = old(j) /\ a < b)
    BY <2>1, <1>3
  <2> QED BY <2>2, <2>3 DEF HeldInv, InOrder, Files
<1>7. intact' => Stacked'
  <2> SUFFICES ASSUME Stacked, ~unseen PROVE Stacked'
    BY DEF HeldInv
  <2>1. Lost' = Lost
    BY <1>0, <1>5 DEF Lost
  <2>2. \A i \in Files \ {f} : disk'[i] = <<>> \/ Len(disk'[i]) >= MaxSize
    BY <1>2 DEF Stacked
  <2>3. \A i, j \in Files \ {f} : i < j /\ disk'[j] # <<>> => disk'[i] # <<>>
    BY <1>2, <1>3 DEF Stacked
  <2>4. Lost' => \A i \in Files \ {f} : disk'[i] # <<>>
    BY <2>1, <1>2 DEF Stacked
  <2> QED BY <2>2, <2>3, <2>4 DEF Stacked
<1>8. ~unseen => Latest'
  BY <1>0, <1>5 DEF HeldInv, Latest
<1>9. Held' \subseteq Range(saved)'
  BY <1>5 DEF HeldInv
<1>10. Emptied'
  BY <1>1 DEF Emptied
<1>11. (~unseen' => Latest' /\ Emptied') /\ (intact' => Stacked' /\ ~unseen') /\ intact' \in BOOLEAN
  BY <1>7, <1>8, <1>10, Zenon DEF HeldInv
<1> QED BY <1>1, <1>6, <1>9, <1>11, Zenon DEF HeldInv

\* Every step keeps the files.
LEMMA HeldStep ==
  ASSUME EntryInv, SavedInv, HeldInv, [Next]_vars
  PROVE  HeldInv'
<1>0. FileInv /\ Backups \in Nat \ {0}
  BY EntryAssumption DEF EntryInv
<1>1. CASE WriteLine \/ WriteTorn
  BY <1>1, WriteHolds
<1>2. CASE Drop
  BY <1>2, <1>0, DropHolds
<1>3. CASE Shift
  <2>1. /\ shift \in 1 .. Backups - 1 /\ disk' = Rename(shift, shift + 1) /\ UNCHANGED <<saved, intact, unseen>>
        /\ shift' = shift - 1 /\ pc' = (IF shift > 1 THEN "shift" ELSE "main") /\ pc = "shift"
    BY <1>3, <1>0 DEF Shift, GoOn, FileInv
  <2>2. Gap = shift + 1 /\ Gap' = shift
    BY <2>1, <1>0 DEF Gap
  <2> QED BY <2>1, <2>2, <1>0, MoveHolds
<1>4. CASE MoveMain
  <2>1. /\ disk' = Rename(0, 0 + 1) /\ UNCHANGED <<saved, intact, unseen>> /\ pc' = "open" /\ pc = "main"
        /\ 0 \in 0 .. Backups - 1
    BY <1>4, <1>0 DEF MoveMain, GoOn
  <2>2. Gap = 0 + 1 /\ Gap' = 0
    BY <2>1 DEF Gap
  <2> QED BY <2>1, <2>2, MoveHolds
<1>5. CASE CloseFails \/ RotationFails \/ Crash
  <2>1. UNCHANGED <<disk, saved, unseen>> /\ intact' = FALSE /\ pc' \in {"read", "push"}
    BY <1>5 DEF CloseFails, RotationFails, Crash, NextLine
  <2> QED BY <2>1, FilesAlone
<1>6. CASE PassOver
  <2>1. UNCHANGED <<disk, saved>> /\ intact' = FALSE
    BY <1>6 DEF PassOver
  <2>2. pc' \notin {"close", "drop"} /\ (pc' \in {"shift", "main"} => unseen') /\ (unseen => unseen')
    BY <1>6 DEF PassOver, GoOn
  <2> QED BY <2>1, <2>2, FilesAlone
<1>7. CASE Read \/ PushLine \/ WriteFails \/ Close \/ Reopen
  <2>1. /\ UNCHANGED <<disk, saved, intact, unseen>> /\ pc \notin {"shift", "main"} /\ pc' \notin {"shift", "main"}
        /\ pc' \in {"close", "drop"} => pc = "close"
    BY <1>7 DEF Read, PushLine, WriteFails, Close, Reopen, store, NextLine, GoOn
  <2>2. Gap = 0 /\ Gap' = 0
    BY <2>1 DEF Gap
  <2> QED BY <2>1, <2>2, FilesAlone
<1>8. CASE ClearRing \/ UNCHANGED vars
  <2>1. UNCHANGED <<disk, saved, intact, unseen, pc, shift>>
    BY <1>8 DEF ClearRing, vars, store
  <2>2. /\ Gap' = Gap /\ Held' = Held /\ (InOrder => InOrder') /\ (Stacked => Stacked')
        /\ (Latest => Latest') /\ (Emptied => Emptied')
    BY <2>1 DEF Gap, Held, InOrder, Stacked, Lost, Latest, Emptied
  <2>3. (~unseen' => Latest' /\ Emptied') /\ (intact' => Stacked' /\ ~unseen') /\ intact' \in BOOLEAN
    BY <2>1, <2>2, Zenon DEF HeldInv
  <2> QED BY <2>1, <2>2, <2>3 DEF HeldInv
<1> QED BY <1>1, <1>2, <1>3, <1>4, <1>5, <1>6, <1>7, <1>8 DEF Next, Rotate

\* It begins with empty files.
LEMMA FilesStart == Init => SavedInv /\ HeldInv
<1> SUFFICES ASSUME Init PROVE SavedInv /\ HeldInv
  OBVIOUS
<1>1. disk = [i \in Files |-> <<>>] /\ saved = <<>> /\ intact = TRUE /\ unseen = FALSE /\ pc = "read" /\ Backups \in Nat
  BY EntryAssumption DEF Init, Files
<1>2. <<>> \in Seq(Nat) /\ DOMAIN <<>> = {} /\ Range(<<>>) = {}
  BY DEF Range
<1>3. \A i \in Files : disk[i] = <<>>
  BY <1>1
<1>4. SavedInv
  BY <1>1, <1>2 DEF SavedInv
<1>5. Held = {}
  BY <1>2, <1>3 DEF Held, Files
<1>6. InOrder
  BY <1>2, <1>3 DEF InOrder, Files
<1>7. Stacked
  BY <1>1, <1>2, <1>3 DEF Stacked, Lost
<1>8. Latest /\ Emptied /\ Held \subseteq Range(saved)
  BY <1>1, <1>5 DEF Latest, Emptied
<1> QED BY <1>1, <1>2, <1>4, <1>6, <1>7, <1>8 DEF HeldInv

\* The files hold lines that were written, in order, whatever crash or refusal broke a
\* rotation off; they are the last ones, with none missing in between, until a rotation
\* fails to see a backup that is there; undisturbed, never less than full backups
\* (rotateLocked, Rotator.Write; a piece of a line counts as the line).
THEOREM FilesHaveLatest == Spec => []DiskHasLatest
<1>1. SavedInv /\ HeldInv => DiskHasLatest
  <2> SUFFICES ASSUME SavedInv, HeldInv PROVE DiskHasLatest
    OBVIOUS
  <2>1. NoneMissing \/ unseen
    <3> SUFFICES ASSUME ~unseen, NEW k \in DOMAIN saved, NEW m \in DOMAIN saved, k < m, saved[k] \in Held
                 PROVE  saved[m] \in Held
      BY DEF NoneMissing
    <3>1. saved[m] \in Range(saved) /\ saved[k] < saved[m]
      BY DEF Range, SavedInv
    <3> QED BY <3>1 DEF HeldInv, Latest
  <2>2. intact => Plenty
    <3> SUFFICES ASSUME Stacked, Lost PROVE Plenty
      BY DEF HeldInv, Plenty, Lost
    <3>1. \A i \in Files \ {Gap} : Len(disk[i]) >= MaxSize
      BY DEF Stacked
    <3>2. CASE Gap \in Files
      BY <3>1, <3>2 DEF Plenty, Files
    <3>3. CASE Gap \notin Files
      <4>1. 0 \in Files /\ \A i \in Files \ {0} : Len(disk[i]) >= MaxSize
        BY <3>1, <3>3, EntryAssumption DEF Files
      <4> QED BY <4>1 DEF Plenty, Files
    <3> QED BY <3>2, <3>3
  <2> QED BY <2>1, <2>2 DEF HeldInv, SavedInv, DiskHasLatest
<1>2. EntryInv /\ SavedInv /\ HeldInv /\ [Next]_vars => (EntryInv /\ SavedInv /\ HeldInv)'
  BY EntryStep, WriteSaves, OthersSave, HeldStep
<1> QED BY <1>1, <1>2, EntryStarts, FilesStart, PTL DEF Spec
-----------------------------------------------------------------------------
(* Where the reads end.                                                    *)

\* A piece of a sequence, d behind its beginning.
Window(w, d, c) == d + Len(c) <= Len(w) /\ \A i \in 1 .. Len(c) : c[i] = w[d + i]

\* Where a piece is, and of what.
LEMMA WindowIs ==
  ASSUME NEW B, NEW w \in Seq(B), NEW d \in 0 .. Len(w), NEW c \in Seq(B), Window(w, d, c)
  PROVE  /\ Len(w) \in Nat /\ d \in Nat /\ c \in Seq(B) /\ d + Len(c) <= Len(w) /\ Len(c) \in Nat
         /\ \A i \in 1 .. Len(c) : d + i \in 1 .. Len(w) /\ c[i] = w[d + i]
  BY DEF Window

\* The state of the loop over c, seen from a loop that went on from o.
From(d, o, s) == [start |-> d + s.start, lines |-> o \o s.lines]

\* A piece of the rest is a piece of the whole.
LEMMA PieceAlike ==
  ASSUME NEW B, NEW w \in Seq(B), NEW d \in 0 .. Len(w), NEW c \in Seq(B), Window(w, d, c),
         NEW m \in 1 .. Len(c) + 1, NEW n \in m - 1 .. Len(c)
  PROVE  SubSeq(w, d + m, d + n) = SubSeq(c, m, n)
  BY DEF Window

\* Lines behind lines, and one line behind lines.
Behind(o, l) == o \o l
Added(l, ln) == Append(l, ln)

\* A line put behind those that follow o.
LEMMA AppendAlike ==
  ASSUME NEW L, NEW o \in Seq(L), NEW l \in Seq(L), NEW ln \in L
  PROVE  Added(Behind(o, l), ln) = Behind(o, Added(l, ln))
  BY DEF Added, Behind

\* A cut.
LEMMA CutAlike ==
  ASSUME NEW B, NEW w \in Seq(B), NEW d \in 0 .. Len(w), NEW c \in Seq(B), Window(w, d, c),
         NEW s \in Progress(B), NEW m \in 1 .. Len(c) + 1, s.start = m, NEW o \in Seq(Line(B)),
         NEW end \in m - 1 .. Len(c), NEW from \in Nat,
         NEW t, t = From(d, o, s), NEW wend, wend = d + end, NEW wfrom, wfrom = d + from
  PROVE  /\ CutWhole(w, t, wend, wfrom) = From(d, o, CutWhole(c, s, end, from))
         /\ CutPart(w, t, wend, wfrom) = From(d, o, CutPart(c, s, end, from))
<1> DEFINE x == SubSeq(c, s.start, end)
           whole == [bytes |-> x, partial |-> FALSE]
           short == [bytes |-> x, partial |-> TRUE]
<1>1. c \in Seq(B) /\ s.lines \in Seq(Line(B)) /\ x \in Seq(B)
  BY WindowIs DEF Progress
<1>2. whole \in Line(B) /\ short \in Line(B)
  BY <1>1 DEF Line
<1>3. SubSeq(w, t.start, wend) = x /\ t.lines = o \o s.lines
  <2>1. SubSeq(w, d + m, d + end) = SubSeq(c, m, end)
    BY PieceAlike
  <2>2. t.start = d + m /\ t.lines = o \o s.lines
    BY DEF From
  <2> QED BY <2>1, <2>2
<1>4. /\ CutWhole(c, s, end, from) = [start |-> from, lines |-> Append(s.lines, whole)]
      /\ CutPart(c, s, end, from) = [start |-> from, lines |-> Append(s.lines, short)]
  BY Zenon DEF Cut, CutWhole, CutPart
<1> HIDE DEF x
<1>5. /\ CutWhole(w, t, wend, wfrom) = [start |-> wfrom, lines |-> Append(t.lines, whole)]
      /\ CutPart(w, t, wend, wfrom) = [start |-> wfrom, lines |-> Append(t.lines, short)]
  BY <1>3, Zenon DEF Cut, CutWhole, CutPart
<1> HIDE DEF whole, short
<1>6. ASSUME NEW l \in Seq(Line(B)), NEW ln \in Line(B) PROVE Append(o \o l, ln) = o \o Append(l, ln)
  <2>1. Added(Behind(o, l), ln) = Behind(o, Added(l, ln))
    BY AppendAlike
  <2> QED BY <2>1, Zenon DEF Added, Behind
<1>7. ASSUME NEW ln \in Line(B), NEW r, r = [start |-> from, lines |-> Append(s.lines, ln)]
      PROVE  From(d, o, r) = [start |-> d + from, lines |-> Append(t.lines, ln)]
  <2>1. r.start = from /\ r.lines = Append(s.lines, ln)
    BY <1>7
  <2>2. Append(o \o s.lines, ln) = o \o Append(s.lines, ln)
    BY <1>1, <1>6, Zenon
  <2>3. From(d, o, r) = [start |-> d + r.start, lines |-> o \o r.lines]
    BY DEF From
  <2> QED BY <1>3, <2>1, <2>2, <2>3, Zenon
<1>8. CutWhole(w, t, wend, wfrom) = From(d, o, CutWhole(c, s, end, from))
  BY <1>2, <1>4, <1>5, <1>7, Zenon
<1>9. CutPart(w, t, wend, wfrom) = From(d, o, CutPart(c, s, end, from))
  BY <1>2, <1>4, <1>5, <1>7, Zenon
<1> QED BY <1>8, <1>9

\* A forced split.
LEMMA SafeSplitAlike ==
  ASSUME NEW B, NEW w \in Seq(B), NEW d \in 0 .. Len(w), NEW c \in Seq(B), Window(w, d, c),
         NEW cap \in 1 .. Len(c), NEW floor \in 1 .. cap - 1
  PROVE  SafeSplit(w, d + cap, d + floor) = d + SafeSplit(c, cap, floor)
<1> DEFINE longest(S) == CHOOSE k \in S : \A j \in S : j <= k
<1>1. /\ Len(c) \in Nat /\ d \in Nat /\ cap \in Nat /\ floor \in Nat /\ floor < cap
      /\ \A i \in 1 .. Len(c) : c[i] = w[d + i]
  BY WindowIs
<1>2. (d + cap) - (d + floor) = cap - floor
  BY <1>1
<1>3. ASSUME NEW k \in 0 .. 3, k <= cap - floor, NEW j \in 0 .. k - 1 PROVE w[(d + cap) - j] = c[cap - j]
  <2>1. cap - j \in 1 .. Len(c) /\ d + (cap - j) = (d + cap) - j
    BY <1>1, <1>3
  <2> QED BY <2>1, <1>1
<1>4. Back(w, d + cap, d + floor) = Back(c, cap, floor)
  BY <1>2, <1>3 DEF Back
<1>5. PICK m : m = longest(Back(c, cap, floor))
  OBVIOUS
<1>6. SafeSplit(w, d + cap, d + floor) = IF (d + cap) - m = d + floor THEN d + cap ELSE (d + cap) - m
  <2>1. m = longest(Back(w, d + cap, d + floor))
    BY <1>4, <1>5
  <2> QED BY <2>1 DEF SafeSplit, Back
<1>7. SafeSplit(c, cap, floor) = IF cap - m = floor THEN cap ELSE cap - m
  BY <1>5 DEF SafeSplit, Back
<1>8. m \in Nat
  <2>1. \E k \in Back(c, cap, floor) : \A j \in Back(c, cap, floor) : j <= k
    BY <1>1, BackIs DEF Furthest
  <2>2. m \in Back(c, cap, floor)
    BY <2>1, <1>5
  <2> QED BY <2>2 DEF Back
<1> QED BY <1>1, <1>6, <1>7, <1>8

\* One byte of a piece does what it does in the whole, unless a carriage return and its
\* newline are on two sides of the piece's ends.
LEMMA ByteAlike ==
  ASSUME NEW B, NEW w \in Seq(B), NEW d \in 0 .. Len(w), NEW c \in Seq(B), Window(w, d, c),
         NEW i \in 1 .. Len(c), NEW s, Fed(B, c, s, i - 1), NEW o \in Seq(Line(B)),
         i = 1 /\ c[1] = LF /\ d >= 1 => w[d] # CR,
         i = Len(c) /\ c[i] = CR => ~AtPair(w, d + i)
  PROVE  FeedByte(w, From(d, o, s), d + i) = From(d, o, FeedByte(c, s, i))
<1> SUFFICES ASSUME NEW t, t = From(d, o, s) PROVE FeedByte(w, t, d + i) = From(d, o, FeedByte(c, s, i))
  OBVIOUS
<1>1. /\ Len(c) \in Nat /\ Len(w) \in Nat /\ d \in Nat /\ d + Len(c) <= Len(w) /\ i \in Nat /\ c \in Seq(B)
      /\ \A j \in 1 .. Len(c) : c[j] = w[d + j]
  BY WindowIs
<1> SUFFICES ASSUME NEW st, st = s.start PROVE FeedByte(w, t, d + i) = From(d, o, FeedByte(c, s, i))
  OBVIOUS
<1>2. /\ s \in Progress(B) /\ st \in 1 .. Len(c) + 1 /\ i - st <= MaxLineSize
      /\ ~AtPair(c, i - 1) => st <= i
      /\ MaxLineSize \in Nat /\ CR # LF /\ MaxLineSize # 0
  BY <1>1, EntryAssumption DEF Fed, CR, LF
<1>3. w[d + i] = c[i] /\ t.start = d + st
  BY <1>1 DEF From
<1>0. CR # LF
  BY DEF CR, LF
<1>4. c[i] = CR => ((i < Len(c) /\ c[i + 1] = LF) <=> (d + i < Len(w) /\ w[(d + i) + 1] = LF))
  <2>1. CASE i < Len(c)
    <3>1. d + i < Len(w) /\ c[i + 1] = w[(d + i) + 1]
      BY <2>1, <1>1
    <3> QED BY <2>1, <3>1
  <2>2. CASE i = Len(c)
    <3>1. c[i] = CR => ~AtPair(w, d + i)
      BY <2>2
    <3>2. c[i] = CR => ~(d + i < Len(w) /\ w[(d + i) + 1] = LF)
      BY <3>1, <1>1, <1>3 DEF AtPair
    <3> QED BY <2>2, <3>2, <1>1
  <2> QED BY <2>1, <2>2, <1>1
<1>5. c[i] = LF => ((i > 1 /\ c[i - 1] = CR) <=> (d + i > 1 /\ w[(d + i) - 1] = CR))
  <2>1. CASE i = 1 /\ d = 0
    BY <2>1
  <2>2. CASE i = 1 /\ d >= 1
    <3>1. (d + 1) - 1 = d
      BY <1>1
    <3> QED BY <2>2, <3>1
  <2>3. CASE i > 1
    <3>1. c[i - 1] = w[(d + i) - 1] /\ d + i > 1
      BY <2>3, <1>1
    <3> QED BY <2>3, <3>1
  <2> QED BY <2>1, <2>2, <2>3, <1>1
<1>6. CASE c[i] = CR /\ i < Len(c) /\ c[i + 1] = LF
  <2>1. FeedByte(c, s, i) = CutWhole(c, s, i - 1, i + 2)
    BY <1>0, <1>6, Zenon DEF FeedByte, CutWhole
  <2>2. FeedByte(w, t, d + i) = CutWhole(w, t, (d + i) - 1, (d + i) + 2)
    BY <1>0, <1>3, <1>4, <1>6, Zenon DEF FeedByte, CutWhole
  <2>3. (d + i) - 1 = d + (i - 1) /\ (d + i) + 2 = d + (i + 2) /\ i + 2 \in Nat /\ i - 1 \in st - 1 .. Len(c)
    <3>1. ~AtPair(c, i - 1)
      BY <1>1, <1>2, <1>6 DEF AtPair
    <3> QED BY <3>1, <1>1, <1>2
  <2>4. PICK e, f : e = i - 1 /\ f = i + 2
    OBVIOUS
  <2>5. PICK we, wf : we = (d + i) - 1 /\ wf = (d + i) + 2
    OBVIOUS
  <2>6. e \in st - 1 .. Len(c) /\ f \in Nat /\ we = d + e /\ wf = d + f
    BY <2>3, <2>4, <2>5
  <2>7. CutWhole(w, t, we, wf) = From(d, o, CutWhole(c, s, e, f))
    BY <1>2, <2>6, CutAlike
  <2> QED BY <2>1, <2>2, <2>4, <2>5, <2>7, Zenon
<1>7. CASE c[i] = CR /\ ~(i < Len(c) /\ c[i + 1] = LF)
  <2>1. FeedByte(c, s, i) = [s EXCEPT !.start = i + 1]
    BY <1>0, <1>7, Zenon DEF FeedByte
  <2>2. FeedByte(w, t, d + i) = [t EXCEPT !.start = (d + i) + 1]
    BY <1>0, <1>3, <1>4, <1>7, Zenon DEF FeedByte
  <2>3. (d + i) + 1 = d + (i + 1)
    BY <1>1
  <2> QED BY <2>1, <2>2, <2>3, <1>2 DEF From, Progress
<1>8. CASE c[i] = LF /\ i > 1 /\ c[i - 1] = CR
  <2>1. FeedByte(c, s, i) = s
    BY <1>2, <1>8 DEF FeedByte
  <2>2. FeedByte(w, t, d + i) = t
    BY <1>2, <1>3, <1>5, <1>8, Zenon DEF FeedByte
  <2> QED BY <2>1, <2>2
<1>9. CASE c[i] = LF /\ ~(i > 1 /\ c[i - 1] = CR)
  <2>1. FeedByte(c, s, i) = CutWhole(c, s, i - 1, i + 1)
    BY <1>2, <1>9, Zenon DEF FeedByte, CutWhole
  <2>2. FeedByte(w, t, d + i) = CutWhole(w, t, (d + i) - 1, (d + i) + 1)
    BY <1>2, <1>3, <1>5, <1>9, Zenon DEF FeedByte, CutWhole
  <2>3. (d + i) - 1 = d + (i - 1) /\ (d + i) + 1 = d + (i + 1) /\ i + 1 \in Nat /\ i - 1 \in st - 1 .. Len(c)
    <3>1. ~AtPair(c, i - 1)
      BY <1>1, <1>9 DEF AtPair
    <3> QED BY <3>1, <1>1, <1>2
  <2>4. PICK e, f : e = i - 1 /\ f = i + 1
    OBVIOUS
  <2>5. PICK we, wf : we = (d + i) - 1 /\ wf = (d + i) + 1
    OBVIOUS
  <2>6. e \in st - 1 .. Len(c) /\ f \in Nat /\ we = d + e /\ wf = d + f
    BY <2>3, <2>4, <2>5
  <2>7. CutWhole(w, t, we, wf) = From(d, o, CutWhole(c, s, e, f))
    BY <1>2, <2>6, CutAlike
  <2> QED BY <2>1, <2>2, <2>4, <2>5, <2>7, Zenon
<1>10. (d + i) - t.start = i - st
  BY <1>1, <1>2, <1>3
<1>11. CASE c[i] \notin {CR, LF} /\ i - st < MaxLineSize
  <2>1. FeedByte(c, s, i) = s
    BY <1>11 DEF FeedByte
  <2>2. FeedByte(w, t, d + i) = t
    BY <1>3, <1>10, <1>11 DEF FeedByte
  <2> QED BY <2>1, <2>2
<1>12. CASE c[i] \notin {CR, LF} /\ ~(i - st < MaxLineSize)
  <2> DEFINE at == SafeSplit(c, st + MaxLineSize, st)
             wat == SafeSplit(w, t.start + MaxLineSize, t.start)
  <2>1. FeedByte(c, s, i) = CutPart(c, s, at - 1, at)
    BY <1>12, Zenon DEF FeedByte, CutPart
  <2>2. FeedByte(w, t, d + i) = CutPart(w, t, wat - 1, wat)
    BY <1>3, <1>10, <1>12, Zenon DEF FeedByte, CutPart
  <2>3. st + MaxLineSize = i /\ t.start + MaxLineSize = d + i /\ st \in 1 .. i - 1
    <3>0. st \in Nat /\ st >= 1 /\ MaxLineSize \in Nat /\ MaxLineSize >= 1 /\ i - st \in Int
      BY <1>1, <1>2
    <3>1. st \in Nat /\ st >= 1 /\ MaxLineSize >= 1 /\ i - st = MaxLineSize
      BY <3>0, <1>2, <1>12
    <3>2. (d + st) + MaxLineSize = d + i
      BY <3>1, <1>1, <1>2
    <3> QED BY <3>1, <3>2, <1>1, <1>2, <1>3
  <2>4. wat = d + at
    <3>1. SafeSplit(w, d + i, d + st) = d + SafeSplit(c, i, st)
      BY <2>3, SafeSplitAlike
    <3> QED BY <2>3, <1>3, <3>1
  <2>5. at \in st + 1 .. i
    BY <2>3, <1>1, <1>2, SplitWithin
  <2> HIDE DEF at, wat
  <2>6. PICK e, we : e = at - 1 /\ we = wat - 1
    OBVIOUS
  <2>7. e \in st - 1 .. Len(c) /\ at \in Nat /\ we = d + e
    <3>1. st \in Nat /\ i <= Len(c) /\ at \in Nat /\ st < at /\ at <= i
      BY <2>5, <1>1, <1>2
    <3>2. e \in st - 1 .. Len(c)
      BY <3>1, <2>6, <1>1
    <3>3. we = d + e
      BY <3>1, <2>4, <2>6, <1>1
    <3> QED BY <3>1, <3>2, <3>3
  <2>8. CutPart(w, t, we, wat) = From(d, o, CutPart(c, s, e, at))
    BY <1>2, <2>4, <2>7, CutAlike
  <2> QED BY <2>1, <2>2, <2>6, <2>8, Zenon
<1> QED BY <1>6, <1>7, <1>8, <1>9, <1>11, <1>12

\* So does the whole piece, from its k-th byte on.
LEMMA LoopAlike ==
  ASSUME NEW B, NEW w \in Seq(B), NEW d \in 0 .. Len(w), NEW c \in Seq(B), Window(w, d, c),
         NEW o \in Seq(Line(B)), NEW k \in 0 .. Len(c), Loop(w)[d + k] = From(d, o, Loop(c)[k]),
         k = 0 /\ Len(c) > 0 /\ c[1] = LF /\ d >= 1 => w[d] # CR,
         Len(c) > 0 /\ c[Len(c)] = CR => ~AtPair(w, d + Len(c))
  PROVE  Loop(w)[d + Len(c)] = From(d, o, Loop(c)[Len(c)])
<1> DEFINE S == {i \in 0 .. Len(c) - k : Loop(w)[d + (k + i)] = From(d, o, Loop(c)[k + i])}
<1>1. /\ Len(c) \in Nat /\ Len(w) \in Nat /\ d \in Nat /\ d + Len(c) <= Len(w) /\ k \in Nat
      /\ Len(c) - k \in Nat
  BY WindowIs
<1>2. 0 \in S
  <2>1. 0 \in 0 .. Len(c) - k /\ k + 0 = k
    BY <1>1
  <2> QED BY <2>1
<1>3. ASSUME NEW j \in 0 .. (Len(c) - k) - 1, j \in S PROVE j + 1 \in S
  <2>1. PICK i, n : i = k + j /\ n = k + (j + 1)
    OBVIOUS
  <2>2. /\ i \in 0 .. Len(c) /\ n \in 1 .. Len(c) /\ n - 1 = i /\ i \in Nat
        /\ n = 1 => k = 0
    BY <2>1, <1>1
  <2>3. d + n \in 1 .. Len(w) /\ (d + n) - 1 = d + i /\ j + 1 \in 0 .. Len(c) - k
    BY <2>2, <1>1
  <2>4. Loop(w)[d + i] = From(d, o, Loop(c)[i])
    BY <1>3, <2>1
  <2>5. Loop(w)[d + n] = FeedByte(w, From(d, o, Loop(c)[i]), d + n)
    BY <2>3, <2>4, LoopStep
  <2>6. Loop(c)[n] = FeedByte(c, Loop(c)[i], n) /\ Fed(B, c, Loop(c)[i], n - 1)
    BY <2>2, LoopStep, LoopKeeps
  <2>7. n = 1 /\ c[1] = LF /\ d >= 1 => w[d] # CR
    BY <2>2, <1>1
  <2>8. n = Len(c) /\ c[n] = CR => ~AtPair(w, d + n)
    BY <2>2, <1>1
  <2>9. FeedByte(w, From(d, o, Loop(c)[i]), d + n) = From(d, o, FeedByte(c, Loop(c)[i], n))
    <3>1. PICK s : s = Loop(c)[i]
      OBVIOUS
    <3>2. Fed(B, c, s, n - 1) /\ n \in 1 .. Len(c)
      BY <2>2, <2>6, <3>1
    <3>3. FeedByte(w, From(d, o, s), d + n) = From(d, o, FeedByte(c, s, n))
      BY <3>2, <2>7, <2>8, ByteAlike
    <3> QED BY <3>1, <3>3
  <2>10. Loop(w)[d + n] = From(d, o, Loop(c)[n])
    BY <2>5, <2>6, <2>9
  <2> QED BY <2>1, <2>3, <2>10
<1> HIDE DEF S
<1>4. 0 .. Len(c) - k \subseteq S
  BY <1>1, <1>2, <1>3, Induction
<1>5. Len(c) - k \in S /\ k + (Len(c) - k) = Len(c)
  BY <1>1, <1>4
<1> QED BY <1>5 DEF S

\* What is kept of a line adds nothing when it is fed again.
LEMMA KeptAlike ==
  ASSUME NEW B, NEW c \in Seq(B), NEW k \in 0 .. Len(c), k <= MaxLineSize, \A j \in 1 .. k : c[j] \notin {CR, LF}
  PROVE  Loop(c)[k] = Begun
<1> DEFINE S == {i \in 0 .. k : Loop(c)[i] = Begun}
<1>1. Len(c) \in Nat /\ k \in Nat /\ MaxLineSize \in Nat /\ 0 \in S
  BY EntryAssumption, LoopStep
<1>2. ASSUME NEW i \in 0 .. k - 1, i \in S PROVE i + 1 \in S
  <2>1. i + 1 \in 1 .. Len(c) /\ (i + 1) - 1 = i /\ i + 1 \in 1 .. k
    BY <1>1
  <2>2. Loop(c)[i + 1] = FeedByte(c, Begun, i + 1)
    BY <1>2, <2>1, LoopStep
  <2>3. Begun.start = 1 /\ (i + 1) - 1 < MaxLineSize
    BY <1>1, <2>1 DEF Begun
  <2>4. FeedByte(c, Begun, i + 1) = Begun
    BY <2>1, <2>3 DEF FeedByte
  <2> QED BY <2>1, <2>2, <2>4
<1> HIDE DEF S
<1>3. 0 .. k \subseteq S
  BY <1>1, <1>2, Induction
<1>4. k \in S
  BY <1>1, <1>3
<1> QED BY <1>4 DEF S

\* Where Feed's loop ends.
Ends(B, v, s) ==
  /\ s \in Progress(B) /\ s.start \in 1 .. Len(v) + 1 /\ s.lines \in Seq(Line(B))
  /\ s = Loop(v)[Len(v)] /\ FeedAll(v).lines = s.lines /\ FeedAll(v).kept = SubSeq(v, s.start, Len(v))

\* Feed's loop ends somewhere.
LEMMA FeedEnds ==
  ASSUME NEW B, NEW v \in Seq(B)
  PROVE  \E s : Ends(B, v, s)
<1>1. Len(v) \in 0 .. Len(v)
  OBVIOUS
<1>2. Fed(B, v, Loop(v)[Len(v)], Len(v))
  BY <1>1, LoopKeeps
<1>4. SUFFICES ASSUME NEW s, s = Loop(v)[Len(v)] PROVE Ends(B, v, s)
  OBVIOUS
<1>5. s \in Progress(B) /\ s.start \in 1 .. Len(v) + 1
  BY <1>2, <1>4 DEF Fed
<1>6. s.lines \in Seq(Line(B))
  BY <1>5 DEF Progress
<1>7. FeedAll(v).lines = s.lines /\ FeedAll(v).kept = SubSeq(v, s.start, Len(v))
  BY <1>4, Zenon DEF FeedAll
<1> QED BY <1>4, <1>5, <1>6, <1>7 DEF Ends

\* The length of what is kept, and the place of its bytes.
LEMMA KeptIs ==
  ASSUME NEW B, NEW v \in Seq(B), NEW s, Ends(B, v, s)
  PROVE  /\ Len(FeedAll(v).kept) = Len(v) + 1 - s.start
         /\ \A j \in 1 .. Len(FeedAll(v).kept) : FeedAll(v).kept[j] = v[(s.start - 1) + j]
<1>1. PICK m : m = s.start
  OBVIOUS
<1>2. m \in 1 .. Len(v) + 1
  BY <1>1 DEF Ends
<1>3. SUFFICES ASSUME NEW k, k = SubSeq(v, m, Len(v))
               PROVE  Len(k) = Len(v) + 1 - m /\ \A j \in 1 .. Len(k) : k[j] = v[(m - 1) + j]
  BY <1>1 DEF Ends
<1>4. Len(k) = Len(v) + 1 - m /\ \A j \in 1 .. Len(k) : k[j] = v[m + j - 1]
  BY <1>2, <1>3
<1>5. \A j \in 1 .. Len(k) : m + j - 1 = (m - 1) + j
  BY <1>2, <1>4
<1> QED BY <1>4, <1>5

\* The remainder is fed again with the rest behind it: m is where it starts in the whole.
LEMMA FeedAgain ==
  ASSUME NEW B, NEW w \in Seq(B), NEW v \in Seq(B), Window(w, 0, v), ~AtPair(w, Len(v)),
         NEW s, Ends(B, v, s), NEW d \in Nat, d + 1 = s.start,
         NEW c \in Seq(B), d + Len(c) = Len(w), Window(w, d, c),
         NEW k \in 0 .. Len(c), d + k = Len(v), k <= MaxLineSize, \A j \in 1 .. k : c[j] \notin {CR, LF},
         NEW r, Ends(B, c, r)
  PROVE  Loop(w)[Len(w)] = From(d, s.lines, r)
<1>1. /\ Len(v) \in Nat /\ Len(w) \in Nat /\ Len(v) <= Len(w) /\ Len(c) \in Nat /\ k \in Nat /\ d \in 0 .. Len(w)
      /\ \A j \in 1 .. Len(v) : v[j] = w[j]
  BY DEF Window
<1>2. /\ s \in Progress(B) /\ s.lines \in Seq(Line(B)) /\ s = [start |-> d + 1, lines |-> s.lines]
      /\ s = Loop(v)[Len(v)]
  BY DEF Ends, Progress
<1>3. Loop(c)[k] = Begun
  BY KeptAlike
<1>4. Loop(w)[Len(v)] = s
  <2>1. 0 \in 0 .. Len(w) /\ 0 \in 0 .. Len(v) /\ <<>> \in Seq(Line(B)) /\ 0 + 0 = 0 /\ 0 + Len(v) = Len(v)
    BY <1>1
  <2>2. From(0, <<>>, Begun) = Begun
    BY DEF From, Begun
  <2>3. Loop(w)[0 + 0] = From(0, <<>>, Loop(v)[0])
    BY <2>1, <2>2, LoopStep
  <2>4. PICK z \in Nat, y \in Nat, o \in Seq(Line(B)) : z < 1 /\ y < 1 /\ Len(o) < 1
    <3>1. Len(<<>>) < 1 /\ 0 \in Nat /\ 0 < 1
      OBVIOUS
    <3> QED BY <2>1, <3>1, Zenon
  <2>5. z = 0 /\ y = 0 /\ o = <<>>
    BY <2>4
  <2>6. /\ z \in 0 .. Len(w) /\ Window(w, z, v) /\ y \in 0 .. Len(v) /\ ~(z >= 1)
        /\ Loop(w)[z + y] = From(z, o, Loop(v)[y])
    BY <2>1, <2>3, <2>5
  <2>7. ~AtPair(w, z + Len(v))
    BY <2>1, <2>5
  <2>8. Loop(w)[z + Len(v)] = From(z, o, Loop(v)[Len(v)])
    BY <2>4, <2>6, <2>7, LoopAlike
  <2>9. From(z, o, s) = s
    <3>1. From(z, o, s) = [start |-> z + s.start, lines |-> o \o s.lines]
      BY DEF From
    <3>2. z + s.start = s.start /\ o \o s.lines = s.lines
      BY <1>2, <2>5
    <3> QED BY <3>1, <3>2, <1>2
  <2> QED BY <1>2, <2>1, <2>5, <2>8, <2>9
<1>5. Loop(w)[d + k] = From(d, s.lines, Loop(c)[k])
  <2>1. From(d, s.lines, Begun) = [start |-> d + 1, lines |-> s.lines \o <<>>]
    BY DEF From, Begun
  <2>2. s.lines \o <<>> = s.lines
    BY <1>2
  <2> QED BY <1>2, <1>3, <1>4, <2>1, <2>2
<1>6. k = 0 /\ Len(c) > 0 /\ c[1] = LF /\ d >= 1 => w[d] # CR
  <2> SUFFICES ASSUME k = 0, Len(c) > 0, c[1] = LF, d >= 1, w[d] = CR PROVE FALSE
    OBVIOUS
  <2>1. d = Len(v) /\ w[d + 1] = LF /\ d \in 1 .. Len(w) - 1
    BY <1>1 DEF Window
  <2> QED BY <2>1 DEF AtPair
<1>7. ~AtPair(w, d + Len(c))
  BY <1>1 DEF AtPair
<1>8. Loop(w)[d + Len(c)] = From(d, s.lines, Loop(c)[Len(c)])
  BY <1>1, <1>2, <1>5, <1>6, <1>7, LoopAlike
<1> QED BY <1>8 DEF Ends

\* What is kept and fed again with the rest behind it gives the lines and the remainder
\* that the whole has, unless the break is within a CRLF.
LEMMA FeedOn ==
  ASSUME NEW B, NEW w \in Seq(B), NEW v \in Seq(B), Window(w, 0, v), ~AtPair(w, Len(v)),
         NEW c \in Seq(B), NEW d \in Nat, d + Len(c) = Len(w), Window(w, d, c), d + Len(FeedAll(v).kept) = Len(v)
  PROVE  /\ FeedAll(w).lines = FeedAll(v).lines \o FeedAll(c).lines
         /\ FeedAll(w).kept = FeedAll(c).kept
<1>1. PICK s : Ends(B, v, s)
  BY FeedEnds
<1>2. PICK r : Ends(B, c, r)
  BY FeedEnds
<1>0. PICK kept : kept = FeedAll(v).kept
  OBVIOUS
<1>3. PICK k : k = Len(kept)
  OBVIOUS
<1>4. /\ Len(v) \in Nat /\ Len(w) \in Nat /\ Len(v) <= Len(w) /\ Len(c) \in Nat
      /\ \A j \in 1 .. Len(v) : v[j] = w[j]
  BY DEF Window
<1>5. PICK m : m = s.start
  OBVIOUS
<1>6. /\ k = Len(v) + 1 - m /\ (\A j \in 1 .. k : kept[j] = v[(m - 1) + j]) /\ m \in 1 .. Len(v) + 1
      /\ k <= MaxLineSize /\ (\A j \in 1 .. k : kept[j] \notin {CR, LF}) /\ d + k = Len(v)
  <2>1. Len(kept) = Len(v) + 1 - m /\ \A j \in 1 .. Len(kept) : kept[j] = v[(m - 1) + j]
    BY <1>0, <1>1, <1>5, KeptIs
  <2>2. Len(kept) <= MaxLineSize /\ (\A j \in 1 .. Len(kept) : kept[j] \notin {CR, LF})
    BY <1>0, FeedIs
  <2> QED BY <1>0, <1>1, <1>3, <1>5, <2>1, <2>2 DEF Ends
<1>7. d + 1 = m /\ m - 1 = d /\ k \in 0 .. Len(c)
  BY <1>4, <1>6
<1>8. \A j \in 1 .. k : c[j] \notin {CR, LF}
  <2> SUFFICES ASSUME NEW j \in 1 .. k PROVE c[j] = kept[j]
    BY <1>6
  <2>1. j \in 1 .. Len(c) /\ d + j \in 1 .. Len(v)
    BY <1>4, <1>6, <1>7
  <2>2. kept[j] = v[d + j] /\ v[d + j] = w[d + j]
    BY <2>1, <1>4, <1>6, <1>7
  <2> QED BY <2>1, <2>2 DEF Window
<1>9. Loop(w)[Len(w)] = From(d, s.lines, r)
  <2>1. PICK n \in 0 .. Len(c) : d + n = Len(v) /\ n <= MaxLineSize /\ \A j \in 1 .. n : c[j] \notin {CR, LF}
    BY <1>6, <1>7, <1>8
  <2>2. d + 1 = s.start
    BY <1>5, <1>7
  <2> QED BY <1>1, <1>2, <2>1, <2>2, FeedAgain
<1>10. PICK t : t = From(d, s.lines, r)
  OBVIOUS
<1>11. FeedAll(w).lines = t.lines /\ FeedAll(w).kept = SubSeq(w, t.start, Len(w))
  BY <1>9, <1>10, Zenon DEF FeedAll
<1>12. t.lines = s.lines \o r.lines /\ t.start = d + r.start
  BY <1>10 DEF From
<1>13. PICK a, e : a = r.start /\ e = Len(c)
  OBVIOUS
<1>14. a \in 1 .. Len(c) + 1 /\ e \in a - 1 .. Len(c) /\ d \in 0 .. Len(w)
  BY <1>2, <1>4, <1>13 DEF Ends
<1>15. SubSeq(w, d + a, d + e) = SubSeq(c, a, e)
  BY <1>14, PieceAlike
<1>16. SubSeq(w, t.start, Len(w)) = SubSeq(c, r.start, Len(c))
  BY <1>12, <1>13, <1>15
<1> QED BY <1>1, <1>2, <1>11, <1>12, <1>16, Zenon DEF Ends

\* Unless a read ended within a CRLF, what was cut is what the whole is cut into.
AlikeInv == cut \in BOOLEAN /\ (~cut => SplitAlike /\ ~AtPair(stream, pos))

\* What was read so far.
LEMMA ReadIs ==
  ASSUME NEW B, NEW s \in Seq(B), NEW n \in 0 .. Len(s)
  PROVE  /\ SubSeq(s, 1, n) \in Seq(B) /\ Len(SubSeq(s, 1, n)) = n
         /\ (\A j \in 1 .. n : SubSeq(s, 1, n)[j] = s[j]) /\ Feed(<<>>, SubSeq(s, 1, n)) = FeedAll(SubSeq(s, 1, n))
<1>1. SUFFICES ASSUME NEW v, v = SubSeq(s, 1, n)
               PROVE  v \in Seq(B) /\ Len(v) = n /\ (\A j \in 1 .. n : v[j] = s[j]) /\ <<>> \o v = v
  BY DEF Feed
<1>2. v \in Seq(B) /\ Len(v) = n /\ \A j \in 1 .. n : v[j] = s[j]
  BY <1>1
<1>3. <<>> \o v = v
  BY <1>2
<1> QED BY <1>2, <1>3

\* Nothing is cut into nothing.
LEMMA NothingAlike ==
  ASSUME NEW B, NEW s \in Seq(B)
  PROVE  Feed(<<>>, SubSeq(s, 1, 0)).lines = <<>> /\ Feed(<<>>, SubSeq(s, 1, 0)).kept = <<>> /\ ~AtPair(s, 0)
<1>1. PICK v : v = SubSeq(s, 1, 0)
  OBVIOUS
<1>2. v \in Seq(B) /\ Len(v) = 0 /\ Feed(<<>>, v) = FeedAll(v)
  <2>1. 0 \in 0 .. Len(s)
    OBVIOUS
  <2> QED BY <1>1, <2>1, ReadIs
<1>3. PICK r : Ends(B, v, r)
  BY <1>2, FeedEnds
<1>4. r = Begun
  BY <1>2, <1>3, LoopStep DEF Ends
<1>5. FeedAll(v).lines = <<>> /\ FeedAll(v).kept = SubSeq(v, 1, 0)
  BY <1>2, <1>3, <1>4 DEF Ends, Begun
<1>6. SubSeq(v, 1, 0) = <<>>
  BY <1>2
<1>7. ~AtPair(s, 0)
  BY DEF AtPair
<1> QED BY <1>1, <1>2, <1>5, <1>6, <1>7, Zenon

\* What is fed: what was kept and the chunk behind it.
FedTo(c, kept, s, p, n) ==
  /\ c = kept \o SubSeq(s, p + 1, p + n) /\ Len(c) = Len(kept) + n
  /\ (\A j \in 1 .. Len(kept) : c[j] = kept[j])
  /\ \A j \in 1 .. n : c[Len(kept) + j] = s[p + j]

\* Something is fed, of that length and with those bytes.
LEMMA ChunkIs ==
  ASSUME NEW B, NEW s \in Seq(B), NEW p \in Nat, NEW n \in Nat, p + n <= Len(s), NEW kept \in Seq(B)
  PROVE  \E c \in Seq(B) : FedTo(c, kept, s, p, n)
<1> DEFINE x == SubSeq(s, p + 1, p + n)
           c == kept \o x
<1>1. x \in Seq(B)
  OBVIOUS
<1>2. Len(x) = n
  OBVIOUS
<1>3. \A j \in 1 .. n : x[j] = s[p + j]
  OBVIOUS
<1> HIDE DEF x
<1>4. c \in Seq(B) /\ Len(c) = Len(kept) + n
  BY <1>1, <1>2
<1>5. \A j \in 1 .. Len(kept) : c[j] = kept[j]
  BY <1>1, <1>2
<1>6. \A j \in 1 .. n : c[Len(kept) + j] = x[j]
  BY <1>1, <1>2
<1> HIDE DEF c
<1>7. c = kept \o SubSeq(s, p + 1, p + n)
  BY Zenon DEF c, x
<1>8. FedTo(c, kept, s, p, n)
  BY <1>3, <1>4, <1>5, <1>6, <1>7 DEF FedTo
<1> QED BY <1>4, <1>8

\* A read goes on where the last one stopped.
LEMMA ReadAlike ==
  ASSUME EntryInv, AlikeInv, Read, ~cut'
  PROVE  SplitAlike' /\ ~AtPair(stream, pos)'
<1>1. PICK B : B = Range(stream)
  OBVIOUS
<1>2. /\ stream \in Seq(B) /\ Len(stream) \in Nat /\ pos \in 0 .. Len(stream) /\ part \in Seq(B)
      /\ out \in Seq(Line(B)) /\ stream' = stream /\ Len(part) \in Nat
  BY <1>1, StreamIs DEF EntryInv, ReadInv, Read
<1>3. PICK n \in 1 .. Len(stream) - pos :
        LET fed == Feed(part, SubSeq(stream, pos + 1, pos + n)) IN
        /\ pos' = pos + n /\ part' = fed.kept /\ out' = out \o fed.lines
        /\ cut' = (cut \/ (stream[pos + n] = CR /\ pos + n < Len(stream) /\ stream[pos + n + 1] = LF))
  BY DEF Read
<1>4. PICK q : q = pos + n
  OBVIOUS
<1>5. q \in Nat /\ q <= Len(stream) /\ pos <= q /\ pos \in Nat /\ q \in 0 .. Len(stream) /\ n \in Nat
  BY <1>2, <1>4
<1>6. ~cut /\ ~AtPair(stream, q) /\ SplitAlike /\ ~AtPair(stream, pos)
  <2>1. ~cut /\ ~(stream[q] = CR /\ q < Len(stream) /\ stream[q + 1] = LF)
    BY <1>3, <1>4 DEF AlikeInv
  <2>2. ~AtPair(stream, q)
    BY <2>1, <1>5 DEF AtPair
  <2> QED BY <2>1, <2>2 DEF AlikeInv
<1>7. PICK w \in Seq(B), v \in Seq(B) : w = SubSeq(stream, 1, q) /\ v = SubSeq(stream, 1, pos)
  BY <1>2, <1>5, ReadIs
<1>8. /\ Len(w) = q /\ Len(v) = pos /\ (\A j \in 1 .. q : w[j] = stream[j]) /\ (\A j \in 1 .. pos : v[j] = stream[j])
      /\ Feed(<<>>, w) = FeedAll(w) /\ Whole = FeedAll(v)
  BY <1>2, <1>5, <1>7, ReadIs DEF Whole
<1>9. out = FeedAll(v).lines /\ part = FeedAll(v).kept
  BY <1>6, <1>8 DEF SplitAlike
<1>10. PICK s : Ends(B, v, s)
  BY FeedEnds
<1>11. PICK m : m = s.start
  OBVIOUS
<1>12. m \in 1 .. pos + 1 /\ Len(part) = pos + 1 - m /\ \A j \in 1 .. Len(part) : part[j] = v[(m - 1) + j]
  <2>1. m \in 1 .. pos + 1
    BY <1>8, <1>10, <1>11 DEF Ends
  <2>2. /\ Len(FeedAll(v).kept) = Len(v) + 1 - s.start
        /\ \A j \in 1 .. Len(FeedAll(v).kept) : FeedAll(v).kept[j] = v[(s.start - 1) + j]
    BY <1>10, KeptIs
  <2> QED BY <2>1, <2>2, <1>8, <1>9, <1>11
<1>13. PICK d \in Nat : d = m - 1
  BY <1>5, <1>12
<1>14. d + Len(part) = pos /\ d \in 0 .. q
  BY <1>2, <1>5, <1>12, <1>13
<1>15. pos + n <= Len(stream)
  BY <1>4, <1>5
<1>16. PICK c \in Seq(B) : FedTo(c, part, stream, pos, n)
  BY <1>2, <1>5, <1>15, ChunkIs
<1>17. /\ Len(c) = Len(part) + n
       /\ (\A j \in 1 .. Len(part) : c[j] = part[j])
       /\ \A j \in 1 .. n : c[Len(part) + j] = stream[pos + j]
  BY <1>16 DEF FedTo
<1>18. Len(c) \in Nat /\ d + Len(c) = q
  <2>1. Len(c) \in Nat
    OBVIOUS
  <2>2. d + (Len(part) + n) = (d + Len(part)) + n
    BY <1>2, <1>5
  <2> QED BY <2>1, <2>2, <1>4, <1>14, <1>17
<1>19. d + Len(c) = Len(w)
  BY <1>8, <1>18
<1>20. ASSUME NEW j \in 1 .. Len(c) PROVE c[j] = w[d + j]
  <2>1. CASE j <= Len(part)
    <3>1. c[j] = part[j] /\ part[j] = v[d + j]
      BY <2>1, <1>2, <1>12, <1>13, <1>17
    <3>2. d + j \in 1 .. pos /\ d + j \in 1 .. q
      BY <2>1, <1>2, <1>5, <1>14
    <3> QED BY <3>1, <3>2, <1>8
  <2>2. CASE j > Len(part)
    <3>1. j - Len(part) \in 1 .. n /\ j = Len(part) + (j - Len(part))
      BY <2>2, <1>2, <1>5, <1>17
    <3>2. PICK i \in 1 .. n : j = Len(part) + i
      BY <3>1
    <3>3. d + j = pos + i
      <4>1. d + (Len(part) + i) = (d + Len(part)) + i
        BY <3>2, <1>2, <1>5
      <4> QED BY <3>2, <4>1, <1>14
    <3>4. pos + i \in 1 .. q
      BY <3>2, <1>4, <1>5
    <3>5. c[j] = stream[pos + i]
      BY <3>2, <1>17
    <3> QED BY <3>3, <3>4, <3>5, <1>8
  <2> QED BY <2>1, <2>2, <1>2
<1>21. Window(w, d, c)
  BY <1>5, <1>8, <1>19, <1>20 DEF Window
<1>22. Window(w, 0, v)
  <2>1. \A j \in 1 .. pos : v[j] = w[0 + j]
    BY <1>5, <1>8
  <2> QED BY <2>1, <1>5, <1>8 DEF Window
<1>23. ~AtPair(w, Len(v))
  <2> SUFFICES ASSUME AtPair(w, pos) PROVE FALSE
    BY <1>8
  <2>1. pos \in 1 .. Len(stream) - 1 /\ pos \in 1 .. q /\ pos + 1 \in 1 .. q
    BY <1>2, <1>5, <1>8 DEF AtPair
  <2>2. AtPair(stream, pos)
    BY <2>1, <1>8 DEF AtPair
  <2> QED BY <2>2, <1>6
<1>24. /\ FeedAll(w).lines = FeedAll(v).lines \o FeedAll(c).lines
       /\ FeedAll(w).kept = FeedAll(c).kept
  <2>1. d + Len(FeedAll(v).kept) = Len(v)
    BY <1>8, <1>9, <1>14
  <2> QED BY <2>1, <1>19, <1>21, <1>22, <1>23, FeedOn
<1>25. part' = FeedAll(c).kept /\ out' = out \o FeedAll(c).lines /\ pos' = q
  BY <1>3, <1>4, <1>16 DEF Feed, FedTo
<1>26. Whole' = FeedAll(w)
  BY <1>2, <1>7, <1>8, <1>25 DEF Whole
<1> QED BY <1>2, <1>6, <1>9, <1>24, <1>25, <1>26 DEF SplitAlike

\* Every step keeps to it.
LEMMA AlikeStep ==
  ASSUME EntryInv, AlikeInv, [Next]_vars
  PROVE  AlikeInv'
<1>1. CASE Read
  <2>1. cut' \in BOOLEAN
    BY <1>1 DEF Read
  <2> QED BY <1>1, <2>1, ReadAlike DEF AlikeInv
<1>2. CASE Crash
  <2>1. stream' \in Seq(Range(stream')) /\ pos' = 0 /\ cut' = FALSE /\ part' = <<>> /\ out' = <<>>
    BY <1>2, StreamIs DEF Crash
  <2>2. /\ Feed(<<>>, SubSeq(stream', 1, 0)).lines = <<>> /\ Feed(<<>>, SubSeq(stream', 1, 0)).kept = <<>>
        /\ ~AtPair(stream', 0)
    BY <2>1, NothingAlike
  <2> QED BY <2>1, <2>2 DEF AlikeInv, SplitAlike, Whole
<1>3. CASE UNCHANGED feed
  <2>1. UNCHANGED <<stream, pos, cut, part, out>>
    BY <1>3 DEF feed
  <2>2. SplitAlike' = SplitAlike /\ AtPair(stream, pos)' = AtPair(stream, pos)
    BY <2>1 DEF SplitAlike, Whole
  <2> QED BY <2>1, <2>2 DEF AlikeInv
<1>4. Read \/ Crash \/ UNCHANGED feed
  BY DEF Next, Rotate, PushLine, WriteLine, WriteTorn, WriteFails, Close, CloseFails, Drop, Shift, MoveMain, Reopen, PassOver, RotationFails, ClearRing, vars
<1> QED BY <1>1, <1>2, <1>3, <1>4

\* It begins so.
LEMMA AlikeStarts == Init => AlikeInv
<1> SUFFICES ASSUME Init PROVE AlikeInv
  OBVIOUS
<1>1. stream \in Seq(Range(stream)) /\ pos = 0 /\ cut = FALSE /\ part = <<>> /\ out = <<>>
  BY StreamIs DEF Init
<1>2. /\ Feed(<<>>, SubSeq(stream, 1, 0)).lines = <<>> /\ Feed(<<>>, SubSeq(stream, 1, 0)).kept = <<>>
      /\ ~AtPair(stream, 0)
  BY <1>1, NothingAlike
<1> QED BY <1>1, <1>2 DEF AlikeInv, SplitAlike, Whole

\* Wherever the reads end, short of between a carriage return and its newline, the lines
\* are those of the whole stream (LineBuffer.Feed).
THEOREM ReadsSplitAlike == Spec => [](cut \/ SplitAlike)
<1>1. AlikeInv => cut \/ SplitAlike
  BY DEF AlikeInv
<1>2. EntryInv /\ AlikeInv /\ [Next]_vars => (EntryInv /\ AlikeInv)'
  BY EntryStep, AlikeStep
<1> QED BY <1>1, <1>2, EntryStarts, AlikeStarts, PTL DEF Spec
-----------------------------------------------------------------------------
(* Code points.                                                            *)

\* A line that does not begin within a code point.
Begin(ln) == ln.bytes = <<>> \/ ~Continues(ln.bytes[1])
AllBegin(lines) == \A k \in DOMAIN lines : Begin(lines[k])

\* No code point goes on at the beginning, or after a line end.
LEMMA AfterBreak ==
  ASSUME NEW B, NEW s \in Seq(B), WholePoints(s), NEW i \in 1 .. Len(s), i = 1 \/ s[i - 1] \in {CR, LF}
  PROVE  ~Continues(s[i])
<1> SUFFICES ASSUME Continues(s[i]) PROVE FALSE
  OBVIOUS
<1>1. PICK k \in 1 .. 3 : k < i /\ s[i - k] \notin {CR, LF, "c"} /\ \A j \in 1 .. k - 1 : Continues(s[i - j])
  BY DEF WholePoints
<1>2. i # 1 /\ s[i - 1] \in {CR, LF}
  BY <1>1
<1>3. k # 1
  BY <1>1, <1>2
<1>4. Continues(s[i - 1])
  <2>1. 1 \in 1 .. k - 1
    BY <1>3
  <2> QED BY <2>1, <1>1
<1> QED BY <1>2, <1>4 DEF Continues, CR, LF

\* A forced split goes back to where a code point begins.
LEMMA SplitBegins ==
  ASSUME NEW B, NEW w \in Seq(B), WholePoints(w), NEW d \in 0 .. Len(w), NEW c \in Seq(B), Window(w, d, c),
         NEW cap \in Nat, NEW floor \in Nat, cap \in 1 .. Len(c), floor \in 1 .. cap - 1, cap - floor >= 4
  PROVE  ~Continues(c[SafeSplit(c, cap, floor)])
<1>1. /\ Len(w) \in Nat /\ d \in Nat /\ Len(c) \in Nat /\ cap \in Nat /\ floor \in Nat /\ floor < cap
      /\ \A i \in 1 .. Len(c) : d + i \in 1 .. Len(w) /\ c[i] = w[d + i]
  BY WindowIs
<1>2. PICK k : Furthest(c, cap, floor, k)
  BY <1>1, BackIs
<1>3. k \in 0 .. 3 /\ \A j \in 0 .. k - 1 : Continues(c[cap - j])
  BY <1>2 DEF Furthest, Back
<1>4. SafeSplit(c, cap, floor) = cap - k
  BY <1>1, <1>2, <1>3 DEF Furthest
<1>5. CASE k < 3
  <2>1. k + 1 \notin Back(c, cap, floor)
    BY <1>2, <1>3 DEF Furthest
  <2>2. k + 1 \in 0 .. 3 /\ k + 1 <= cap - floor
    BY <1>1, <1>3, <1>5
  <2>3. PICK j \in 0 .. (k + 1) - 1 : ~Continues(c[cap - j])
    BY <2>1, <2>2 DEF Back
  <2>4. j = k
    BY <1>3, <2>3
  <2> QED BY <1>4, <2>3, <2>4
<1>6. CASE k = 3
  <2>1. Continues(c[cap - 0]) /\ Continues(c[cap - 1]) /\ Continues(c[cap - 2])
    BY <1>3, <1>6
  <2>2. /\ cap - 0 = cap /\ cap - 1 \in 1 .. Len(c) /\ cap - 2 \in 1 .. Len(c) /\ cap - 3 \in 1 .. Len(c)
        /\ d + (cap - 1) = (d + cap) - 1 /\ d + (cap - 2) = (d + cap) - 2 /\ d + (cap - 3) = (d + cap) - 3
    BY <1>1
  <2>3. PICK i \in 1 .. Len(w) : i = d + cap
    BY <1>1
  <2>4. Continues(w[i]) /\ Continues(w[i - 1]) /\ Continues(w[i - 2]) /\ c[cap - 3] = w[i - 3]
    BY <1>1, <2>1, <2>2, <2>3
  <2>5. PICK q \in 1 .. 3 : w[i - q] \notin {CR, LF, "c"}
    BY <2>4 DEF WholePoints
  <2>6. q = 3
    BY <2>4, <2>5 DEF Continues
  <2> QED BY <1>4, <1>6, <2>4, <2>5, <2>6 DEF Continues
<1> QED BY <1>3, <1>5, <1>6

\* A line that is cut begins where the last one ended.
LEMMA CutBegins ==
  ASSUME NEW B, NEW c \in Seq(B), NEW s \in Progress(B), NEW m \in 1 .. Len(c) + 1, s.start = m,
         NEW end \in m - 1 .. Len(c), NEW from, AllBegin(s.lines), m <= Len(c) => ~Continues(c[m]),
         NEW t, t = CutWhole(c, s, end, from) \/ t = CutPart(c, s, end, from)
  PROVE  AllBegin(t.lines) /\ t.start = from
<1>1. PICK x : x = SubSeq(c, m, end)
  OBVIOUS
<1>2. x = <<>> \/ ~Continues(x[1])
  <2>1. CASE end = m - 1
    BY <1>1, <2>1
  <2>2. CASE end # m - 1
    <3>1. x[1] = c[m] /\ m <= Len(c)
      BY <1>1, <2>2
    <3> QED BY <3>1
  <2> QED BY <2>1, <2>2
<1>3. PICK ln : ln.bytes = x /\ t = [start |-> from, lines |-> Append(s.lines, ln)]
  <2>1. CASE t = CutPart(c, s, end, from)
    <3> DEFINE ln == [bytes |-> SubSeq(c, m, end), partial |-> TRUE]
    <3>1. t = [start |-> from, lines |-> Append(s.lines, ln)]
      BY <2>1, Zenon DEF Cut, CutPart
    <3>2. ln.bytes = x
      BY <1>1
    <3> QED BY <3>1, <3>2, Zenon
  <2>2. CASE t = CutWhole(c, s, end, from)
    <3> DEFINE ln == [bytes |-> SubSeq(c, m, end), partial |-> FALSE]
    <3>1. t = [start |-> from, lines |-> Append(s.lines, ln)]
      BY <2>2, Zenon DEF Cut, CutWhole
    <3>2. ln.bytes = x
      BY <1>1
    <3> QED BY <3>1, <3>2, Zenon
  <2> QED BY <2>1, <2>2
<1>4. Begin(ln)
  BY <1>2, <1>3 DEF Begin
<1>5. PICK l \in Seq(Line(B)) : l = s.lines
  BY DEF Progress
<1>6. DOMAIN Append(l, ln) = 1 .. Len(l) + 1 /\ DOMAIN l = 1 .. Len(l) /\ Append(l, ln)[Len(l) + 1] = ln
      /\ \A k \in 1 .. Len(l) : Append(l, ln)[k] = l[k]
  OBVIOUS
<1>7. AllBegin(Append(l, ln))
  <2> SUFFICES ASSUME NEW k \in 1 .. Len(l) + 1 PROVE Begin(Append(l, ln)[k])
    BY <1>6 DEF AllBegin
  <2>1. CASE k = Len(l) + 1
    BY <2>1, <1>4, <1>6
  <2>2. CASE k \in 1 .. Len(l)
    BY <2>2, <1>5, <1>6 DEF AllBegin
  <2> QED BY <2>1, <2>2
<1>8. t.lines = Append(l, ln) /\ t.start = from
  BY <1>3, <1>5
<1> QED BY <1>7, <1>8

\* The lines begin at code points, and so does what follows them.
Begins(w, d, s) == AllBegin(s.lines) /\ \A n \in 1 .. Len(w) : n = d + s.start => ~Continues(w[n])

\* One byte.
LEMMA ByteBegins ==
  ASSUME NEW B, NEW w \in Seq(B), WholePoints(w), MaxLineSize >= 4,
         NEW d \in 0 .. Len(w), NEW c \in Seq(B), Window(w, d, c),
         NEW i \in 1 .. Len(c), NEW s, Fed(B, c, s, i - 1), Begins(w, d, s)
  PROVE  Begins(w, d, FeedByte(c, s, i))
<1> SUFFICES ASSUME NEW t, t = FeedByte(c, s, i) PROVE Begins(w, d, t)
  OBVIOUS
<1>1. /\ Len(c) \in Nat /\ Len(w) \in Nat /\ d \in Nat /\ d + Len(c) <= Len(w) /\ i \in Nat /\ c \in Seq(B)
      /\ \A j \in 1 .. Len(c) : d + j \in 1 .. Len(w) /\ c[j] = w[d + j]
  BY WindowIs
<1>2. PICK m : m = s.start
  OBVIOUS
<1>3. /\ s \in Progress(B) /\ m \in 1 .. Len(c) + 1 /\ i - m <= MaxLineSize
      /\ ~AtPair(c, i - 1) => m <= i
      /\ MaxLineSize \in Nat /\ CR # LF /\ AllBegin(s.lines)
  BY <1>1, <1>2, EntryAssumption DEF Fed, CR, LF, Begins
<1>4. m <= Len(c) => ~Continues(c[m])
  <2> SUFFICES ASSUME m <= Len(c) PROVE ~Continues(c[m])
    OBVIOUS
  <2>1. PICK n \in 1 .. Len(w) : n = d + m
    BY <1>1, <1>3
  <2>2. ~Continues(w[n])
    BY <1>2, <2>1 DEF Begins
  <2> QED BY <2>1, <2>2, <1>1, <1>3
<1>5. ASSUME NEW j \in 1 .. Len(c), c[j] \in {CR, LF}, t.start = j + 1, AllBegin(t.lines) PROVE Begins(w, d, t)
  <2> SUFFICES ASSUME NEW n \in 1 .. Len(w), n = d + t.start PROVE ~Continues(w[n])
    BY <1>5 DEF Begins
  <2>1. w[d + j] \in {CR, LF} /\ n - 1 = d + j
    BY <1>1, <1>5
  <2> QED BY <2>1, AfterBreak
<1>6. CASE c[i] = CR /\ i < Len(c) /\ c[i + 1] = LF
  <2>1. PICK e, f : e = i - 1 /\ f = i + 2
    OBVIOUS
  <2>2. t = CutWhole(c, s, e, f)
    BY <1>3, <1>6, <2>1, Zenon DEF FeedByte, CutWhole
  <2>3. e \in m - 1 .. Len(c)
    <3>1. ~AtPair(c, i - 1)
      BY <1>1, <1>3, <1>6 DEF AtPair
    <3> QED BY <3>1, <2>1, <1>1, <1>3
  <2>4. (t = CutWhole(c, s, e, f) \/ t = CutPart(c, s, e, f)) /\ f \in Nat
    BY <2>1, <2>2, <1>1
  <2>5. AllBegin(t.lines) /\ t.start = f
    <3>1. s \in Progress(B) /\ m \in 1 .. Len(c) + 1 /\ s.start = m /\ AllBegin(s.lines)
      BY <1>2, <1>3
    <3> QED BY <3>1, <1>4, <2>3, <2>4, CutBegins
  <2>6. PICK j \in 1 .. Len(c) : j = i + 1
    BY <1>6, <1>1
  <2> QED BY <1>5, <1>6, <2>1, <2>5, <2>6
<1>7. CASE c[i] = CR /\ ~(i < Len(c) /\ c[i + 1] = LF)
  <2>1. t = [s EXCEPT !.start = i + 1]
    BY <1>3, <1>7, Zenon DEF FeedByte
  <2>2. t.start = i + 1 /\ t.lines = s.lines
    BY <2>1, <1>3 DEF Progress
  <2> QED BY <2>2, <1>3, <1>5, <1>7
<1>8. CASE c[i] = LF /\ i > 1 /\ c[i - 1] = CR
  <2>1. t = s
    BY <1>3, <1>8 DEF FeedByte
  <2> QED BY <2>1
<1>9. CASE c[i] = LF /\ ~(i > 1 /\ c[i - 1] = CR)
  <2>1. PICK e, f : e = i - 1 /\ f = i + 1
    OBVIOUS
  <2>2. t = CutWhole(c, s, e, f)
    BY <1>3, <1>9, <2>1, Zenon DEF FeedByte, CutWhole
  <2>3. e \in m - 1 .. Len(c)
    <3>1. ~AtPair(c, i - 1)
      BY <1>1, <1>9 DEF AtPair
    <3> QED BY <3>1, <2>1, <1>1, <1>3
  <2>4. (t = CutWhole(c, s, e, f) \/ t = CutPart(c, s, e, f)) /\ f \in Nat
    BY <2>1, <2>2, <1>1
  <2>5. AllBegin(t.lines) /\ t.start = f
    <3>1. s \in Progress(B) /\ m \in 1 .. Len(c) + 1 /\ s.start = m /\ AllBegin(s.lines)
      BY <1>2, <1>3
    <3> QED BY <3>1, <1>4, <2>3, <2>4, CutBegins
  <2> QED BY <1>5, <1>9, <2>1, <2>5
<1>10. CASE c[i] \notin {CR, LF} /\ i - m < MaxLineSize
  <2>1. t = s
    BY <1>2, <1>10 DEF FeedByte
  <2> QED BY <2>1
<1>11. CASE c[i] \notin {CR, LF} /\ ~(i - m < MaxLineSize)
  <2>1. PICK at : at = SafeSplit(c, m + MaxLineSize, m)
    OBVIOUS
  <2>2. t = CutPart(c, s, at - 1, at)
    BY <1>2, <1>11, <2>1, Zenon DEF FeedByte, CutPart
  <2>3. m + MaxLineSize = i /\ m \in 1 .. i - 1 /\ i - m >= 4
    BY <1>1, <1>3, <1>11
  <2>4. at = SafeSplit(c, i, m)
    BY <2>1, <2>3
  <2>5. at \in m + 1 .. i
    BY <2>3, <2>4, <1>1, <1>3, SplitWithin
  <2>6. ~Continues(c[at])
    <3>1. i \in Nat /\ m \in Nat /\ i \in 1 .. Len(c)
      BY <1>1, <1>3
    <3> QED BY <3>1, <2>3, <2>4, SplitBegins
  <2>7. PICK e : e = at - 1
    OBVIOUS
  <2>8. e \in m - 1 .. Len(c) /\ at \in 1 .. Len(c)
    BY <2>3, <2>5, <2>7, <1>1
  <2>9. t = CutWhole(c, s, e, at) \/ t = CutPart(c, s, e, at)
    BY <2>2, <2>7
  <2>10. AllBegin(t.lines) /\ t.start = at
    BY <1>2, <1>3, <1>4, <2>8, <2>9, CutBegins
  <2> QED BY <2>6, <2>8, <2>10, <1>1 DEF Begins
<1> QED BY <1>6, <1>7, <1>8, <1>9, <1>10, <1>11

\* So the whole piece.
LEMMA LoopBegins ==
  ASSUME NEW B, NEW w \in Seq(B), WholePoints(w), MaxLineSize >= 4,
         NEW d \in 0 .. Len(w), NEW c \in Seq(B), Window(w, d, c), Begins(w, d, Begun)
  PROVE  Begins(w, d, Loop(c)[Len(c)])
<1> DEFINE S == {i \in 0 .. Len(c) : Begins(w, d, Loop(c)[i])}
<1>1. Len(c) \in Nat /\ 0 \in S
  BY LoopStep
<1>2. ASSUME NEW j \in 0 .. Len(c) - 1, j \in S PROVE j + 1 \in S
  <2>1. j + 1 \in 1 .. Len(c) /\ (j + 1) - 1 = j /\ j + 1 \in 0 .. Len(c) /\ j \in 0 .. Len(c)
    BY <1>1
  <2>2. PICK s, i : s = Loop(c)[j] /\ i = j + 1
    OBVIOUS
  <2>3. Fed(B, c, s, i - 1) /\ Begins(w, d, s) /\ i \in 1 .. Len(c)
    BY <1>2, <2>1, <2>2, LoopKeeps
  <2>4. Begins(w, d, FeedByte(c, s, i))
    BY <2>3, ByteBegins
  <2> QED BY <2>1, <2>2, <2>4, LoopStep
<1> HIDE DEF S
<1>3. 0 .. Len(c) \subseteq S
  BY <1>1, <1>2, Induction
<1>4. Len(c) \in S
  BY <1>1, <1>3
<1> QED BY <1>4 DEF S

\* What is kept is where the reads are, and begins at a code point, as the lines do.
KeptAt(d) ==
  /\ d \in 0 .. Len(stream) /\ d + Len(part) = pos /\ Window(stream, d, part)
  /\ \A n \in 1 .. Len(stream) : n = d + 1 => ~Continues(stream[n])
PointsInv == AllBegin(out) /\ \E d : KeptAt(d)

\* What is fed is a piece of the stream.
LEMMA ChunkWindow ==
  ASSUME NEW B, NEW s \in Seq(B), NEW d \in 0 .. Len(s), NEW p \in Nat, NEW n \in Nat, p + n <= Len(s),
         NEW kept \in Seq(B), d + Len(kept) = p, Window(s, d, kept),
         NEW c \in Seq(B), FedTo(c, kept, s, p, n)
  PROVE  Window(s, d, c) /\ d + Len(c) = p + n
<1>1. Len(s) \in Nat /\ d \in Nat /\ Len(kept) \in Nat /\ Len(c) \in Nat
  OBVIOUS
<1>2. /\ Len(c) = Len(kept) + n /\ (\A j \in 1 .. Len(kept) : c[j] = kept[j])
      /\ (\A j \in 1 .. n : c[Len(kept) + j] = s[p + j]) /\ \A j \in 1 .. Len(kept) : kept[j] = s[d + j]
  BY DEF FedTo, Window
<1>3. d + Len(c) = p + n
  <2>1. Len(c) = Len(kept) + n /\ d + (Len(kept) + n) = (d + Len(kept)) + n
    BY <1>1, <1>2
  <2> QED BY <2>1
<1>4. ASSUME NEW j \in 1 .. Len(c) PROVE c[j] = s[d + j]
  <2>1. CASE j <= Len(kept)
    <3>1. j \in 1 .. Len(kept)
      BY <2>1, <1>1
    <3> QED BY <3>1, <1>2
  <2>2. CASE j > Len(kept)
    <3>1. j - Len(kept) \in 1 .. n /\ j = Len(kept) + (j - Len(kept))
      BY <2>2, <1>1, <1>2
    <3>2. PICK i \in 1 .. n : j = Len(kept) + i
      BY <3>1
    <3>3. d + (Len(kept) + i) = (d + Len(kept)) + i
      BY <3>2, <1>1
    <3>4. d + j = p + i
      BY <3>2, <3>3
    <3> QED BY <3>2, <3>4, <1>2
  <2> QED BY <2>1, <2>2, <1>1
<1> QED BY <1>3, <1>4 DEF Window

\* Lines behind lines.
LEMMA JoinBegins ==
  ASSUME NEW L, NEW a \in Seq(L), NEW b \in Seq(L), AllBegin(a), AllBegin(b)
  PROVE  AllBegin(a \o b)
<1>1. PICK x : x = a \o b
  OBVIOUS
<1>2. Len(a) \in Nat /\ Len(b) \in Nat /\ DOMAIN x = 1 .. Len(a) + Len(b) /\ \A k \in 1 .. Len(a) : x[k] = a[k]
  BY <1>1
<1>3. \A k \in 1 .. Len(b) : x[Len(a) + k] = b[k]
  BY <1>1
<1>4. ASSUME NEW k \in 1 .. Len(a) + Len(b) PROVE Begin(x[k])
  <2>1. CASE k <= Len(a)
    <3>1. k \in DOMAIN a /\ x[k] = a[k]
      BY <2>1, <1>2
    <3> QED BY <3>1 DEF AllBegin
  <2>2. CASE k > Len(a)
    <3>1. PICK i \in 1 .. Len(b) : k = Len(a) + i
      <4>1. k - Len(a) \in 1 .. Len(b) /\ k = Len(a) + (k - Len(a))
        BY <2>2, <1>2
      <4> QED BY <4>1
    <3>2. i \in DOMAIN b /\ x[k] = b[i]
      BY <3>1, <1>3
    <3> QED BY <3>2 DEF AllBegin
  <2> QED BY <2>1, <2>2, <1>2
<1> QED BY <1>1, <1>2, <1>4 DEF AllBegin

\* A read leaves it so.
LEMMA ReadBegins ==
  ASSUME EntryInv, PointsInv, Read, WholePoints(stream), MaxLineSize >= 4
  PROVE  PointsInv'
<1>1. PICK B : B = Range(stream)
  OBVIOUS
<1>2. /\ stream \in Seq(B) /\ Len(stream) \in Nat /\ pos \in 0 .. Len(stream) /\ part \in Seq(B)
      /\ out \in Seq(Line(B)) /\ stream' = stream /\ Len(part) \in Nat /\ pos \in Nat
  BY <1>1, StreamIs DEF EntryInv, ReadInv, Read
<1>3. PICK n \in 1 .. Len(stream) - pos :
        LET fed == Feed(part, SubSeq(stream, pos + 1, pos + n)) IN
        pos' = pos + n /\ part' = fed.kept /\ out' = out \o fed.lines
  BY DEF Read
<1>4. n \in Nat /\ pos + n <= Len(stream)
  BY <1>2
<1>5. PICK d : KeptAt(d)
  BY DEF PointsInv
<1>6. d \in 0 .. Len(stream) /\ d \in Nat /\ d + Len(part) = pos /\ AllBegin(out) /\ Window(stream, d, part)
  BY <1>2, <1>5 DEF KeptAt, PointsInv
<1>7. PICK c \in Seq(B) : FedTo(c, part, stream, pos, n)
  BY <1>2, <1>4, ChunkIs
<1>8. Window(stream, d, c) /\ d + Len(c) = pos + n
  <2>1. PICK p \in Nat : p = pos
    BY <1>2
  <2>2. p + n <= Len(stream) /\ d + Len(part) = p /\ FedTo(c, part, stream, p, n)
    BY <1>4, <1>6, <1>7, <2>1
  <2>3. Window(stream, d, c) /\ d + Len(c) = p + n
    BY <1>2, <1>4, <1>6, <2>2, ChunkWindow
  <2> QED BY <2>1, <2>3
<1>9. PICK r : Ends(B, c, r)
  BY FeedEnds
<1>10. Begins(stream, d, r)
  <2>1. AllBegin(Begun.lines) /\ Begun.start = 1
    BY DEF Begun, AllBegin
  <2>2. Begins(stream, d, Begun)
    BY <1>5, <2>1 DEF KeptAt, Begins
  <2>3. Begins(stream, d, Loop(c)[Len(c)])
    BY <1>2, <1>6, <1>8, <2>2, LoopBegins
  <2> QED BY <1>9, <2>3 DEF Ends
<1>11. pos' = pos + n /\ part' = FeedAll(c).kept /\ out' = out \o r.lines
  BY <1>3, <1>7, <1>9 DEF Feed, FedTo, Ends
<1>12. AllBegin(out')
  <2>1. AllBegin(r.lines) /\ r.lines \in Seq(Line(B))
    BY <1>9, <1>10 DEF Begins, Ends
  <2> QED BY <2>1, <1>2, <1>6, <1>11, JoinBegins
<1>13. PICK m : m = r.start
  OBVIOUS
<1>14. m \in 1 .. Len(c) + 1 /\ Len(c) \in Nat
  BY <1>9, <1>13 DEF Ends
<1>15. Len(part') = Len(c) + 1 - m /\ \A j \in 1 .. Len(part') : part'[j] = c[(m - 1) + j]
  BY <1>9, <1>11, <1>13, KeptIs
<1>16. PICK e : e = d + (m - 1)
  OBVIOUS
<1>17. e \in 0 .. Len(stream) /\ e + Len(part') = pos' /\ e + 1 = d + m
  <2>1. m \in Nat /\ 1 <= m /\ m <= Len(c) + 1 /\ Len(c) \in Nat /\ d \in Nat
    BY <1>6, <1>14
  <2>2. Len(part') = Len(c) + 1 - m
    BY <1>15
  <2>3. e + 1 = d + m /\ e \in Nat /\ e + Len(part') = d + Len(c) /\ e <= d + Len(c)
    BY <2>1, <2>2, <1>16
  <2> QED BY <2>3, <1>2, <1>4, <1>8, <1>11
<1>18. ASSUME NEW j \in 1 .. Len(part') PROVE part'[j] = stream[e + j]
  <2>1. PICK i \in 1 .. Len(c) : i = (m - 1) + j
    BY <1>14, <1>15
  <2>2. part'[j] = c[i] /\ e + j = d + i
    BY <2>1, <1>6, <1>14, <1>15, <1>16
  <2> QED BY <2>1, <2>2, <1>8 DEF Window
<1>19. ASSUME NEW q \in 1 .. Len(stream), q = e + 1 PROVE ~Continues(stream[q])
  BY <1>10, <1>13, <1>17, <1>19 DEF Begins
<1>20. Window(stream, e, part)'
  BY <1>2, <1>11, <1>4, <1>17, <1>18 DEF Window
<1>21. KeptAt(e)'
  BY <1>2, <1>17, <1>19, <1>20 DEF KeptAt
<1> QED BY <1>12, <1>21 DEF PointsInv

\* So does every step.
LEMMA PointsStep ==
  ASSUME WellFed, EntryInv, PointsInv, [Next]_vars
  PROVE  PointsInv'
<1>1. CASE Read
  <2>1. WholePoints(stream) /\ MaxLineSize >= 4
    BY DEF WellFed, EntryInv, ReadInv
  <2> QED BY <1>1, <2>1, ReadBegins
<1>2. CASE Crash
  <2>1. /\ stream' \in Streams /\ stream' \in Seq(Range(stream')) /\ pos' = 0 /\ part' = <<>> /\ out' = <<>>
        /\ Len(stream') \in Nat
    BY <1>2, StreamIs DEF Crash
  <2>2. PICK w : w = stream'
    OBVIOUS
  <2>3. \A n \in 1 .. Len(w) : n = 0 + 1 => ~Continues(w[n])
    BY <2>1, <2>2, AfterBreak DEF WellFed
  <2>4. Window(w, 0, <<>>)
    BY <2>1, <2>2 DEF Window
  <2>5. KeptAt(0)'
    BY <2>1, <2>2, <2>3, <2>4 DEF KeptAt
  <2> QED BY <2>1, <2>5 DEF PointsInv, AllBegin
<1>3. CASE UNCHANGED feed
  <2>1. UNCHANGED <<stream, pos, part, out>>
    BY <1>3 DEF feed
  <2> QED BY <2>1 DEF PointsInv, KeptAt
<1>4. Read \/ Crash \/ UNCHANGED feed
  BY DEF Next, Rotate, PushLine, WriteLine, WriteTorn, WriteFails, Close, CloseFails, Drop, Shift, MoveMain, Reopen, PassOver, RotationFails, ClearRing, vars
<1> QED BY <1>1, <1>2, <1>3, <1>4

\* It begins so.
LEMMA PointsStart ==
  ASSUME WellFed, Init
  PROVE  PointsInv
<1>1. stream \in Streams /\ stream \in Seq(Range(stream)) /\ Len(stream) \in Nat /\ pos = 0 /\ part = <<>> /\ out = <<>>
  BY StreamIs DEF Init
<1>2. PICK w : w = stream
  OBVIOUS
<1>3. \A n \in 1 .. Len(w) : n = 0 + 1 => ~Continues(w[n])
  BY <1>1, <1>2, AfterBreak DEF WellFed
<1>4. Window(w, 0, <<>>)
  BY <1>1, <1>2 DEF Window
<1>5. KeptAt(0)
  BY <1>1, <1>2, <1>3, <1>4 DEF KeptAt
<1> QED BY <1>1, <1>5 DEF PointsInv, AllBegin

\* Wherever the reads end, short of between a carriage return and its newline, the lines
\* are those of the whole stream, and when the child prints whole code points none is cut
\* in two (LineBuffer.Feed, safeSplitOffset).
THEOREM ReadsNeverMatter ==
  ASSUME WellFed
  PROVE  Spec => []ReadsDoNotMatter
<1>1. EntryInv /\ AlikeInv /\ PointsInv => ReadsDoNotMatter
  <2> SUFFICES ASSUME EntryInv, AlikeInv, PointsInv PROVE ReadsDoNotMatter
    OBVIOUS
  <2>1. out \in Seq(Line(Range(stream))) /\ AllBegin(out) /\ (cut \/ SplitAlike)
    BY DEF EntryInv, ReadInv, AlikeInv, PointsInv
  <2>2. CodePointsWhole
    <3> SUFFICES ASSUME NEW i \in DOMAIN out, i < Len(out) PROVE Begin(out[i + 1])
      BY DEF CodePointsWhole, Begin
    <3>1. i + 1 \in DOMAIN out
      BY <2>1
    <3> QED BY <2>1, <3>1 DEF AllBegin
  <2> QED BY <2>1, <2>2 DEF ReadsDoNotMatter
<1>2. EntryInv /\ AlikeInv /\ PointsInv /\ [Next]_vars => (EntryInv /\ AlikeInv /\ PointsInv)'
  BY EntryStep, AlikeStep, PointsStep
<1>3. Init => EntryInv /\ AlikeInv /\ PointsInv
  BY EntryStarts, AlikeStarts, PointsStart
<1> QED BY <1>1, <1>2, <1>3, PTL DEF Spec
=============================================================================
