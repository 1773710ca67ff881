---------------------------- MODULE PanelProofs -----------------------------
(***************************************************************************)
(* What the log panel shows, copies and clicks, and where its word motions *)
(* lead, proved for every buffer, pane, key, click and filter.             *)
(***************************************************************************)
EXTENDS LogPanelProperties, CursorWalk, FiniteSetTheorems, WellFoundedInduction, TLAPS

-----------------------------------------------------------------------------
(* Numbers.                                                                *)

\* Every set of numbers that is not empty has a least one.
LEMMA LeastOf ==
  ASSUME NEW S, S \subseteq Nat, S # {}
  PROVE  \E n \in S : \A m \in S : n <= m
<1> DEFINE Less == OpToRel(<, Nat)
<1>1. IsWellFoundedOn(Less, Nat)
  BY NatLessThanWellFounded, Zenon
<1>2. PICK n \in S : \A m \in S : <<m, n>> \notin Less
  <2> HIDE DEF Less
  <2> QED BY <1>1, WFMin, Zenon
<1>3. ASSUME NEW m \in S PROVE ~(m < n)
  <2>1. m < n => <<m, n>> \in Less
    BY Zenon DEF OpToRel
  <2> QED BY <2>1, <1>2
<1> QED BY <1>3

\* Induction from 0 to n.
LEMMA CountingUp ==
  ASSUME NEW S, NEW n \in Nat, 0 \in S, \A i \in 0 .. n - 1 : i \in S => i + 1 \in S
  PROVE  0 .. n \subseteq S
<1> DEFINE R == (0 .. n) \ S
<1>1. SUFFICES ASSUME R # {} PROVE FALSE
  OBVIOUS
<1>2. R \subseteq Nat
  OBVIOUS
<1>3. PICK i \in R : \A j \in R : i <= j
  <2> HIDE DEF R
  <2> QED BY <1>1, <1>2, LeastOf
<1>4. i # 0 /\ i \in 1 .. n /\ i \notin S
  OBVIOUS
<1>5. i - 1 \in 0 .. n - 1 /\ i - 1 \notin R
  BY <1>3, <1>4
<1>6. i - 1 \in S
  BY <1>5
<1>7. (i - 1) + 1 = i
  BY <1>4
<1> QED BY <1>4, <1>5, <1>6, <1>7

\* The least number of a set that is bounded below.
LEMMA MinIs ==
  ASSUME NEW S, S \subseteq Int, S # {}, NEW b \in Int, \A x \in S : b <= x
  PROVE  Min(S) \in S /\ \A x \in S : Min(S) <= x
<1> DEFINE T == {n \in Nat : b + n \in S}
<1>1. PICK x \in S : TRUE
  OBVIOUS
<1>2. x - b \in Nat /\ b + (x - b) = x
  OBVIOUS
<1>3. T # {} /\ T \subseteq Nat
  BY <1>2
<1>4. PICK n \in T : \A m \in T : n <= m
  <2> HIDE DEF T
  <2> QED BY <1>3, LeastOf
<1>5. ASSUME NEW y \in S PROVE b + n <= y
  <2>1. y - b \in Nat /\ b + (y - b) = y
    OBVIOUS
  <2>2. y - b \in T
    BY <2>1
  <2>3. n <= y - b
    BY <2>2, <1>4
  <2> QED BY <2>1, <2>3
<1>6. \E z \in S : \A y \in S : z <= y
  BY <1>5
<1> QED BY <1>6 DEF Min

\* The greatest number of a set that is bounded above.
LEMMA MaxIs ==
  ASSUME NEW S, S \subseteq Int, S # {}, NEW b \in Int, \A x \in S : x <= b
  PROVE  Max(S) \in S /\ \A x \in S : x <= Max(S)
<1> DEFINE T == {n \in Nat : b - n \in S}
<1>1. PICK x \in S : TRUE
  OBVIOUS
<1>2. b - x \in Nat /\ b - (b - x) = x
  OBVIOUS
<1>3. T # {} /\ T \subseteq Nat
  BY <1>2
<1>4. PICK n \in T : \A m \in T : n <= m
  <2> HIDE DEF T
  <2> QED BY <1>3, LeastOf
<1>5. ASSUME NEW y \in S PROVE y <= b - n
  <2>1. b - y \in Nat /\ b - (b - y) = y
    OBVIOUS
  <2>2. b - y \in T
    BY <2>1
  <2>3. n <= b - y
    BY <2>2, <1>4
  <2> QED BY <2>1, <2>3
<1>6. \E z \in S : \A y \in S : z >= y
  BY <1>5
<1> QED BY <1>6 DEF Max

\* The smaller and the greater of two numbers.
LEMMA MinPair ==
  ASSUME NEW a \in Int, NEW b \in Int
  PROVE  Min({a, b}) = IF a <= b THEN a ELSE b
<1> DEFINE low == IF a <= b THEN a ELSE b
<1>1. low \in {a, b} /\ low \in Int /\ \A x \in {a, b} : low <= x
  OBVIOUS
<1>2. {a, b} \subseteq Int /\ {a, b} # {}
  OBVIOUS
<1>3. Min({a, b}) \in {a, b} /\ \A x \in {a, b} : Min({a, b}) <= x
  <2> HIDE DEF low
  <2> QED BY <1>1, <1>2, MinIs
<1> QED BY <1>3

\* The greater of two integers, as Max of the library gives it.
LEMMA MaxPair ==
  ASSUME NEW a \in Int, NEW b \in Int
  PROVE  Max({a, b}) = IF a <= b THEN b ELSE a
<1> DEFINE high == IF a <= b THEN b ELSE a
<1>1. high \in {a, b} /\ high \in Int /\ \A x \in {a, b} : x <= high
  OBVIOUS
<1>2. {a, b} \subseteq Int /\ {a, b} # {}
  OBVIOUS
<1>3. Max({a, b}) \in {a, b} /\ \A x \in {a, b} : x <= Max({a, b})
  <2> HIDE DEF high
  <2> QED BY <1>1, <1>2, MaxIs
<1> QED BY <1>3

-----------------------------------------------------------------------------
(* Positions of a buffer.                                                  *)

\* The prover does not know that a literal is a STRING.
Characters == STRING \cup {"{", "}"}
Buffer(b) == b \in Seq(Seq(Characters))

\* Sequences of lines are buffers.
LEMMA LinesAreBuffers == ASSUME NEW b \in Seq(Seq(STRING)) PROVE Buffer(b)
<1>1. STRING \subseteq Characters
  BY DEF Characters
<1>2. ASSUME NEW S, NEW T, S \subseteq T PROVE \A s \in Seq(S) : s \in Seq(T)
  BY <1>2
<1>3. Seq(STRING) \subseteq Seq(Characters)
  BY <1>1, <1>2, Zenon
<1> QED BY <1>2, <1>3, Zenon DEF Buffer
Places == [line : Nat, col : Nat]

\* A line is a sequence of characters, also one that is not there.
LEMMA TextTyping ==
  ASSUME NEW b, Buffer(b), NEW l
  PROVE  /\ Text(b, l) \in Seq(Characters) /\ Width(b, l) \in Nat
         /\ LastLine(b) \in Int /\ LastLine(b) >= -1
<1>1. l \in 0 .. Len(b) - 1 => b[l + 1] \in Seq(Characters)
  BY DEF Buffer
<1>2. <<>> \in Seq(Characters)
  OBVIOUS
<1>3. Text(b, l) \in Seq(Characters)
  BY <1>1, <1>2, Zenon DEF Text
<1> QED BY <1>3 DEF Width, LastLine, Buffer

\* The characters of a buffer are the places inside its lines.
LEMMA CharsAre ==
  ASSUME NEW b, Buffer(b), NEW p
  PROVE  p \in Chars(b) <=> /\ p \in Places
                            /\ p.line <= LastLine(b) /\ p.col < Width(b, p.line)
<1>1. \A l : Width(b, l) \in Nat /\ LastLine(b) \in Int
  BY TextTyping
<1>2. ASSUME p \in Chars(b)
      PROVE  p \in Places /\ p.line <= LastLine(b) /\ p.col < Width(b, p.line)
  <2>1. PICK l \in 0 .. LastLine(b) : p \in {Pos(l, c) : c \in 0 .. Width(b, l) - 1}
    BY <1>2, Zenon DEF Chars
  <2>2. PICK c \in 0 .. Width(b, l) - 1 : p = Pos(l, c)
    BY <2>1
  <2>3. p.line = l /\ p.col = c
    BY <2>2 DEF Pos
  <2>4. p \in Places
    BY <2>2, <1>1 DEF Pos, Places
  <2> QED BY <2>3, <2>4, <1>1
<1>3. ASSUME p \in Places, p.line <= LastLine(b), p.col < Width(b, p.line)
      PROVE  p \in Chars(b)
  <2>1. p.line \in 0 .. LastLine(b) /\ p.col \in 0 .. Width(b, p.line) - 1
    BY <1>3, <1>1 DEF Places
  <2>2. p = Pos(p.line, p.col)
    BY <1>3 DEF Pos, Places
  <2>3. p \in {Pos(p.line, c) : c \in 0 .. Width(b, p.line) - 1}
    BY <2>1, <2>2
  <2> QED BY <2>1, <2>3 DEF Chars
<1> QED BY <1>2, <1>3

\* A cursor may also stand behind the last character of its line.
LEMMA CursorsAre ==
  ASSUME NEW b, Buffer(b), NEW p
  PROVE  p \in Cursors(b) <=> /\ p \in Places
                              /\ p.line <= LastLine(b) /\ p.col <= Width(b, p.line)
<1>1. \A l : Width(b, l) \in Nat /\ LastLine(b) \in Int
  BY TextTyping
<1>2. ASSUME p \in Cursors(b)
      PROVE  p \in Places /\ p.line <= LastLine(b) /\ p.col <= Width(b, p.line)
  <2>1. PICK l \in 0 .. LastLine(b) : p \in {Pos(l, c) : c \in 0 .. Width(b, l)}
    BY <1>2, Zenon DEF Cursors
  <2>2. PICK c \in 0 .. Width(b, l) : p = Pos(l, c)
    BY <2>1
  <2>3. p.line = l /\ p.col = c
    BY <2>2 DEF Pos
  <2>4. p \in Places
    BY <2>2, <1>1 DEF Pos, Places
  <2> QED BY <2>3, <2>4, <1>1
<1>3. ASSUME p \in Places, p.line <= LastLine(b), p.col <= Width(b, p.line)
      PROVE  p \in Cursors(b)
  <2>1. p.line \in 0 .. LastLine(b) /\ p.col \in 0 .. Width(b, p.line)
    BY <1>3, <1>1 DEF Places
  <2>2. p = Pos(p.line, p.col)
    BY <1>3 DEF Pos, Places
  <2>3. p \in {Pos(p.line, c) : c \in 0 .. Width(b, p.line)}
    BY <2>1, <2>2
  <2> QED BY <2>1, <2>3 DEF Cursors
<1> QED BY <1>2, <1>3

\* A set of places that is not empty has a first one.
LEMMA LeastIs ==
  ASSUME NEW S, S \subseteq Places, S # {}
  PROVE  Least(S) \in S /\ \A q \in S : ~Before(q, Least(S))
<1> DEFINE L == {p.line : p \in S}
<1>1. L \subseteq Nat /\ L # {}
  BY DEF Places
<1>2. PICK l \in L : \A m \in L : l <= m
  <2> HIDE DEF L
  <2> QED BY <1>1, LeastOf
<1> DEFINE C == {p.col : p \in {q \in S : q.line = l}}
<1>3. C \subseteq Nat /\ C # {}
  BY DEF Places
<1>4. PICK c \in C : \A d \in C : c <= d
  <2> HIDE DEF C
  <2> QED BY <1>3, LeastOf
<1>5. PICK p \in S : p.line = l /\ p.col = c
  BY <1>4
<1>6. ASSUME NEW q \in S PROVE ~Before(q, p)
  <2>1. q.line \in L /\ (q.line = l => q.col \in C)
    OBVIOUS
  <2>2. l <= q.line /\ (q.line = l => c <= q.col)
    BY <2>1, <1>2, <1>4
  <2>3. q.line \in Nat /\ q.col \in Nat /\ p.line \in Nat /\ p.col \in Nat
    BY DEF Places
  <2> QED BY <2>2, <2>3, <1>5 DEF Before
<1>7. \E z \in S : \A q \in S : ~Before(q, z)
  BY <1>6
<1> QED BY <1>7, Zenon DEF Least

\* A set of characters of a buffer that is not empty has a last one.
LEMMA GreatestIs ==
  ASSUME NEW b, Buffer(b), NEW S, S \subseteq Chars(b), S # {}
  PROVE  Greatest(S) \in S /\ \A q \in S : ~Before(Greatest(S), q)
<1> DEFINE L == {p.line : p \in S}
<1>0. \A p \in S : p \in Places /\ p.line <= LastLine(b) /\ p.col < Width(b, p.line)
  BY CharsAre
<1>1. L \subseteq Int /\ L # {} /\ LastLine(b) \in Int /\ \A m \in L : m <= LastLine(b)
  BY <1>0, TextTyping DEF Places
<1>2. PICK l \in L : \A m \in L : m <= l
  <2> HIDE DEF L
  <2> QED BY <1>1, MaxIs
<1> DEFINE C == {p.col : p \in {q \in S : q.line = l}}
<1>3. C \subseteq Int /\ C # {} /\ Width(b, l) \in Int /\ \A d \in C : d <= Width(b, l)
  BY <1>0, TextTyping DEF Places
<1>4. PICK c \in C : \A d \in C : d <= c
  <2> HIDE DEF C
  <2> QED BY <1>3, MaxIs
<1>5. PICK p \in S : p.line = l /\ p.col = c
  BY <1>4
<1>6. ASSUME NEW q \in S PROVE ~Before(p, q)
  <2>1. q.line \in L /\ (q.line = l => q.col \in C)
    OBVIOUS
  <2>2. q.line <= l /\ (q.line = l => q.col <= c)
    BY <2>1, <1>2, <1>4
  <2>3. q.line \in Nat /\ q.col \in Nat /\ p.line \in Nat /\ p.col \in Nat
    BY <1>0 DEF Places
  <2> QED BY <2>2, <2>3, <1>5 DEF Before
<1>7. \E z \in S : \A q \in S : ~Before(z, q)
  BY <1>6
<1> QED BY <1>7, Zenon DEF Greatest
-----------------------------------------------------------------------------
(* Recursion over numbers: the loops of the code.                          *)

IsLoop(S, F, a, n, g) == /\ g \in [0 .. n -> S]
                         /\ g[0] = a
                         /\ \A i \in 0 .. n - 1 : g[i + 1] = F[<<g[i], i + 1>>]

\* A loop that stays in a set has, after every step, a value of that set.
LEMMA LoopExists ==
  ASSUME NEW S, NEW F \in [S \X Nat -> S], NEW a \in S, NEW n \in Nat
  PROVE  \E g : IsLoop(S, F, a, n, g)
<1> DEFINE N == {m \in Nat : \E g : IsLoop(S, F, a, m, g)}
<1>1. 0 \in N
  <2> DEFINE g == [i \in 0 .. 0 |-> a]
  <2>1. IsLoop(S, F, a, 0, g)
    BY DEF IsLoop
  <2> QED BY <2>1
<1>2. ASSUME NEW m \in Nat, m \in N PROVE m + 1 \in N
  <2>1. PICK g : IsLoop(S, F, a, m, g)
    BY <1>2
  <2>2. /\ g \in [0 .. m -> S] /\ g[0] = a
        /\ \A i \in 0 .. m - 1 : g[i + 1] = F[<<g[i], i + 1>>]
    BY <2>1 DEF IsLoop
  <2> DEFINE e == F[<<g[m], m + 1>>]
  <2>3. g[m] \in S /\ m + 1 \in Nat
    BY <2>2
  <2>4. e \in S
    BY <2>3
  <2> HIDE DEF e
  <2> DEFINE h == [i \in 0 .. m + 1 |-> IF i = m + 1 THEN e ELSE g[i]]
  <2>5. h \in [0 .. m + 1 -> S]
    BY <2>2, <2>4
  <2>6. h[0] = a
    BY <2>2
  <2>7. \A i \in 0 .. m : h[i] = g[i]
    OBVIOUS
  <2>8. h[m + 1] = e
    OBVIOUS
  <2> HIDE DEF h
  <2>9. ASSUME NEW i \in 0 .. m PROVE h[i + 1] = F[<<h[i], i + 1>>]
    <3>1. CASE i = m
      BY <3>1, <2>7, <2>8 DEF e
    <3>2. CASE i \in 0 .. m - 1
      <4>1. i + 1 \in 0 .. m
        BY <3>2
      <4>2. h[i + 1] = g[i + 1] /\ h[i] = g[i]
        BY <4>1, <2>7
      <4> QED BY <4>2, <3>2, <2>2
    <3> QED BY <3>1, <3>2
  <2>10. (m + 1) - 1 = m
    OBVIOUS
  <2>11. IsLoop(S, F, a, m + 1, h)
    BY <2>5, <2>6, <2>9, <2>10 DEF IsLoop
  <2> QED BY <2>11
<1>3. 0 .. n \subseteq N
  <2> HIDE DEF N
  <2>1. \A i \in 0 .. n - 1 : i \in N => i + 1 \in N
    BY <1>2
  <2> QED BY <1>1, <2>1, CountingUp
<1> QED BY <1>3

-----------------------------------------------------------------------------
(* Lists laid end to end (FlattenSeq).                                     *)

FlatLoop(s) == CHOOSE f : f = [i \in 1 .. Len(s) |-> IF i = 1 THEN s[i] ELSE f[i - 1] \o s[i]]

\* What the first n lists make.
LEMMA FlatIs ==
  ASSUME NEW T, NEW s \in Seq(Seq(T)), s # <<>>
  PROVE  /\ FlattenSeq(s) = FlatLoop(s)[Len(s)]
         /\ FlatLoop(s)[1] = s[1]
         /\ \A i \in 1 .. Len(s) - 1 : FlatLoop(s)[i + 1] = FlatLoop(s)[i] \o s[i + 1]
<1> DEFINE n == Len(s) - 1
           S == Seq(T)
           F == [q \in S \X Nat |-> IF q[2] + 1 \in 1 .. Len(s) THEN q[1] \o s[q[2] + 1] ELSE q[1]]
<1>1. n \in Nat /\ n + 1 = Len(s) /\ Len(s) # 0
  OBVIOUS
<1>2. F \in [S \X Nat -> S]
  <2>1. ASSUME NEW q \in S \X Nat PROVE F[q] \in S
    <3>1. q[1] \in Seq(T) /\ q[2] \in Nat
      OBVIOUS
    <3>2. q[2] + 1 \in 1 .. Len(s) => s[q[2] + 1] \in Seq(T)
      OBVIOUS
    <3> QED BY <3>1, <3>2
  <2> QED BY <2>1
<1>3. s[1] \in S
  OBVIOUS
<1>4. PICK g : IsLoop(S, F, s[1], n, g)
  <2> HIDE DEF n, S, F
  <2> QED BY <1>1, <1>2, <1>3, LoopExists
<1>5. /\ \A i \in 0 .. n : g[i] \in Seq(T)
      /\ g[0] = s[1]
      /\ \A i \in 0 .. n - 1 : g[i + 1] = F[<<g[i], i + 1>>]
  BY <1>4 DEF IsLoop
<1> DEFINE f == [i \in 1 .. Len(s) |-> g[i - 1]]
<1>6. ASSUME NEW i \in 1 .. Len(s)
      PROVE  f[i] = IF i = 1 THEN s[i] ELSE f[i - 1] \o s[i]
  <2>1. CASE i = 1
    BY <2>1, <1>5
  <2>2. CASE i # 1
    <3>1. PICK k \in 0 .. n - 1 : k = i - 2
      BY <2>2
    <3>2. k + 1 \in Nat /\ (k + 1) + 1 = i /\ i - 1 = k + 1 /\ (i - 1) - 1 = k /\ i - 1 \in 1 .. Len(s)
      BY <3>1, <2>2
    <3>3. g[k] \in Seq(T)
      <4>1. k \in 0 .. n
        OBVIOUS
      <4> QED BY <4>1, <1>5
    <3>4. F[<<g[k], k + 1>>] = g[k] \o s[i]
      BY <3>2, <3>3
    <3>5. f[i] = g[k + 1] /\ f[i - 1] = g[k]
      BY <3>2
    <3> QED BY <3>4, <3>5, <1>5, <2>2
  <2> QED BY <2>1, <2>2
<1>7. f = [i \in 1 .. Len(s) |-> IF i = 1 THEN s[i] ELSE f[i - 1] \o s[i]]
  BY <1>6
<1> HIDE DEF f
<1>8. FlatLoop(s) = [i \in 1 .. Len(s) |-> IF i = 1 THEN s[i] ELSE FlatLoop(s)[i - 1] \o s[i]]
  BY <1>7, Zenon DEF FlatLoop
<1>9. \A i \in 1 .. Len(s) - 1 : FlatLoop(s)[i + 1] = FlatLoop(s)[i] \o s[i + 1]
  <2> TAKE i \in 1 .. Len(s) - 1
  <2>1. i + 1 \in 1 .. Len(s) /\ i + 1 # 1 /\ (i + 1) - 1 = i
    OBVIOUS
  <2> QED BY <2>1, <1>8
<1>10. FlattenSeq(s) = FlatLoop(s)[Len(s)]
  BY <1>1 DEF FlattenSeq, FlatLoop
<1>11. FlatLoop(s)[1] = s[1]
  BY <1>1, <1>8
<1> QED BY <1>9, <1>10, <1>11

\* Element k of the whole is element j of list i, and what stands before it is
\* what stands before it there, or in an earlier list.
FromList(s, f, k, i, j) ==
  /\ f[k] = s[i][j]
  /\ j > 1 => k > 1 /\ f[k - 1] = s[i][j - 1]
  /\ j = 1 /\ k > 1 => \E m \in 1 .. i - 1 : \E x \in DOMAIN s[m] : f[k - 1] = s[m][x]

\* The whole holds each element of the first n lists, in their order.
Laid(s, n, f) ==
  /\ \A i \in 1 .. n : \A j \in DOMAIN s[i] : \E k \in DOMAIN f : f[k] = s[i][j]
  /\ \A k \in DOMAIN f : \E i \in 1 .. n : \E j \in DOMAIN s[i] : FromList(s, f, k, i, j)

\* One more list laid behind the others.
LEMMA LaidStep ==
  ASSUME NEW T, NEW s \in Seq(Seq(T)), NEW n \in 1 .. Len(s) - 1, NEW g \in Seq(T),
         Laid(s, n, g)
  PROVE  g \o s[n + 1] \in Seq(T) /\ Laid(s, n + 1, g \o s[n + 1])
<1> DEFINE t == s[n + 1]
           h == g \o t
<1>1. n + 1 \in 1 .. Len(s) /\ t \in Seq(T)
  OBVIOUS
<1> HIDE DEF t
<1>2. /\ h \in Seq(T) /\ DOMAIN h = 1 .. Len(g) + Len(t)
      /\ \A k \in DOMAIN g : h[k] = g[k]
      /\ \A j \in DOMAIN t : Len(g) + j \in DOMAIN h /\ h[Len(g) + j] = t[j]
  BY <1>1
<1>3. DOMAIN g = 1 .. Len(g) /\ Len(g) \in Nat /\ DOMAIN t = 1 .. Len(t) /\ Len(t) \in Nat
  BY <1>1
<1> HIDE DEF h
<1>4. ASSUME NEW i \in 1 .. n + 1, NEW j \in DOMAIN s[i]
      PROVE  \E k \in DOMAIN h : h[k] = s[i][j]
  <2>1. CASE i = n + 1
    <3>1. j \in DOMAIN t /\ s[i][j] = t[j]
      BY <2>1 DEF t
    <3> QED BY <3>1, <1>2
  <2>2. CASE i \in 1 .. n
    <3>1. PICK k \in DOMAIN g : g[k] = s[i][j]
      BY <2>2 DEF Laid
    <3>2. k \in DOMAIN h /\ h[k] = s[i][j]
      BY <3>1, <1>2, <1>3
    <3> QED BY <3>2
  <2> QED BY <2>1, <2>2
<1>5. ASSUME NEW k \in DOMAIN h
      PROVE  \E i \in 1 .. n + 1 : \E j \in DOMAIN s[i] : FromList(s, h, k, i, j)
  <2>1. CASE k \in DOMAIN g
    <3>1. PICK i \in 1 .. n : \E j \in DOMAIN s[i] : FromList(s, g, k, i, j)
      BY <2>1 DEF Laid
    <3>2. PICK j \in DOMAIN s[i] : FromList(s, g, k, i, j)
      BY <3>1
    <3>3. h[k] = g[k] /\ (k > 1 => h[k - 1] = g[k - 1])
      <4>1. k > 1 => k - 1 \in DOMAIN g
        BY <2>1, <1>3
      <4> QED BY <4>1, <2>1, <1>2
    <3>4. FromList(s, h, k, i, j)
      BY <3>2, <3>3 DEF FromList
    <3> QED BY <3>4
  <2>2. CASE k \notin DOMAIN g
    <3>1. PICK j \in DOMAIN t : Len(g) + j = k
      <4>1. k - Len(g) \in DOMAIN t /\ Len(g) + (k - Len(g)) = k
        BY <2>2, <1>2, <1>3
      <4> QED BY <4>1
    <3>2. h[k] = t[j]
      BY <3>1, <1>2
    <3>3. j > 1 => k > 1 /\ h[k - 1] = t[j - 1]
      <4>1. HAVE j > 1
      <4>2. j - 1 \in DOMAIN t
        BY <4>1, <1>3
      <4>3. Len(g) + (j - 1) = k - 1 /\ k > 1
        BY <4>1, <3>1, <1>3
      <4> QED BY <4>2, <4>3, <1>2
    <3>4. j = 1 /\ k > 1 => \E m \in 1 .. n : \E x \in DOMAIN s[m] : h[k - 1] = s[m][x]
      <4>1. HAVE j = 1 /\ k > 1
      <4>2. k - 1 \in DOMAIN g
        BY <4>1, <3>1, <1>3
      <4>3. PICK m \in 1 .. n : \E x \in DOMAIN s[m] : FromList(s, g, k - 1, m, x)
        BY <4>2 DEF Laid
      <4>4. PICK x \in DOMAIN s[m] : FromList(s, g, k - 1, m, x)
        BY <4>3
      <4>5. h[k - 1] = s[m][x]
        BY <4>2, <4>4, <1>2 DEF FromList
      <4> QED BY <4>5
    <3>5. (n + 1) - 1 = n /\ n + 1 \in 1 .. n + 1
      OBVIOUS
    <3>6. FromList(s, h, k, n + 1, j)
      BY <3>2, <3>3, <3>4, <3>5 DEF FromList, t
    <3>7. j \in DOMAIN s[n + 1]
      BY DEF t
    <3> QED BY <3>5, <3>6, <3>7
  <2> QED BY <2>1, <2>2
<1>6. h \in Seq(T) /\ Laid(s, n + 1, h)
  BY <1>2, <1>4, <1>5 DEF Laid
<1> QED BY <1>6 DEF h, t

\* Lists laid end to end keep their elements and their order.
LEMMA FlatLaid ==
  ASSUME NEW T, NEW s \in Seq(Seq(T))
  PROVE  FlattenSeq(s) \in Seq(T) /\ Laid(s, Len(s), FlattenSeq(s))
<1>1. CASE s = <<>>
  <2>1. FlattenSeq(s) = <<>> /\ Len(s) = 0
    BY <1>1 DEF FlattenSeq
  <2>2. <<>> \in Seq(T) /\ DOMAIN <<>> = {} /\ 1 .. 0 = {}
    OBVIOUS
  <2> QED BY <2>1, <2>2 DEF Laid
<1>2. CASE s # <<>>
  <2> DEFINE L == Len(s) - 1
             g(n) == FlatLoop(s)[n]
             N == {n \in Nat : g(n + 1) \in Seq(T) /\ Laid(s, n + 1, g(n + 1))}
  <2>1. L \in Nat /\ L + 1 = Len(s) /\ s[1] \in Seq(T)
    BY <1>2
  <2>2. /\ FlattenSeq(s) = g(L + 1) /\ g(1) = s[1]
        /\ \A i \in 1 .. L : g(i + 1) = g(i) \o s[i + 1]
    BY <1>2, <2>1, FlatIs
  <2>3. Laid(s, 1, s[1])
    <3>1. ASSUME NEW k \in DOMAIN s[1] PROVE FromList(s, s[1], k, 1, k)
      BY <2>1 DEF FromList
    <3>2. \A i \in 1 .. 1 : i = 1
      OBVIOUS
    <3>3. 1 \in 1 .. 1
      OBVIOUS
    <3> QED BY <3>1, <3>2, <3>3 DEF Laid
  <2>4. 0 \in N
    <3>1. 0 + 1 = 1 /\ 0 \in Nat
      OBVIOUS
    <3> QED BY <2>1, <2>2, <2>3, <3>1
  <2>5. ASSUME NEW n \in 0 .. L - 1, n \in N PROVE n + 1 \in N
    <3>1. n + 1 \in 1 .. L /\ n + 1 \in Nat /\ n + 1 \in 1 .. Len(s) - 1
      BY <2>1
    <3>2. g((n + 1) + 1) = g(n + 1) \o s[(n + 1) + 1]
      BY <3>1, <2>2
    <3>3. g(n + 1) \in Seq(T) /\ Laid(s, n + 1, g(n + 1))
      BY <2>5
    <3> HIDE DEF g
    <3>4. g((n + 1) + 1) \in Seq(T) /\ Laid(s, (n + 1) + 1, g((n + 1) + 1))
      BY <3>1, <3>2, <3>3, LaidStep
    <3> QED BY <3>1, <3>4
  <2>6. L \in N
    <3> HIDE DEF N, L, g
    <3>1. 0 .. L \subseteq N
      BY <2>1, <2>4, <2>5, CountingUp
    <3>2. L \in 0 .. L
      BY <2>1
    <3> QED BY <3>1, <3>2
  <2> QED BY <2>1, <2>2, <2>6
<1> QED BY <1>1, <1>2

-----------------------------------------------------------------------------
(* The lines shown, and those that match.                                  *)

\* Pretty-printing shows lines.
LEMMA DisplayTyping ==
  ASSUME NEW lines, Buffer(lines), NEW on \in BOOLEAN
  PROVE  Buffer(Display(lines, on))
<1>1. CASE on
  <2> DEFINE s == [i \in DOMAIN lines |-> Pretty(lines[i])]
  <2>1. ASSUME NEW line \in Seq(Characters) PROVE Pretty(line) \in Seq(Seq(Characters))
    <3>1. <<line>> \in Seq(Seq(Characters))
      OBVIOUS
    <3>2. Len(line) > 2 => SubSeq(line, 2, Len(line) - 1) \in Seq(Characters)
      OBVIOUS
    <3>3. <<"{">> \in Seq(Characters) /\ <<"}">> \in Seq(Characters)
      <4>1. \A T : \A x \in T : <<x>> \in Seq(T)
        OBVIOUS
      <4>2. "{" \in Characters /\ "}" \in Characters
        BY DEF Characters
      <4> QED BY <4>1, <4>2, Zenon
    <3>4. Len(line) > 2 => <<<<"{">>, SubSeq(line, 2, Len(line) - 1), <<"}">>>> \in Seq(Seq(Characters))
      <4>1. \A T : \A x, y, z \in T : <<x, y, z>> \in Seq(T)
        OBVIOUS
      <4> QED BY <3>2, <3>3, <4>1
    <3> QED BY <3>1, <3>4 DEF Pretty
  <2>2. \A i \in 1 .. Len(lines) : lines[i] \in Seq(Characters)
    BY DEF Buffer
  <2>3. s \in Seq(Seq(Seq(Characters)))
    <3>1. s = [i \in 1 .. Len(lines) |-> Pretty(lines[i])] /\ Len(lines) \in Nat
      BY DEF Buffer
    <3>2. \A i \in 1 .. Len(lines) : Pretty(lines[i]) \in Seq(Seq(Characters))
      BY <2>1, <2>2
    <3> QED BY <3>1, <3>2
  <2>4. FlattenSeq(s) \in Seq(Seq(Characters))
    <3> HIDE DEF s
    <3> QED BY <2>3, FlatLaid
  <2> QED BY <1>1, <2>4 DEF Display, Buffer
<1>2. CASE ~on
  BY <1>2 DEF Display
<1> QED BY <1>1, <1>2

Matching(lines, ch, n) == ch # NoFilter /\ Contains(lines[n], ch)
MatchLoop(lines, ch) ==
  CHOOSE found : found = [n \in 0 .. Len(lines) |->
    IF n = 0 THEN <<>>
    ELSE IF ch # NoFilter /\ Contains(lines[n], ch) THEN Append(found[n - 1], n - 1)
    ELSE found[n - 1]]

\* What the loop of renderContent has found after n lines.
LEMMA MatchLoopIs ==
  ASSUME NEW lines, Buffer(lines), NEW ch
  PROVE  /\ Matches(lines, ch) = MatchLoop(lines, ch)[Len(lines)]
         /\ MatchLoop(lines, ch)[0] = <<>>
         /\ \A n \in 0 .. Len(lines) - 1 :
              MatchLoop(lines, ch)[n + 1] = IF Matching(lines, ch, n + 1)
                                            THEN Append(MatchLoop(lines, ch)[n], n)
                                            ELSE MatchLoop(lines, ch)[n]
<1> DEFINE L == Len(lines)
           S == Seq(Int)
           F == [q \in S \X Nat |-> IF Matching(lines, ch, q[2]) THEN Append(q[1], q[2] - 1) ELSE q[1]]
<1>1. L \in Nat
  BY DEF Buffer
<1>2. F \in [S \X Nat -> S]
  <2>1. ASSUME NEW q \in S \X Nat PROVE F[q] \in S
    <3>1. q[1] \in Seq(Int) /\ q[2] - 1 \in Int
      OBVIOUS
    <3>2. Append(q[1], q[2] - 1) \in Seq(Int)
      BY <3>1
    <3> QED BY <3>1, <3>2
  <2> QED BY <2>1
<1>3. <<>> \in S
  OBVIOUS
<1>4. PICK g : IsLoop(S, F, <<>>, L, g)
  <2> HIDE DEF L, S, F
  <2> QED BY <1>1, <1>2, <1>3, LoopExists
<1>5. /\ \A i \in 0 .. L : g[i] \in Seq(Int)
      /\ g \in [0 .. L -> Seq(Int)] /\ g[0] = <<>>
      /\ \A i \in 0 .. L - 1 : g[i + 1] = F[<<g[i], i + 1>>]
  BY <1>4 DEF IsLoop
<1>6. ASSUME NEW n \in 0 .. L
      PROVE  g[n] = IF n = 0 THEN <<>>
                    ELSE IF Matching(lines, ch, n) THEN Append(g[n - 1], n - 1)
                    ELSE g[n - 1]
  <2>1. CASE n = 0
    BY <2>1, <1>5
  <2>2. CASE n # 0
    <3>1. n - 1 \in 0 .. L - 1 /\ n - 1 \in 0 .. L /\ (n - 1) + 1 = n
      BY <2>2, <1>1
    <3>2. g[n - 1] \in Seq(Int) /\ n \in Nat
      BY <3>1, <1>5
    <3>3. g[n] = F[<<g[n - 1], n>>]
      BY <3>1, <1>5
    <3> QED BY <3>2, <3>3, <2>2
  <2> QED BY <2>1, <2>2
<1>7. g = [n \in 0 .. L |-> IF n = 0 THEN <<>>
                            ELSE IF Matching(lines, ch, n) THEN Append(g[n - 1], n - 1)
                            ELSE g[n - 1]]
  BY <1>5, <1>6
<1>8. MatchLoop(lines, ch)
        = [n \in 0 .. L |-> IF n = 0 THEN <<>>
                            ELSE IF Matching(lines, ch, n) THEN Append(MatchLoop(lines, ch)[n - 1], n - 1)
                            ELSE MatchLoop(lines, ch)[n - 1]]
  BY <1>7, Zenon DEF MatchLoop, Matching
<1>9. \A n \in 0 .. L - 1 :
        MatchLoop(lines, ch)[n + 1] = IF Matching(lines, ch, n + 1)
                                      THEN Append(MatchLoop(lines, ch)[n], n)
                                      ELSE MatchLoop(lines, ch)[n]
  <2> TAKE n \in 0 .. L - 1
  <2>1. n + 1 \in 0 .. L /\ n + 1 # 0 /\ (n + 1) - 1 = n
    BY <1>1
  <2> QED BY <2>1, <1>8
<1>10. MatchLoop(lines, ch)[0] = <<>>
  <2>1. 0 \in 0 .. L
    BY <1>1
  <2> QED BY <2>1, <1>8
<1>11. Matches(lines, ch) = MatchLoop(lines, ch)[Len(lines)]
  BY DEF Matches, MatchLoop
<1> QED BY <1>9, <1>10, <1>11

\* The matches among the first n lines.
FoundIn(lines, ch, n, m) ==
  /\ m \in Seq(Nat)
  /\ \A l \in Nat : (\E i \in DOMAIN m : m[i] = l) <=> (l < n /\ Matching(lines, ch, l + 1))

\* renderContent finds the lines that match, and no others.
LEMMA MatchesAre ==
  ASSUME NEW lines, Buffer(lines), NEW ch
  PROVE  FoundIn(lines, ch, Len(lines), Matches(lines, ch))
<1> DEFINE L == Len(lines)
           g(n) == MatchLoop(lines, ch)[n]
           N == {n \in Nat : FoundIn(lines, ch, n, g(n))}
<1>1. L \in Nat
  BY DEF Buffer
<1>2. 0 \in N
  <2>1. g(0) = <<>>
    BY MatchLoopIs
  <2>2. FoundIn(lines, ch, 0, <<>>)
    BY DEF FoundIn
  <2> QED BY <2>1, <2>2
<1>3. ASSUME NEW n \in 0 .. L - 1, n \in N PROVE n + 1 \in N
  <2>1. g(n + 1) = IF Matching(lines, ch, n + 1) THEN Append(g(n), n) ELSE g(n)
    BY MatchLoopIs
  <2>2. FoundIn(lines, ch, n, g(n)) /\ n \in Nat /\ n + 1 \in Nat
    BY <1>3, <1>1
  <2> HIDE DEF g
  <2>3. g(n) \in Seq(Nat) /\ DOMAIN g(n) = 1 .. Len(g(n)) /\ Len(g(n)) \in Nat
    BY <2>2 DEF FoundIn
  <2>4. CASE Matching(lines, ch, n + 1)
    <3> DEFINE h == Append(g(n), n)
    <3>1. /\ h \in Seq(Nat) /\ DOMAIN h = 1 .. Len(g(n)) + 1
          /\ h[Len(g(n)) + 1] = n
          /\ \A i \in DOMAIN g(n) : h[i] = g(n)[i]
      BY <2>2, <2>3
    <3> HIDE DEF h
    <3>2. ASSUME NEW l \in Nat
          PROVE  (\E i \in DOMAIN h : h[i] = l) <=> (l < n + 1 /\ Matching(lines, ch, l + 1))
      <4>1. (\E i \in DOMAIN g(n) : g(n)[i] = l) <=> (l < n /\ Matching(lines, ch, l + 1))
        BY <2>2 DEF FoundIn
      <4>2. ASSUME NEW i \in DOMAIN h, h[i] = l
            PROVE  (\E j \in DOMAIN g(n) : g(n)[j] = l) \/ l = n
        <5>1. i \in DOMAIN g(n) \/ i = Len(g(n)) + 1
          BY <3>1, <2>3
        <5> QED BY <5>1, <4>2, <3>1
      <4>3. ASSUME NEW i \in DOMAIN g(n), g(n)[i] = l
            PROVE  \E j \in DOMAIN h : h[j] = l
        <5>1. i \in DOMAIN h /\ h[i] = l
          BY <4>3, <3>1, <2>3
        <5> QED BY <5>1
      <4>4. l = n => \E j \in DOMAIN h : h[j] = l
        <5>1. Len(g(n)) + 1 \in DOMAIN h
          BY <3>1, <2>3
        <5> QED BY <5>1, <3>1
      <4> QED BY <4>1, <4>2, <4>3, <4>4, <2>2, <2>4
    <3>3. g(n + 1) = h
      BY <2>1, <2>4 DEF h
    <3> QED BY <3>1, <3>2, <3>3, <2>2 DEF FoundIn
  <2>5. CASE ~Matching(lines, ch, n + 1)
    <3>1. g(n + 1) = g(n)
      BY <2>1, <2>5
    <3>2. ASSUME NEW l \in Nat
          PROVE  (l < n /\ Matching(lines, ch, l + 1)) <=> (l < n + 1 /\ Matching(lines, ch, l + 1))
      BY <2>5, <2>2
    <3>3. FoundIn(lines, ch, n + 1, g(n))
      BY <2>2, <3>2 DEF FoundIn
    <3> QED BY <3>1, <3>3, <2>2
  <2> QED BY <2>4, <2>5
<1>4. L \in N
  <2> HIDE DEF N, L
  <2>1. 0 .. L \subseteq N
    BY <1>1, <1>2, <1>3, CountingUp
  <2>2. L \in 0 .. L
    BY <1>1
  <2> QED BY <2>1, <2>2
<1>5. Matches(lines, ch) = g(L)
  BY MatchLoopIs
<1> QED BY <1>4, <1>5

-----------------------------------------------------------------------------
(* Hard wrapping.                                                          *)

\* A multiple grows by at least one width.
LEMMA MultipleGrows ==
  ASSUME NEW a \in Int, NEW b \in Int, NEW w \in Nat, a < b
  PROVE  a * w + w <= b * w
<1>1. PICK d \in Nat : b = a + 1 + d
  <2>1. b - a - 1 \in Nat /\ b = a + 1 + (b - a - 1)
    OBVIOUS
  <2> QED BY <2>1
<1>2. d * w >= 0
  OBVIOUS
<1>3. (a + 1 + d) * w = a * w + w + d * w
  OBVIOUS
<1> QED BY <1>1, <1>2, <1>3

\* The number of rows that n columns take.
LEMMA RowCount ==
  ASSUME NEW n \in Nat, NEW w \in Nat \ {0}, n > w
  PROVE  \E c \in Nat : /\ c = (n + w - 1) \div w
                        /\ c > 1 /\ (c - 1) * w < n /\ n <= c * w
<1> DEFINE m == n + w - 1
           c == m \div w
<1>1. m \in Nat /\ c \in Int /\ m = c * w + (m % w) /\ m % w \in 0 .. w - 1
  OBVIOUS
<1> HIDE DEF c
<1>2. n <= c * w /\ c * w - w < n
  BY <1>1
<1>3. (c - 1) * w = c * w - w
  BY <1>1
<1>4. c > 1
  <2>1. CASE c < 1
    <3>1. c * w + w <= 1 * w
      BY <1>1, <2>1, MultipleGrows
    <3>2. 1 * w = w /\ c * w \in Int
      BY <1>1
    <3> QED BY <3>1, <3>2, <1>2
  <2>2. CASE c = 1
    BY <2>2, <1>2
  <2> QED BY <2>1, <2>2, <1>1
<1> QED BY <1>1, <1>2, <1>3, <1>4 DEF c

\* The rows of a line of n columns: each begins a width after the one before it,
\* ends where the next begins, and the last one ends with the line.
LEMMA WrapIs ==
  ASSUME NEW n \in Nat, NEW w \in Nat \ {0}
  PROVE  LET r == WrapLine(n, w) IN
         /\ r \in Seq([from : Int, to : Int]) /\ Len(r) >= 1
         /\ r[1].from = 0 /\ r[Len(r)].to = n
         /\ \A k \in DOMAIN r : r[k].from = (k - 1) * w /\ r[k].to - r[k].from <= w
         /\ \A k \in 1 .. Len(r) - 1 : r[k].to = r[k + 1].from /\ r[k].from < r[k].to
         /\ n <= w => Len(r) = 1
         /\ n > w => (Len(r) - 1) * w < n /\ n <= Len(r) * w
<1>1. CASE n <= w
  <2>1. WrapLine(n, w) = <<[from |-> 0, to |-> n]>>
    BY <1>1 DEF WrapLine
  <2>2. (1 - 1) * w = 0
    OBVIOUS
  <2> QED BY <1>1, <2>1, <2>2
<1>2. CASE n > w
  <2>1. PICK c \in Nat : /\ c = (n + w - 1) \div w
                         /\ c > 1 /\ (c - 1) * w < n /\ n <= c * w
    BY <1>2, RowCount
  <2> DEFINE e(k) == k * w
             end(k) == IF n <= e(k) THEN n ELSE e(k)
             row(k) == [from |-> e(k - 1), to |-> Min({n, e(k)})]
             r == [k \in 1 .. c |-> row(k)]
  <2>2. WrapLine(n, w) = r
    BY <1>2, <2>1 DEF WrapLine
  <2>3. \A k \in Int : e(k) \in Int /\ k - 1 \in Int /\ e(k) - e(k - 1) = w
    OBVIOUS
  <2>4. \A k \in 1 .. c - 1 : e(k) < n
    <3>1. \A k \in 1 .. c - 1 : k < c - 1 => e(k) + w <= e(c - 1)
      BY <2>1, MultipleGrows
    <3> QED BY <3>1, <2>1, <2>3
  <2>5. e(0) = 0 /\ n <= e(c) /\ e(c - 1) < n
    BY <2>1
  <2> HIDE DEF e
  <2>6. \A k \in Int : Min({n, e(k)}) = end(k)
    <3> TAKE k \in Int
    <3>1. e(k) \in Int
      BY <2>3
    <3> HIDE DEF e
    <3>2. Min({n, e(k)}) = IF n <= e(k) THEN n ELSE e(k)
      BY <3>1, MinPair
    <3> QED BY <3>2
  <2>7. \A k \in 1 .. c : row(k) = [from |-> e(k - 1), to |-> end(k)]
    BY <2>6
  <2>8. \A k \in 1 .. c : row(k) \in [from : Int, to : Int]
    <3> TAKE k \in 1 .. c
    <3>1. k \in Int /\ k - 1 \in Int
      BY <2>1
    <3>2. e(k) \in Int /\ e(k - 1) \in Int
      BY <3>1, <2>3
    <3>3. end(k) \in Int
      BY <3>2
    <3> HIDE DEF end, row
    <3> QED BY <3>2, <3>3, <2>7
  <2>9. r \in Seq([from : Int, to : Int]) /\ Len(r) = c /\ DOMAIN r = 1 .. c
    <3> HIDE DEF row
    <3>1. r \in [1 .. c -> [from : Int, to : Int]]
      BY <2>8
    <3>2. \A T : \A f \in [1 .. c -> T] : f \in Seq(T) /\ Len(f) = c /\ DOMAIN f = 1 .. c
      BY <2>1
    <3> HIDE DEF r
    <3> QED BY <3>1, <3>2
  <2>10. \A k \in 1 .. c : r[k].from = e(k - 1) /\ r[k].to = end(k)
    BY <2>7
  <2> HIDE DEF r, row
  <2>11. r[1].from = 0 /\ r[c].to = n
    <3>1. 1 \in 1 .. c /\ c \in 1 .. c /\ 1 - 1 = 0
      BY <2>1
    <3> QED BY <3>1, <2>5, <2>10
  <2>12. \A k \in 1 .. c : r[k].to - r[k].from <= w
    <3> TAKE k \in 1 .. c
    <3>1. e(k) - e(k - 1) = w /\ e(k) \in Int /\ e(k - 1) \in Int
      BY <2>3
    <3>2. end(k) <= e(k) /\ end(k) \in Int
      BY <3>1
    <3> HIDE DEF end
    <3> QED BY <3>1, <3>2, <2>10
  <2>13. \A k \in 1 .. c - 1 : r[k].to = r[k + 1].from /\ r[k].from < r[k].to
    <3> TAKE k \in 1 .. c - 1
    <3>1. k \in 1 .. c /\ k + 1 \in 1 .. c /\ (k + 1) - 1 = k /\ k \in Int
      BY <2>1
    <3>2. e(k) - e(k - 1) = w /\ e(k) \in Int /\ e(k - 1) \in Int /\ e(k) < n
      BY <2>3, <2>4, <3>1
    <3>3. end(k) = e(k)
      BY <3>2
    <3> HIDE DEF end
    <3>4. r[k].to = e(k) /\ r[k].from = e(k - 1) /\ r[k + 1].from = e(k)
      BY <3>1, <3>3, <2>10
    <3> QED BY <3>2, <3>4
  <2>14. \A k \in DOMAIN r : r[k].from = (k - 1) * w /\ r[k].to - r[k].from <= w
    BY <2>9, <2>10, <2>12 DEF e
  <2>15. (Len(r) - 1) * w < n /\ n <= Len(r) * w
    BY <2>5, <2>9 DEF e
  <2> QED BY <1>2, <2>1, <2>2, <2>9, <2>11, <2>13, <2>14, <2>15
<1> QED BY <1>1, <1>2

-----------------------------------------------------------------------------
(* The rows painted.                                                       *)

Row == [line : Nat, from : Int, to : Int]

\* The rows of one line: each begins a width after the one before it.
RowsOfOne(r, l, wr, pw) ==
  /\ r \in Seq(Row) /\ Len(r) >= 1
  /\ \A j \in DOMAIN r : r[j].line = l /\ r[j].from = IF wr THEN (j - 1) * pw ELSE 0
  /\ ~wr => Len(r) = 1

RowsFor(l, n, cw, wr, styled) ==
  LET pieces == IF wr THEN WrapLine(n, cw) ELSE <<[from |-> 0, to |-> n]>>
      empty == IF wr /\ styled /\ n > cw /\ n % cw = 0
               THEN <<[from |-> n, to |-> n]>> ELSE <<>> IN
  [k \in 1 .. Len(pieces) + Len(empty) |->
     LET p == (pieces \o empty)[k] IN [line |-> l, from |-> p.from, to |-> p.to]]

\* A line that fills its last row ends at a multiple of the width.
LEMMA FullRows ==
  ASSUME NEW n \in Nat, NEW w \in Nat \ {0}, NEW c \in Nat,
         (c - 1) * w < n, n <= c * w, n % w = 0
  PROVE  n = c * w
<1> DEFINE q == n \div w
<1>1. q \in Int /\ n = q * w + (n % w)
  OBVIOUS
<1>2. n = q * w
  BY <1>1
<1> HIDE DEF q
<1>3. ~(q < c)
  <2>1. SUFFICES ASSUME q < c PROVE FALSE
    OBVIOUS
  <2>2. q * w + w <= c * w
    BY <1>1, <2>1, MultipleGrows
  <2>3. (c - 1) * w = c * w - w /\ c * w \in Int /\ q * w \in Int
    BY <1>1
  <2> QED BY <2>2, <2>3, <1>2
<1>4. ~(c < q)
  <2>1. SUFFICES ASSUME c < q PROVE FALSE
    OBVIOUS
  <2>2. c * w + w <= q * w
    BY <1>1, <2>1, MultipleGrows
  <2>3. c * w \in Int /\ q * w \in Int
    BY <1>1
  <2> QED BY <2>2, <2>3, <1>2
<1>5. q = c
  BY <1>1, <1>3, <1>4
<1> QED BY <1>2, <1>5

\* paintMatches cuts a line into rows a width apart.
LEMMA RowsForIs ==
  ASSUME NEW l \in Nat, NEW n \in Nat, NEW cw \in Nat \ {0}, NEW wr \in BOOLEAN, NEW styled
  PROVE  RowsOfOne(RowsFor(l, n, cw, wr, styled), l, wr, cw)
<1> DEFINE Piece == [from : Int, to : Int]
           pieces == IF wr THEN WrapLine(n, cw) ELSE <<[from |-> 0, to |-> n]>>
           empty == IF wr /\ styled /\ n > cw /\ n % cw = 0
                    THEN <<[from |-> n, to |-> n]>> ELSE <<>>
           all == pieces \o empty
           start(j) == IF wr THEN (j - 1) * cw ELSE 0
<1>1. /\ pieces \in Seq(Piece) /\ Len(pieces) >= 1
      /\ \A j \in DOMAIN pieces : pieces[j].from = start(j)
      /\ ~wr => Len(pieces) = 1
  <2>1. CASE wr
    <3>1. pieces = WrapLine(n, cw)
      BY <2>1
    <3> HIDE DEF pieces
    <3> QED BY <3>1, <2>1, WrapIs
  <2>2. CASE ~wr
    <3>1. pieces = <<[from |-> 0, to |-> n]>>
      BY <2>2
    <3>2. [from |-> 0, to |-> n] \in Piece
      OBVIOUS
    <3> HIDE DEF pieces, Piece
    <3> QED BY <3>1, <3>2, <2>2
  <2> QED BY <2>1, <2>2
<1>2. /\ empty \in Seq(Piece)
      /\ \/ Len(empty) = 0
         \/ wr /\ Len(empty) = 1 /\ empty[1].from = Len(pieces) * cw
  <2>1. CASE wr /\ styled /\ n > cw /\ n % cw = 0
    <3>1. empty = <<[from |-> n, to |-> n]>> /\ pieces = WrapLine(n, cw)
      BY <2>1
    <3>2. [from |-> n, to |-> n] \in Piece
      OBVIOUS
    <3> HIDE DEF pieces, Piece, empty
    <3>3. (Len(pieces) - 1) * cw < n /\ n <= Len(pieces) * cw /\ Len(pieces) \in Nat
      <4>1. n > cw
        BY <2>1
      <4>2. (Len(WrapLine(n, cw)) - 1) * cw < n /\ n <= Len(WrapLine(n, cw)) * cw
        BY <4>1, WrapIs
      <4>3. Len(pieces) \in Nat
        BY <1>1
      <4> QED BY <4>2, <4>3, <3>1
    <3>4. n = Len(pieces) * cw
      BY <3>3, <2>1, FullRows
    <3> QED BY <3>1, <3>2, <3>4, <2>1
  <2>2. CASE ~(wr /\ styled /\ n > cw /\ n % cw = 0)
    <3>1. empty = <<>>
      BY <2>2
    <3> HIDE DEF empty, pieces
    <3> QED BY <3>1
  <2> QED BY <2>1, <2>2
<1> HIDE DEF pieces, empty
<1>3. /\ all \in Seq(Piece) /\ Len(all) = Len(pieces) + Len(empty) /\ Len(all) >= 1
      /\ DOMAIN all = 1 .. Len(all)
      /\ \A j \in 1 .. Len(all) : all[j] \in Piece
      /\ \A j \in 1 .. Len(pieces) : all[j] = pieces[j]
      /\ \A j \in 1 .. Len(empty) : all[Len(pieces) + j] = empty[j]
      /\ Len(pieces) \in Nat /\ Len(empty) \in Nat /\ DOMAIN pieces = 1 .. Len(pieces)
  <2> HIDE DEF Piece
  <2> QED BY <1>1, <1>2
<1> HIDE DEF all
<1>4. ASSUME NEW j \in 1 .. Len(all) PROVE all[j].from = start(j)
  <2>1. CASE j \in 1 .. Len(pieces)
    BY <2>1, <1>1, <1>3
  <2>2. CASE j \notin 1 .. Len(pieces)
    <3>1. Len(empty) = 1 /\ wr /\ empty[1].from = Len(pieces) * cw
      BY <2>2, <1>2, <1>3
    <3>2. j = Len(pieces) + 1 /\ j - 1 = Len(pieces) /\ 1 \in 1 .. Len(empty)
      BY <2>2, <3>1, <1>3
    <3>3. all[j] = empty[1]
      BY <3>2, <1>3
    <3> QED BY <3>1, <3>2, <3>3
  <2> QED BY <2>1, <2>2
<1> DEFINE row(j) == [line |-> l, from |-> all[j].from, to |-> all[j].to]
           r == [j \in 1 .. Len(all) |-> row(j)]
<1>5. RowsFor(l, n, cw, wr, styled) = r
  BY <1>3 DEF RowsFor, pieces, empty, all
<1>6. \A j \in 1 .. Len(all) : row(j) \in Row
  BY <1>3 DEF Row
<1>7. \A j \in 1 .. Len(all) : row(j).line = l /\ row(j).from = all[j].from
  OBVIOUS
<1>8. r \in Seq(Row) /\ Len(r) = Len(all) /\ DOMAIN r = 1 .. Len(all)
  <2> HIDE DEF row
  <2>1. r \in [1 .. Len(all) -> Row] /\ Len(all) \in Nat
    BY <1>6, <1>3
  <2>2. \A c \in Nat : \A T : \A f \in [1 .. c -> T] :
          f \in Seq(T) /\ Len(f) = c /\ DOMAIN f = 1 .. c
    OBVIOUS
  <2> HIDE DEF r
  <2> QED BY <2>1, <2>2
<1>9. \A j \in 1 .. Len(all) : r[j].line = l /\ r[j].from = start(j)
  BY <1>4, <1>7
<1>10. ~wr => Len(all) = 1
  <2>1. ~wr => Len(pieces) = 1 /\ Len(empty) = 0
    BY <1>1, <1>2, Zenon
  <2>2. Len(all) = Len(pieces) + Len(empty)
    BY <1>3
  <2> QED BY <2>1, <2>2
<1> HIDE DEF r
<1>11. RowsOfOne(r, l, wr, cw)
  BY <1>3, <1>8, <1>9, <1>10 DEF RowsOfOne
<1> QED BY <1>5, <1>11

RowBegins(rs, k, wr, pw) ==
  rs[k].from = IF wr /\ k > 1 /\ rs[k - 1].line = rs[k].line THEN rs[k - 1].from + pw ELSE 0

\* Every line has a row, and a row that goes on with a line begins a width
\* after the row above it.
RowsGood(rs, b, wr, pw) ==
  /\ rs \in Seq(Row)
  /\ \A l \in 0 .. LastLine(b) : \E k \in DOMAIN rs : rs[k].line = l
  /\ \A k \in DOMAIN rs : RowBegins(rs, k, wr, pw)

\* The rows of all lines, one line after the other.
LEMMA RowsLaid ==
  ASSUME NEW b, Buffer(b), NEW wr \in BOOLEAN, NEW pw \in Nat,
         NEW s \in Seq(Seq(Row)), Len(s) = Len(b),
         \A i \in 1 .. Len(b) : RowsOfOne(s[i], i - 1, wr, pw)
  PROVE  RowsGood(FlattenSeq(s), b, wr, pw)
<1> DEFINE f == FlattenSeq(s)
<1>1. f \in Seq(Row) /\ Laid(s, Len(s), f)
  BY FlatLaid
<1>2. Len(b) \in Nat /\ LastLine(b) = Len(b) - 1
  BY DEF Buffer, LastLine
<1> HIDE DEF f
<1>3. ASSUME NEW i \in 1 .. Len(b)
      PROVE  /\ s[i] \in Seq(Row) /\ Len(s[i]) >= 1 /\ DOMAIN s[i] = 1 .. Len(s[i])
             /\ \A j \in DOMAIN s[i] : /\ s[i][j].line = i - 1
                                       /\ s[i][j].from = IF wr THEN (j - 1) * pw ELSE 0
             /\ ~wr => Len(s[i]) = 1
  BY DEF RowsOfOne
<1>4. ASSUME NEW l \in 0 .. LastLine(b)
      PROVE  \E k \in DOMAIN f : f[k].line = l
  <2>1. l + 1 \in 1 .. Len(b) /\ l + 1 \in 1 .. Len(s) /\ (l + 1) - 1 = l
    BY <1>2
  <2>2. 1 \in DOMAIN s[l + 1] /\ s[l + 1][1].line = l
    BY <2>1, <1>3
  <2>3. PICK k \in DOMAIN f : f[k] = s[l + 1][1]
    BY <2>1, <2>2, <1>1 DEF Laid
  <2> QED BY <2>2, <2>3
<1>5. ASSUME NEW k \in DOMAIN f
      PROVE  RowBegins(f, k, wr, pw)
  <2>1. PICK i \in 1 .. Len(b) : \E j \in DOMAIN s[i] : FromList(s, f, k, i, j)
    BY <1>1 DEF Laid
  <2>2. PICK j \in DOMAIN s[i] : FromList(s, f, k, i, j)
    BY <2>1
  <2>3. /\ f[k].line = i - 1 /\ f[k].from = IF wr THEN (j - 1) * pw ELSE 0
        /\ j \in Nat /\ j >= 1
    BY <2>2, <1>3 DEF FromList
  <2>4. CASE j = 1
    <3>1. f[k].from = 0
      <4>1. (1 - 1) * pw = 0
        OBVIOUS
      <4> QED BY <4>1, <2>3, <2>4
    <3>2. k > 1 => f[k - 1].line # f[k].line
      <4>1. SUFFICES ASSUME k > 1 PROVE f[k - 1].line # i - 1
        BY <2>3
      <4>2. PICK m \in 1 .. i - 1 : \E x \in DOMAIN s[m] : f[k - 1] = s[m][x]
        BY <4>1, <2>2, <2>4 DEF FromList
      <4>3. m \in 1 .. Len(b) /\ m # i
        BY <1>2
      <4>4. f[k - 1].line = m - 1
        BY <4>2, <4>3, <1>3
      <4> QED BY <4>3, <4>4
    <3> QED BY <3>1, <3>2 DEF RowBegins
  <2>5. CASE j > 1
    <3>1. k > 1 /\ f[k - 1] = s[i][j - 1]
      BY <2>2, <2>5 DEF FromList
    <3>2. j - 1 \in DOMAIN s[i] /\ wr
      BY <2>5, <1>3
    <3>3. f[k - 1].line = i - 1 /\ f[k - 1].from = ((j - 1) - 1) * pw
      BY <3>1, <3>2, <1>3
    <3>4. ((j - 1) - 1) * pw + pw = (j - 1) * pw
      BY <2>3
    <3>5. f[k].from = (j - 1) * pw
      BY <2>3, <3>2
    <3> QED BY <2>3, <3>1, <3>2, <3>3, <3>4, <3>5 DEF RowBegins
  <2> QED BY <2>3, <2>4, <2>5
<1> QED BY <1>1, <1>4, <1>5 DEF RowsGood, f

\* A pane has room for a row and a column of text.
LEMMA Geometry ==
  ASSUME NEW s, s.w \in Nat, s.h \in Nat \ {0, 1, 2}, NEW copy \in BOOLEAN, NEW g \in BOOLEAN
  PROVE  /\ VpHeight(s) \in Nat \ {0} /\ VpHeight(s) = s.h - 2
         /\ GutterWidth(copy, g) \in Nat
         /\ VpWidth(s, copy, g) \in Nat \ {0}
         /\ VpWidth(s, copy, g) >= s.w - 3 - GutterWidth(copy, g)
         /\ ContentWidth(s, copy, g) \in Nat \ {0}
<1>1. s.h - 2 \in Int /\ s.h - 2 >= 1
  OBVIOUS
<1>2. VpHeight(s) = s.h - 2
  BY <1>1, MaxPair DEF VpHeight
<1>3. GutterWidth(copy, g) \in Nat
  BY DEF GutterWidth
<1>4. s.w - 3 - GutterWidth(copy, g) \in Int
  BY <1>3
<1>5. VpWidth(s, copy, g) = IF 1 <= s.w - 3 - GutterWidth(copy, g)
                            THEN s.w - 3 - GutterWidth(copy, g) ELSE 1
  BY <1>4, MaxPair DEF VpWidth
<1>6. VpWidth(s, copy, g) \in Nat \ {0} /\ VpWidth(s, copy, g) >= s.w - 3 - GutterWidth(copy, g)
  BY <1>4, <1>5
<1>7. VpWidth(s, copy, g) - GutterWidth(copy, g) \in Int
  BY <1>3, <1>6
<1>8. ContentWidth(s, copy, g) = IF 1 <= VpWidth(s, copy, g) - GutterWidth(copy, g)
                                 THEN VpWidth(s, copy, g) - GutterWidth(copy, g) ELSE 1
  BY <1>7, MaxPair DEF ContentWidth
<1>9. ContentWidth(s, copy, g) \in Nat \ {0}
  BY <1>7, <1>8
<1> QED BY <1>1, <1>2, <1>3, <1>6, <1>9

\* What a paint leaves behind are good rows.
LEMMA PaintRows ==
  ASSUME Paint, Buffer(raw'), wrap' \in BOOLEAN, inCopy' \in BOOLEAN, gutter' \in BOOLEAN,
         size'.w \in Nat, size'.h \in Nat \ {0, 1, 2}
  PROVE  RowsGood(rows', raw', wrap', paintedAt') /\ paintedAt' \in Nat \ {0}
<1> DEFINE cw == ContentWidth(size', inCopy', gutter')
           n(l) == Width(raw', l) + (IF CursorCell(l) THEN 1 ELSE 0)
           s == [i \in DOMAIN raw' |-> RowsOf(i - 1)]
<1>1. cw \in Nat \ {0}
  BY Geometry
<1>2. \A l \in Nat : n(l) \in Nat
  <2> TAKE l \in Nat
  <2>1. Width(raw', l) \in Nat
    BY TextTyping
  <2> QED BY <2>1
<1>3. \A l \in Nat : RowsOf(l) = RowsFor(l, n(l), cw, wrap', Styled(l))
  BY Zenon DEF RowsOf, RowsFor
<1>4. \A l \in Nat : RowsOfOne(RowsOf(l), l, wrap', cw)
  <2> TAKE l \in Nat
  <2> HIDE DEF n, cw
  <2>1. RowsOfOne(RowsFor(l, n(l), cw, wrap', Styled(l)), l, wrap', cw)
    BY <1>1, <1>2, RowsForIs
  <2> QED BY <2>1, <1>3
<1>5. Len(raw') \in Nat /\ DOMAIN raw' = 1 .. Len(raw')
  BY DEF Buffer
<1>6. \A i \in 1 .. Len(raw') : RowsOfOne(RowsOf(i - 1), i - 1, wrap', cw)
  <2> HIDE DEF cw
  <2>1. \A i \in 1 .. Len(raw') : i - 1 \in Nat
    BY <1>5
  <2> QED BY <2>1, <1>4
<1>7. s \in Seq(Seq(Row)) /\ Len(s) = Len(raw')
  <2>1. \A i \in 1 .. Len(raw') : RowsOf(i - 1) \in Seq(Row)
    BY <1>6 DEF RowsOfOne
  <2>2. \A c \in Nat : \A T : \A f \in [1 .. c -> T] : f \in Seq(T) /\ Len(f) = c
    OBVIOUS
  <2>3. s \in [1 .. Len(raw') -> Seq(Row)]
    BY <1>5, <2>1
  <2> HIDE DEF s
  <2> QED BY <1>5, <2>2, <2>3
<1>8. \A i \in 1 .. Len(raw') : RowsOfOne(s[i], i - 1, wrap', cw)
  BY <1>5, <1>6
<1>9. rows' = FlattenSeq(s) /\ paintedAt' = cw
  BY DEF Paint
<1>10. RowsGood(FlattenSeq(s), raw', wrap', cw)
  <2> HIDE DEF s, cw
  <2> QED BY <1>1, <1>7, <1>8, RowsLaid
<1> QED BY <1>1, <1>9, <1>10

-----------------------------------------------------------------------------
(* The window over the rows.                                               *)

Pane(s) == s.w \in Nat /\ s.h \in Nat \ {0, 1, 2}

\* An offset that is brought into range.
LEMMA WithinIs ==
  ASSUME NEW s, Pane(s), NEW rs, Len(rs) \in Nat, NEW n \in Int
  PROVE  /\ Bottom(rs, s) = IF 0 <= Len(rs) - VpHeight(s) THEN Len(rs) - VpHeight(s) ELSE 0
         /\ Within(n, rs, s) = IF n < 0 THEN 0 ELSE IF n <= Bottom(rs, s) THEN n ELSE Bottom(rs, s)
         /\ Bottom(rs, s) \in 0 .. Len(rs) /\ Within(n, rs, s) \in 0 .. Len(rs)
         /\ VpHeight(s) \in Nat \ {0}
<1>1. VpHeight(s) \in Nat \ {0}
  <2>1. s.h - 2 \in Int /\ s.h - 2 >= 1
    BY DEF Pane
  <2>2. VpHeight(s) = s.h - 2
    BY <2>1, MaxPair DEF VpHeight
  <2> QED BY <2>1, <2>2
<1>2. Len(rs) - VpHeight(s) \in Int
  BY <1>1
<1>3. Bottom(rs, s) = IF 0 <= Len(rs) - VpHeight(s) THEN Len(rs) - VpHeight(s) ELSE 0
  BY <1>2, MaxPair DEF Bottom
<1>4. Bottom(rs, s) \in 0 .. Len(rs)
  BY <1>1, <1>2, <1>3
<1>5. Min({n, Bottom(rs, s)}) = IF n <= Bottom(rs, s) THEN n ELSE Bottom(rs, s)
  BY <1>4, MinPair
<1>6. Min({n, Bottom(rs, s)}) \in Int
  BY <1>4, <1>5
<1>7. Within(n, rs, s) = IF 0 <= Min({n, Bottom(rs, s)}) THEN Min({n, Bottom(rs, s)}) ELSE 0
  <2>1. \A m \in Int : Max({0, m}) = IF 0 <= m THEN m ELSE 0
    BY MaxPair
  <2> QED BY <1>6, <2>1, Zenon DEF Within
<1>8. Within(n, rs, s) = IF n < 0 THEN 0 ELSE IF n <= Bottom(rs, s) THEN n ELSE Bottom(rs, s)
  BY <1>4, <1>5, <1>7
<1>9. Within(n, rs, s) \in 0 .. Len(rs)
  BY <1>4, <1>8
<1> QED BY <1>1, <1>3, <1>4, <1>8, <1>9

\* The window that a motion leaves stays over the rows, and the first row of
\* the cursor's line is in it.
LEMMA CursorOffsetShows ==
  ASSUME Pane(size), NEW rs \in Seq(Row), NEW l \in Nat, NEW off \in 0 .. Len(rs)
  PROVE  /\ CursorOffset(rs, l, off) \in 0 .. Len(rs)
         /\ (\E k \in DOMAIN rs : rs[k].line = l) => InWindow(rs, CursorOffset(rs, l, off), size, l)
<1> DEFINE spots == {k \in DOMAIN rs : rs[k].line = l}
           first == IF spots = {} THEN l ELSE Min(spots) - 1
           last == IF spots = {} THEN l ELSE Max(spots) - 1
           h == VpHeight(size)
           low == Min({first, last - h + 1})
<1>1. Len(rs) \in Nat /\ DOMAIN rs = 1 .. Len(rs) /\ h \in Nat \ {0}
  BY WithinIs
<1>2. /\ spots # {} => /\ Min(spots) \in spots /\ \A x \in spots : Min(spots) <= x
                       /\ Max(spots) \in spots /\ \A x \in spots : x <= Max(spots)
      /\ spots \subseteq 1 .. Len(rs)
  <2>1. spots \subseteq Int /\ (\A x \in spots : 1 <= x /\ x <= Len(rs)) /\ spots \subseteq 1 .. Len(rs)
    BY <1>1
  <2> HIDE DEF spots
  <2>2. spots # {} => Min(spots) \in spots /\ \A x \in spots : Min(spots) <= x
    <3>1. 1 \in Int
      OBVIOUS
    <3> QED BY <2>1, <3>1, MinIs
  <2>3. spots # {} => Max(spots) \in spots /\ \A x \in spots : x <= Max(spots)
    <3>1. Len(rs) \in Int
      BY <1>1
    <3> QED BY <2>1, <3>1, MaxIs
  <2> QED BY <2>1, <2>2, <2>3
<1>3. /\ first \in Nat /\ last \in Nat
      /\ spots # {} => /\ first + 1 = Min(spots) /\ last + 1 = Max(spots)
                       /\ first <= last /\ last < Len(rs)
  <2> HIDE DEF spots
  <2>1. CASE spots = {}
    BY <2>1
  <2>2. CASE spots # {}
    <3>1. Min(spots) \in 1 .. Len(rs) /\ Max(spots) \in 1 .. Len(rs) /\ Min(spots) <= Max(spots)
      BY <2>2, <1>2
    <3>2. first = Min(spots) - 1 /\ last = Max(spots) - 1
      BY <2>2
    <3> HIDE DEF first, last
    <3> QED BY <3>1, <3>2, <1>1
  <2> QED BY <2>1, <2>2
<1>4. spots # {} => /\ first + 1 \in DOMAIN rs /\ rs[first + 1].line = l
                    /\ (first + 1 > 1 => rs[(first + 1) - 1].line # l)
  <2> SUFFICES ASSUME spots # {}
      PROVE  /\ first + 1 \in DOMAIN rs /\ rs[first + 1].line = l
             /\ (first + 1 > 1 => rs[(first + 1) - 1].line # l)
    OBVIOUS
  <2>1. first + 1 = Min(spots) /\ Min(spots) \in spots /\ \A x \in spots : Min(spots) <= x
    BY <1>2, <1>3
  <2>2. first + 1 \in DOMAIN rs /\ rs[first + 1].line = l
    BY <2>1
  <2>3. ASSUME first + 1 > 1, rs[(first + 1) - 1].line = l PROVE FALSE
    <3>1. (first + 1) - 1 \in 1 .. Len(rs) /\ (first + 1) - 1 < first + 1
      <4> HIDE DEF first
      <4> QED BY <2>2, <2>3, <1>1, <1>3
    <3>2. (first + 1) - 1 \in spots
      BY <3>1, <2>3, <1>1
    <3>3. first + 1 <= (first + 1) - 1
      BY <2>1, <3>2
    <3> HIDE DEF first
    <3> QED BY <3>1, <3>3, <1>3
  <2> QED BY <2>2, <2>3
<1> HIDE DEF spots
<1>5. low = IF first <= last - h + 1 THEN first ELSE last - h + 1
  <2> HIDE DEF first, last, h
  <2>1. last - h + 1 \in Int
    BY <1>1, <1>3
  <2> QED BY <2>1, <1>3, MinPair
<1>6. CursorOffset(rs, l, off) = CASE first < off -> Within(first, rs, size)
                                   [] first >= off /\ last >= off + h -> Within(low, rs, size)
                                   [] OTHER -> off
  BY DEF CursorOffset, spots
<1>7. low \in Int
  BY <1>1, <1>3, <1>5
<1> HIDE DEF first, last, low, h
<1> DEFINE to == CursorOffset(rs, l, off)
<1>8. \/ first < off /\ to = Within(first, rs, size)
      \/ first >= off /\ last >= off + h /\ to = Within(low, rs, size)
      \/ first >= off /\ last < off + h /\ to = off
  <2>1. CASE first < off
    <3>1. ~(first >= off)
      BY <2>1, <1>3
    <3> QED BY <2>1, <3>1, <1>6
  <2>2. CASE first >= off /\ last >= off + h
    <3>1. ~(first < off)
      BY <2>2, <1>3
    <3> QED BY <2>2, <3>1, <1>6
  <2>3. CASE ~(first < off) /\ ~(first >= off /\ last >= off + h)
    <3>1. first >= off /\ last < off + h
      BY <2>3, <1>1, <1>3
    <3> QED BY <2>3, <3>1, <1>6
  <2> QED BY <2>1, <2>2, <2>3
<1> HIDE DEF to
<1>9. \A n \in Int :
        /\ Within(n, rs, size) = IF n < 0 THEN 0 ELSE IF n <= Bottom(rs, size) THEN n ELSE Bottom(rs, size)
        /\ Within(n, rs, size) \in 0 .. Len(rs)
  BY <1>1, WithinIs
<1>10. /\ Bottom(rs, size) = IF 0 <= Len(rs) - h THEN Len(rs) - h ELSE 0
       /\ Bottom(rs, size) \in 0 .. Len(rs)
  BY <1>1, WithinIs DEF h
<1>11. to \in 0 .. Len(rs)
  <2>1. Within(first, rs, size) \in 0 .. Len(rs) /\ Within(low, rs, size) \in 0 .. Len(rs)
    BY <1>3, <1>7, <1>9
  <2> QED BY <1>8, <2>1
<1>12. spots # {} => first + 1 \in to + 1 .. to + h
  <2>1. SUFFICES ASSUME spots # {} PROVE first >= to /\ first + 1 <= to + h
    BY <1>1, <1>3, <1>11
  <2>2. first <= last /\ last < Len(rs)
    BY <2>1, <1>3
  <2>3. CASE first < off /\ to = Within(first, rs, size)
    <3>1. to = IF first < 0 THEN 0 ELSE IF first <= Bottom(rs, size) THEN first ELSE Bottom(rs, size)
      <4>1. first \in Int
        BY <1>3
      <4> QED BY <4>1, <2>3, <1>9
    <3>2. first \in Nat /\ first < Len(rs)
      BY <2>2, <1>1, <1>3
    <3>3. CASE first <= Bottom(rs, size)
      <4>1. to = first
        BY <3>1, <3>2, <3>3
      <4> QED BY <4>1, <3>2, <1>1
    <3>4. CASE ~(first <= Bottom(rs, size))
      <4>1. to = Bottom(rs, size) /\ Bottom(rs, size) < first
        BY <3>1, <3>2, <3>4, <1>10
      <4> QED BY <4>1, <3>2, <1>1, <1>10
    <3> QED BY <3>3, <3>4
  <2>4. CASE first >= off /\ last >= off + h /\ to = Within(low, rs, size)
    <3>1. to = IF low < 0 THEN 0 ELSE IF low <= Bottom(rs, size) THEN low ELSE Bottom(rs, size)
      BY <2>4, <1>7, <1>9
    <3>2. low >= 0 /\ low <= Bottom(rs, size)
      BY <2>2, <2>4, <1>1, <1>3, <1>5, <1>10
    <3>3. to = low
      BY <3>1, <3>2, <1>7
    <3> QED BY <3>3, <2>2, <1>1, <1>3, <1>5
  <2>5. CASE first >= off /\ last < off + h /\ to = off
    BY <2>5, <2>2, <1>1, <1>3
  <2> QED BY <2>3, <2>4, <2>5, <1>8
<1>13. spots # {} => InWindow(rs, to, size, l)
  BY <1>4, <1>12 DEF InWindow, h
<1>14. (\E k \in DOMAIN rs : rs[k].line = l) => spots # {}
  BY DEF spots
<1> QED BY <1>11, <1>13, <1>14 DEF to

-----------------------------------------------------------------------------
(* What is highlighted, and what a copy takes.                             *)

\* Two places in their order.
LEMMA OrderedAre ==
  ASSUME NEW p \in Places, NEW q \in Places
  PROVE  /\ Ordered(p, q)[1] \in Places /\ Ordered(p, q)[2] \in Places
         /\ ~Before(Ordered(p, q)[2], Ordered(p, q)[1])
BY DEF Ordered, Before, Places

\* yankText takes what overlaySelection paints.
LEMMA OverlayIsYank ==
  ASSUME NEW b, Buffer(b), NEW s, s.mode \in {"char", "line"}, s.anchor \in Places, NEW c \in Places
  PROVE  Overlay(b, s, c) = YankText(b, s, c)
<1> DEFINE e1 == Ordered(s.anchor, c)[1]
           e2 == Ordered(s.anchor, c)[2]
           from(l) == IF s.mode = "char" /\ l = e1.line THEN e1.col ELSE 0
           to(l) == IF s.mode = "char" /\ l = e2.line THEN e2.col ELSE Width(b, l)
           Painted(x) == /\ e1.line <= x.line /\ x.line <= e2.line
                         /\ from(x.line) <= x.col /\ x.col <= to(x.line)
<1>1. e1 \in Places /\ e2 \in Places /\ ~Before(e2, e1)
  BY OrderedAre
<1>2. HasSel(s)
  BY DEF HasSel
<1>3. Overlay(b, s, c) = {x \in Chars(b) : Painted(x)}
  BY <1>2, Zenon DEF Overlay
<1> HIDE DEF e1, e2
<1>4. \A x \in Chars(b) : /\ x.line \in Nat /\ x.col \in Nat
                          /\ x.col <= Width(b, x.line) /\ Width(b, x.line) \in Nat
  <2> TAKE x \in Chars(b)
  <2>1. x \in Places /\ x.col < Width(b, x.line) /\ Width(b, x.line) \in Nat
    BY CharsAre, TextTyping
  <2> QED BY <2>1 DEF Places
<1>5. e1.line \in Nat /\ e1.col \in Nat /\ e2.line \in Nat /\ e2.col \in Nat
  BY <1>1 DEF Places
<1>6. CASE s.mode = "line"
  <2>1. YankText(b, s, c) = Lines(b, e1.line, e2.line)
    BY <1>6, Zenon DEF YankText, e1, e2
  <2>2. \A x \in Chars(b) : Painted(x) <=> e1.line <= x.line /\ x.line <= e2.line
    BY <1>4, <1>6
  <2> QED BY <1>3, <2>1, <2>2 DEF Lines
<1>7. CASE s.mode = "char"
  <2> DEFINE end == Pos(e2.line, e2.col + 1)
  <2>1. YankText(b, s, c) = Slice(b, e1, end)
    BY <1>7, Zenon DEF YankText, e1, e2
  <2>2. end.line = e2.line /\ end.col = e2.col + 1
    BY DEF Pos
  <2> HIDE DEF end
  <2>3. ASSUME NEW x \in Chars(b)
        PROVE  Painted(x) <=> ~Before(x, e1) /\ Before(x, end)
    <3>1. from(x.line) = IF x.line = e1.line THEN e1.col ELSE 0
      BY <1>7
    <3>2. to(x.line) = IF x.line = e2.line THEN e2.col ELSE Width(b, x.line)
      BY <1>7
    <3> QED BY <3>1, <3>2, <1>1, <1>4, <1>5, <2>2 DEF Before
  <2> QED BY <1>3, <2>1, <2>3 DEF Slice
<1> QED BY <1>6, <1>7

-----------------------------------------------------------------------------
(* Words.                                                                  *)

\* What is not blank is a character of the buffer.
LEMMA SolidAre ==
  ASSUME NEW b, Buffer(b)
  PROVE  /\ Solid(b) \subseteq Chars(b) /\ Chars(b) \subseteq Places
         /\ Solid(b) \subseteq Places /\ Chars(b) \subseteq Cursors(b)
         /\ \A p \in Chars(b) : /\ p.line \in 0 .. LastLine(b)
                                /\ p.col \in 0 .. Width(b, p.line) - 1
                                /\ Width(b, p.line) \in Nat
<1>1. Solid(b) \subseteq Chars(b)
  BY DEF Solid
<1>2. ASSUME NEW p \in Chars(b)
      PROVE  /\ p \in Places /\ p \in Cursors(b)
             /\ p.line \in 0 .. LastLine(b) /\ p.col \in 0 .. Width(b, p.line) - 1
             /\ Width(b, p.line) \in Nat
  <2>1. p \in Places /\ p.line <= LastLine(b) /\ p.col < Width(b, p.line)
    BY CharsAre
  <2>2. Width(b, p.line) \in Nat /\ LastLine(b) \in Int
    BY TextTyping
  <2>3. p.col \in Nat /\ p.line \in Nat
    BY <2>1 DEF Places
  <2>4. p \in Cursors(b)
    BY <2>1, <2>2, <2>3, CursorsAre
  <2> QED BY <2>1, <2>2, <2>3, <2>4
<1> QED BY <1>1, <1>2

\* The run around a character holds it, and has two ends in its line.
LEMMA RunIs ==
  ASSUME NEW b, Buffer(b), NEW q \in Chars(b), NEW bg
  PROVE  /\ Run(b, q, bg) \subseteq 0 .. Width(b, q.line) - 1 /\ q.col \in Run(b, q, bg)
         /\ Min(Run(b, q, bg)) \in Run(b, q, bg) /\ Max(Run(b, q, bg)) \in Run(b, q, bg)
         /\ \A c \in Run(b, q, bg) : Min(Run(b, q, bg)) <= c /\ c <= Max(Run(b, q, bg))
<1> DEFINE r == Run(b, q, bg)
           w == Width(b, q.line)
<1>1. q \in Places /\ q.col \in 0 .. w - 1 /\ w \in Nat
  BY SolidAre
<1>2. r \subseteq 0 .. w - 1
  BY DEF Run
<1>3. q.col \in r
  <2>1. Pos(q.line, q.col) = q
    BY <1>1 DEF Pos, Places
  <2>2. \A d \in (q.col .. q.col) \cup (q.col .. q.col) : d = q.col
    BY <1>1
  <2> QED BY <1>1, <2>1, <2>2 DEF Run
<1> HIDE DEF r
<1>4. r \subseteq Int /\ r # {} /\ 0 \in Int /\ w \in Int
      /\ (\A c \in r : 0 <= c) /\ (\A c \in r : c <= w)
  BY <1>1, <1>2, <1>3
<1>5. Min(r) \in r /\ \A c \in r : Min(r) <= c
  BY <1>4, MinIs
<1>6. Max(r) \in r /\ \A c \in r : c <= Max(r)
  BY <1>4, MaxIs
<1> QED BY <1>2, <1>3, <1>5, <1>6 DEF r

\* The two ends of a buffer are places for a cursor.
LEMMA BufferEnds ==
  ASSUME NEW b, Buffer(b), b # <<>>
  PROVE  /\ LastLine(b) \in Nat
         /\ Home \in Cursors(b) /\ BufferEnd(b) \in Cursors(b)
         /\ Pos(LastLine(b), Max({0, Width(b, LastLine(b)) - 1})) \in Cursors(b)
<1> DEFINE L == LastLine(b)
           w == Width(b, L)
           last == Max({0, w - 1})
<1>1. L \in Nat
  BY DEF LastLine, Buffer
<1>2. \A l : Width(b, l) \in Nat
  BY TextTyping
<1>3. w \in Nat /\ Width(b, 0) \in Nat
  BY <1>2
<1> HIDE DEF L, w
<1>4. last = IF 0 <= w - 1 THEN w - 1 ELSE 0
  BY <1>3, MaxPair
<1>5. last \in Nat /\ last <= w
  BY <1>3, <1>4
<1> HIDE DEF last
<1>6. Home \in Cursors(b)
  <2>1. Home \in Places /\ Home.line = 0 /\ Home.col = 0
    BY DEF Home, Pos, Places
  <2> QED BY <2>1, <1>1, <1>3, CursorsAre DEF L
<1>7. Pos(L, w) \in Cursors(b)
  <2>1. Pos(L, w) \in Places /\ Pos(L, w).line = L /\ Pos(L, w).col = w
    BY <1>1, <1>3 DEF Pos, Places
  <2> QED BY <2>1, <1>1, <1>3, CursorsAre DEF L, w
<1>8. Pos(L, last) \in Cursors(b)
  <2>1. Pos(L, last) \in Places /\ Pos(L, last).line = L /\ Pos(L, last).col = last
    BY <1>1, <1>5 DEF Pos, Places
  <2> QED BY <2>1, <1>1, <1>5, CursorsAre DEF L, w
<1> QED BY <1>1, <1>6, <1>7, <1>8 DEF BufferEnd, L, w, last

\* w leads to a place in the buffer.
LEMMA ForwardInBuffer ==
  ASSUME NEW b, Buffer(b), b # <<>>, NEW p, NEW bg
  PROVE  WordForwardOnce(b, p, bg) \in Cursors(b)
<1> DEFINE atEnd == p.col >= Width(b, p.line)
           q == IF atEnd THEN Pos(p.line + 1, 0) ELSE p
           r == IF q \in Solid(b) THEN Pos(q.line, Max(Run(b, q, bg)) + 1) ELSE q
           ahead == {x \in Solid(b) : ~Before(x, r)}
<1>1. ahead \subseteq Places /\ ahead \subseteq Cursors(b)
  BY SolidAre
<1>2. WordForwardOnce(b, p, bg)
        = IF (atEnd /\ p.line >= LastLine(b)) \/ ahead = {} THEN BufferEnd(b) ELSE Least(ahead)
  BY Zenon DEF WordForwardOnce
<1> HIDE DEF ahead, atEnd
<1>3. ahead # {} => Least(ahead) \in Cursors(b)
  BY <1>1, LeastIs
<1> QED BY <1>2, <1>3, BufferEnds

\* b leads to a place in the buffer.
LEMMA BackwardInBuffer ==
  ASSUME NEW b, Buffer(b), b # <<>>, NEW p, NEW bg
  PROVE  WordBackwardOnce(b, p, bg) \in Cursors(b)
<1> DEFINE behind == {q \in Solid(b) : ~Before(StepBack(b, p), q)}
           q == Greatest(behind)
           to == Pos(q.line, Min(Run(b, q, bg)))
<1>1. behind \subseteq Chars(b)
  BY SolidAre
<1>2. WordBackwardOnce(b, p, bg) = IF p = Home \/ behind = {} THEN Home ELSE to
  BY Zenon DEF WordBackwardOnce
<1> HIDE DEF behind
<1>3. behind # {} => to \in Cursors(b)
  <2>1. SUFFICES ASSUME behind # {} PROVE to \in Cursors(b)
    OBVIOUS
  <2>2. q \in Chars(b)
    BY <1>1, <2>1, GreatestIs
  <2> HIDE DEF q
  <2>3. Min(Run(b, q, bg)) \in 0 .. Width(b, q.line) - 1
    BY <2>2, RunIs
  <2>4. q.line \in 0 .. LastLine(b) /\ Width(b, q.line) \in Nat /\ LastLine(b) \in Int
    BY <2>2, SolidAre, TextTyping
  <2>5. to \in Places /\ to.line = q.line /\ to.col = Min(Run(b, q, bg))
    BY <2>3, <2>4 DEF Pos, Places
  <2> HIDE DEF to
  <2> QED BY <2>3, <2>4, <2>5, CursorsAre
<1> QED BY <1>2, <1>3, BufferEnds

\* e leads to a place in the buffer.
LEMMA EndInBuffer ==
  ASSUME NEW b, Buffer(b), b # <<>>, NEW p, NEW bg
  PROVE  WordEndForwardOnce(b, p, bg) \in Cursors(b)
<1> DEFINE r == CASE p.col < Width(b, p.line) -> Pos(p.line, p.col + 1)
                  [] p.col >= Width(b, p.line) /\ p.line < LastLine(b) -> Pos(p.line + 1, 0)
                  [] OTHER -> p
           ahead == {x \in Solid(b) : ~Before(x, r)}
           q == Least(ahead)
           to == Pos(q.line, Max(Run(b, q, bg)))
           end == Pos(LastLine(b), Max({0, Width(b, LastLine(b)) - 1}))
<1>1. ahead \subseteq Places /\ ahead \subseteq Chars(b)
  BY SolidAre
<1>2. WordEndForwardOnce(b, p, bg) = IF ahead = {} THEN end ELSE to
  BY Zenon DEF WordEndForwardOnce
<1> HIDE DEF ahead
<1>3. ahead # {} => to \in Cursors(b)
  <2>1. SUFFICES ASSUME ahead # {} PROVE to \in Cursors(b)
    OBVIOUS
  <2>2. q \in Chars(b)
    BY <1>1, <2>1, LeastIs
  <2> HIDE DEF q
  <2>3. Max(Run(b, q, bg)) \in 0 .. Width(b, q.line) - 1
    BY <2>2, RunIs
  <2>4. q.line \in 0 .. LastLine(b) /\ Width(b, q.line) \in Nat /\ LastLine(b) \in Int
    BY <2>2, SolidAre, TextTyping
  <2>5. to \in Places /\ to.line = q.line /\ to.col = Max(Run(b, q, bg))
    BY <2>3, <2>4 DEF Pos, Places
  <2> HIDE DEF to
  <2> QED BY <2>3, <2>4, <2>5, CursorsAre
<1>4. end \in Cursors(b)
  BY BufferEnds
<1> HIDE DEF to, end
<1> QED BY <1>2, <1>3, <1>4

\* ge leads to a place in the buffer.
LEMMA EndBackInBuffer ==
  ASSUME NEW b, Buffer(b), b # <<>>, NEW p, NEW bg
  PROVE  WordEndBackwardOnce(b, p, bg) \in Cursors(b)
<1> DEFINE behind == {q \in Solid(b) : ~Before(StepBack(b, p), q)}
<1>1. behind \subseteq Chars(b) /\ Chars(b) \subseteq Cursors(b)
  BY SolidAre
<1>2. WordEndBackwardOnce(b, p, bg) = IF p = Home \/ behind = {} THEN Home ELSE Greatest(behind)
  BY Zenon DEF WordEndBackwardOnce
<1> HIDE DEF behind
<1>3. behind # {} => Greatest(behind) \in Cursors(b)
  BY <1>1, GreatestIs
<1> QED BY <1>2, <1>3, BufferEnds

\* A word motion done n times leads to a place.
LEMMA StepsTyping ==
  ASSUME NEW b, Buffer(b), b # <<>>, NEW key \in {"w", "b", "e", "ge"}, NEW p \in Places, NEW bg,
         NEW n \in Nat
  PROVE  Steps(key, b, p, bg, n) \in Places
<1> DEFINE once(q) == CASE key = "w" -> WordForwardOnce(b, q, bg)
                        [] key = "b" -> WordBackwardOnce(b, q, bg)
                        [] key = "e" -> WordEndForwardOnce(b, q, bg)
                        [] key = "ge" -> WordEndBackwardOnce(b, q, bg)
           F == [q \in Places \X Nat |-> once(q[1])]
           IsWalk(f) == f = [i \in 0 .. n |-> IF i = 0 THEN p ELSE once(f[i - 1])]
           walk == CHOOSE f : IsWalk(f)
<1>1. Cursors(b) \subseteq Places
  BY CursorsAre
<1>2. ASSUME NEW q PROVE once(q) \in Places
  <2>1. /\ WordForwardOnce(b, q, bg) \in Places /\ WordBackwardOnce(b, q, bg) \in Places
        /\ WordEndForwardOnce(b, q, bg) \in Places /\ WordEndBackwardOnce(b, q, bg) \in Places
    BY <1>1, ForwardInBuffer, BackwardInBuffer, EndInBuffer, EndBackInBuffer
  <2> QED BY <2>1
<1>3. F \in [Places \X Nat -> Places]
  <2> HIDE DEF once
  <2> QED BY <1>2
<1>4. PICK g : IsLoop(Places, F, p, n, g)
  <2> HIDE DEF F
  <2> QED BY <1>3, LoopExists
<1>5. /\ g \in [0 .. n -> Places] /\ g[0] = p
      /\ \A i \in 0 .. n - 1 : g[i + 1] = F[<<g[i], i + 1>>]
      /\ \A i \in 0 .. n : g[i] \in Places
  BY <1>4 DEF IsLoop
<1>6. ASSUME NEW i \in 0 .. n PROVE g[i] = IF i = 0 THEN p ELSE once(g[i - 1])
  <2> HIDE DEF once
  <2>1. CASE i = 0
    BY <2>1, <1>5
  <2>2. CASE i # 0
    <3>1. i - 1 \in 0 .. n - 1 /\ i - 1 \in 0 .. n /\ (i - 1) + 1 = i /\ i \in Nat
      BY <2>2
    <3>2. g[i - 1] \in Places
      BY <3>1, <1>5
    <3>3. g[i] = F[<<g[i - 1], i>>]
      BY <3>1, <1>5
    <3> QED BY <3>1, <3>2, <3>3, <2>2
  <2> QED BY <2>1, <2>2
<1>7. IsWalk(g)
  <2> HIDE DEF once
  <2> QED BY <1>5, <1>6
<1>8. IsWalk(walk)
  <2> HIDE DEF IsWalk
  <2> QED BY <1>7, Zenon
<1>9. n \in 0 .. n /\ (n # 0 => n - 1 \in 0 .. n)
  OBVIOUS
<1>10. walk[n] \in Places
  <2> HIDE DEF once, walk
  <2> QED BY <1>2, <1>8, <1>9
<1>11. Steps(key, b, p, bg, n) = walk[n]
  BY Zenon DEF Steps
<1> QED BY <1>10, <1>11

\* Sets that grow by one element at most, from none to A[w].
Chain(A, w) ==
  /\ IsFiniteSet(A[w]) /\ A[0] = {}
  /\ \A i \in 0 .. w - 1 : A[i] \subseteq A[i + 1] /\ \E x : A[i + 1] \subseteq A[i] \cup {x}
  /\ \A i \in 0 .. w : A[i] \subseteq A[w]
Reaches(A, j, k) == Cardinality(A[j]) = k /\ A[j] # A[j - 1]

\* Such a chain has a set of each size.
LEMMA ChainRank ==
  ASSUME NEW w \in Nat, NEW A, Chain(A, w), NEW k, k \in 1 .. Cardinality(A[w])
  PROVE  \E j \in 1 .. w : Reaches(A, j, k)
<1> DEFINE g(j) == Cardinality(A[j])
           J == {j \in 0 .. w : g(j) >= k}
<1>0. /\ IsFiniteSet(A[w]) /\ A[0] = {}
      /\ \A i \in 0 .. w - 1 : A[i] \subseteq A[i + 1] /\ \E x : A[i + 1] \subseteq A[i] \cup {x}
      /\ \A i \in 0 .. w : A[i] \subseteq A[w]
  BY DEF Chain
<1>1. \A i \in 0 .. w : IsFiniteSet(A[i]) /\ g(i) \in Nat
  BY <1>0, FS_Subset, FS_CardinalityType
<1>2. w \in J /\ J \subseteq Nat /\ J # {}
  BY <1>1
<1>3. PICK j \in J : \A i \in J : j <= i
  <2> HIDE DEF J
  <2> QED BY <1>2, LeastOf
<1>4. g(0) = 0
  BY <1>0, FS_EmptySet
<1>5. j # 0 /\ j \in 1 .. w
  <2>1. 0 \notin J
    BY <1>4
  <2> QED BY <2>1
<1>6. PICK i \in 0 .. w - 1 : j = i + 1
  <2>1. j - 1 \in 0 .. w - 1 /\ j = (j - 1) + 1
    BY <1>5
  <2> QED BY <2>1
<1>7. i \in 0 .. w /\ i \notin J
  BY <1>3, <1>6
<1>8. g(i) < k
  BY <1>1, <1>7
<1>9. g(j) >= k /\ g(j) \in Nat
  BY <1>1
<1>10. PICK x : A[i + 1] \subseteq A[i] \cup {x}
  BY <1>0
<1>11. g(j) <= g(i) + 1
  <2>1. IsFiniteSet(A[i])
    BY <1>1, <1>7
  <2>2. IsFiniteSet(A[i] \cup {x}) /\ Cardinality(A[i] \cup {x}) <= Cardinality(A[i]) + 1
    <3>1. /\ IsFiniteSet(A[i] \cup {x})
          /\ Cardinality(A[i] \cup {x}) = IF x \in A[i] THEN Cardinality(A[i]) ELSE Cardinality(A[i]) + 1
      BY <2>1, FS_AddElement
    <3>2. Cardinality(A[i]) \in Nat
      BY <2>1, FS_CardinalityType
    <3> QED BY <3>1, <3>2
  <2>3. Cardinality(A[i + 1]) <= Cardinality(A[i] \cup {x})
    BY <1>10, <2>2, FS_Subset
  <2>4. Cardinality(A[i + 1]) \in Nat /\ Cardinality(A[i] \cup {x}) \in Nat /\ Cardinality(A[i]) \in Nat
    BY <1>1, <1>6, <1>7, <1>9, <2>2, FS_CardinalityType
  <2> QED BY <1>6, <2>2, <2>3, <2>4
<1>12. g(j) = k /\ g(j) # g(i)
  BY <1>1, <1>7, <1>8, <1>9, <1>11
<1>13. A[j] # A[j - 1]
  <2>1. j - 1 = i
    BY <1>6
  <2> QED BY <2>1, <1>12
<1> QED BY <1>5, <1>12, <1>13 DEF Reaches

Columns(S, w) == S \subseteq 0 .. w - 1
FromLeft(S, c) == {d \in S : d <= c}
FromRight(S, c) == {d \in S : d >= c}

\* Counted from either side, a set of columns has a kth one.
LEMMA Ranked ==
  ASSUME NEW w \in Nat, NEW S, Columns(S, w), NEW k, k \in 1 .. Cardinality(S)
  PROVE  /\ \E c \in S : Cardinality(FromLeft(S, c)) = k
         /\ \E c \in S : Cardinality(FromRight(S, c)) = k
<1>1. IsFiniteSet(S)
  <2>1. IsFiniteSet(0 .. w - 1)
    BY FS_Interval
  <2> QED BY <2>1, FS_Subset DEF Columns
<1>0. \A d \in S : d \in Int /\ 0 <= d /\ d < w
  BY DEF Columns
<1>2. \E c \in S : Cardinality(FromLeft(S, c)) = k
  <2> DEFINE A == [j \in 0 .. w |-> {d \in S : d < j}]
  <2>1. A[0] = {} /\ A[w] = S
    <3>1. A[0] = {d \in S : d < 0} /\ A[w] = {d \in S : d < w}
      OBVIOUS
    <3> HIDE DEF A
    <3>2. \A d \in S : ~(d < 0) /\ d < w
      BY <1>0
    <3> QED BY <3>1, <3>2
  <2>2. \A i \in 0 .. w - 1 : A[i] \subseteq A[i + 1] /\ \E x : A[i + 1] \subseteq A[i] \cup {x}
    <3> TAKE i \in 0 .. w - 1
    <3>1. A[i] = {d \in S : d < i} /\ A[i + 1] = {d \in S : d < i + 1}
      OBVIOUS
    <3> HIDE DEF A
    <3>2. \A d \in S : (d < i => d < i + 1) /\ (d < i + 1 => d < i \/ d = i)
      BY <1>0
    <3>3. A[i] \subseteq A[i + 1] /\ A[i + 1] \subseteq A[i] \cup {i}
      BY <3>1, <3>2
    <3> QED BY <3>3
  <2>3. \A i \in 0 .. w : A[i] \subseteq A[w]
    BY <2>1
  <2>4. PICK j \in 1 .. w : Reaches(A, j, k)
    <3> HIDE DEF A
    <3>1. Chain(A, w) /\ k \in 1 .. Cardinality(A[w])
      BY <1>1, <2>1, <2>2, <2>3 DEF Chain
    <3> QED BY <3>1, ChainRank
  <2>5. A[j] = {d \in S : d < j} /\ A[j - 1] = {d \in S : d < j - 1}
    OBVIOUS
  <2>6. j - 1 \in S
    <3> HIDE DEF A
    <3>1. \A d \in S : d < j => d < j - 1 \/ d = j - 1
      BY <1>0
    <3>2. \A d \in S : d < j - 1 => d < j
      BY <1>0
    <3> QED BY <2>4, <2>5, <3>1, <3>2 DEF Reaches
  <2>7. {d \in S : d <= j - 1} = A[j]
    <3> HIDE DEF A
    <3>1. \A d \in S : d <= j - 1 <=> d < j
      BY <1>0
    <3> QED BY <2>5, <3>1
  <2> HIDE DEF A
  <2> QED BY <2>4, <2>6, <2>7 DEF Reaches, FromLeft
<1>3. \E c \in S : Cardinality(FromRight(S, c)) = k
  <2> DEFINE A == [j \in 0 .. w |-> {d \in S : d >= w - j}]
  <2>1. A[0] = {} /\ A[w] = S
    <3>1. \A i \in 0 .. w : A[i] = {d \in S : d >= w - i}
      OBVIOUS
    <3> HIDE DEF A
    <3>2. A[0] = {d \in S : d >= w - 0} /\ A[w] = {d \in S : d >= w - w}
      BY <3>1
    <3>3. \A d \in S : ~(d >= w - 0) /\ d >= w - w
      BY <1>0
    <3> QED BY <3>2, <3>3
  <2>2. \A i \in 0 .. w - 1 : A[i] \subseteq A[i + 1] /\ \E x : A[i + 1] \subseteq A[i] \cup {x}
    <3> TAKE i \in 0 .. w - 1
    <3>1. i \in 0 .. w /\ i + 1 \in 0 .. w
      OBVIOUS
    <3>2. A[i] = {d \in S : d >= w - i} /\ A[i + 1] = {d \in S : d >= w - (i + 1)}
      BY <3>1
    <3> HIDE DEF A
    <3> DEFINE x == w - (i + 1)
    <3>4. \A d \in S : (d >= w - i => d >= x) /\ (d >= x => d >= w - i \/ d = x)
      BY <1>0
    <3> HIDE DEF x
    <3>3. A[i] \subseteq A[i + 1] /\ A[i + 1] \subseteq A[i] \cup {x}
      BY <3>2, <3>4 DEF x
    <3> QED BY <3>3
  <2>3. \A i \in 0 .. w : A[i] \subseteq A[w]
    BY <2>1
  <2>4. PICK j \in 1 .. w : Reaches(A, j, k)
    <3> HIDE DEF A
    <3>1. Chain(A, w) /\ k \in 1 .. Cardinality(A[w])
      BY <1>1, <2>1, <2>2, <2>3 DEF Chain
    <3> QED BY <3>1, ChainRank
  <2>5. A[j] = {d \in S : d >= w - j} /\ A[j - 1] = {d \in S : d >= w - (j - 1)}
    OBVIOUS
  <2>6. w - j \in S
    <3> HIDE DEF A
    <3>1. \A d \in S : d >= w - j => d >= w - (j - 1) \/ d = w - j
      BY <1>0
    <3>2. \A d \in S : d >= w - (j - 1) => d >= w - j
      BY <1>0
    <3> QED BY <2>4, <2>5, <3>1, <3>2 DEF Reaches
  <2> HIDE DEF A
  <2> QED BY <2>4, <2>5, <2>6 DEF Reaches, FromRight
<1> QED BY <1>2, <1>3

\* A counted find answers with a column, or that there is none.
LEMMA FindColTyping ==
  ASSUME NEW b, Buffer(b), NEW p, NEW ch, NEW forward \in BOOLEAN, NEW till \in BOOLEAN,
         NEW n \in Nat \ {0}
  PROVE  FindCol(b, p, ch, forward, till, n) \in Int
<1> DEFINE found == {c \in 0 .. Width(b, p.line) - 1 :
                       /\ Text(b, p.line)[c + 1] = ch
                       /\ IF forward THEN c > p.col ELSE c < p.col}
           passed(c) == {d \in found : IF forward THEN d <= c ELSE d >= c}
           nth == {c \in found : Cardinality(passed(c)) = Min({n, Cardinality(found)})}
           at1 == CHOOSE c \in nth : TRUE
<1>1. Width(b, p.line) \in Nat /\ found \subseteq 0 .. Width(b, p.line) - 1
  BY TextTyping
<1>2. FindCol(b, p, ch, forward, till, n)
        = CASE found = {} -> NoFind
            [] found # {} /\ ~till -> at1
            [] OTHER -> IF forward THEN at1 - 1 ELSE at1 + 1
  BY Zenon DEF FindCol
<1> HIDE DEF found
<1>3. ASSUME found # {} PROVE at1 \in Int
  <2>1. IsFiniteSet(found) /\ Cardinality(found) \in Nat /\ Cardinality(found) # 0
    <3>1. IsFiniteSet(0 .. Width(b, p.line) - 1)
      BY <1>1, FS_Interval
    <3>2. IsFiniteSet(found)
      BY <1>1, <3>1, FS_Subset
    <3> QED BY <3>2, <1>3, FS_CardinalityType, FS_EmptySet
  <2> DEFINE k == Min({n, Cardinality(found)})
  <2>2. k \in 1 .. Cardinality(found)
    BY <2>1, MinPair
  <2> HIDE DEF k
  <2> DEFINE w == Width(b, p.line)
  <2>7. w \in Nat /\ Columns(found, w)
    BY <1>1 DEF Columns
  <2>3. PICK lo \in found : Cardinality(FromLeft(found, lo)) = k
    BY <2>2, <2>7, Ranked
  <2>4. PICK hi \in found : Cardinality(FromRight(found, hi)) = k
    BY <2>2, <2>7, Ranked
  <2>5. nth # {}
    <3>1. CASE forward
      <4>1. lo \in nth
        BY <2>3, <3>1 DEF k, FromLeft
      <4> QED BY <4>1
    <3>2. CASE ~forward
      <4>1. hi \in nth
        BY <2>4, <3>2 DEF k, FromRight
      <4> QED BY <4>1
    <3> QED BY <3>1, <3>2
  <2>6. nth \subseteq Int
    <3>1. found \subseteq Int
      BY <1>1
    <3> QED BY <3>1
  <2> HIDE DEF nth
  <2> QED BY <2>5, <2>6
<1> HIDE DEF at1
<1>4. NoFind \in Int
  BY DEF NoFind
<1> QED BY <1>2, <1>3, <1>4

-----------------------------------------------------------------------------
(* The inductive invariant of the panel: what its properties need to hold  *)
(* after every step.                                                       *)

DocOK == orig \in Logs \cup {<<>>} /\ json \in BOOLEAN /\ Buffer(raw)
LookOK == size \in Sizes /\ wrap \in BOOLEAN /\ gutter \in BOOLEAN /\ inCopy \in BOOLEAN
FlagsOK == sticky \in BOOLEAN /\ paused \in BOOLEAN /\ crashed \in BOOLEAN /\ copying \in BOOLEAN
PlacesOK == /\ cur \in Places /\ drag.at \in Places /\ drag.pressed \in BOOLEAN
            /\ sel.mode \in {"none", "char", "line"} /\ sel.anchor \in Places
Sought(s) == s.forward \in BOOLEAN /\ s.till \in BOOLEAN
\* An object key is awaited only for an operator.
CommandOK == /\ pend \in {"none", "g", "find", "i", "a"} /\ op \in BOOLEAN
             /\ (pend = "i" \/ pend = "a") => op
             /\ count \in 0 .. MaxCount /\ Sought(find) /\ Sought(lastFind)
HitsOK == /\ filter \in Filters \cup {NoFilter}
          /\ hits = Matches(raw, filter) /\ hit \in 0 .. Len(hits)
RowsOK == RowsGood(rows, raw, wrap, paintedAt) /\ paintedAt \in Nat \ {0}
WindowOK == yoff \in 0 .. Len(rows)
SelectionOK == HasSel(sel) => shown = Overlay(raw, sel, cur)
PanelInv == /\ DocOK /\ LookOK /\ FlagsOK /\ PlacesOK /\ CommandOK
            /\ HitsOK /\ RowsOK /\ WindowOK /\ SelectionOK

\* What a step does not touch stays good.
LEMMA DocKept == ASSUME DocOK, UNCHANGED docVars PROVE DocOK'
BY DEF DocOK, docVars

\* A step that leaves the pending command alone leaves it well formed.
LEMMA CommandKept == ASSUME CommandOK, UNCHANGED cmdVars PROVE CommandOK'
BY DEF CommandOK, cmdVars

\* A step that leaves the cursor and the selection alone leaves them places.
LEMMA PlacesKept == ASSUME PlacesOK, UNCHANGED <<cur, sel, drag>> PROVE PlacesOK'
BY DEF PlacesOK

\* With the document and the matches untouched the matches stay current.
LEMMA HitsKept == ASSUME HitsOK, UNCHANGED raw, UNCHANGED findVars PROVE HitsOK'
BY DEF HitsOK, findVars

\* A step that changes nothing a paint reads keeps the painted rows good.
LEMMA RowsKept ==
  ASSUME RowsOK, WindowOK, SelectionOK, UNCHANGED paintVars, UNCHANGED yoff,
         UNCHANGED <<raw, wrap, sel, cur>>
  PROVE  RowsOK' /\ WindowOK' /\ SelectionOK'
BY DEF RowsOK, WindowOK, SelectionOK, paintVars

\* Panes are panes, and rows are a sequence.
LEMMA SizesArePanes == \A s \in Sizes : Pane(s)
BY PanelAssumption DEF Pane

\* What the rows are, in the form the step lemmas use.
LEMMA RowsTyping ==
  ASSUME RowsOK
  PROVE  /\ rows \in Seq(Row) /\ Len(rows) \in Nat /\ DOMAIN rows = 1 .. Len(rows)
         /\ \A k \in 1 .. Len(rows) : rows[k].line \in Nat /\ rows[k].from \in Int /\ rows[k].to \in Int
<1>1. rows \in Seq(Row)
  BY DEF RowsOK, RowsGood
<1>2. \A k \in 1 .. Len(rows) : rows[k] \in Row
  BY <1>1
<1> QED BY <1>1, <1>2 DEF Row

\* A paint leaves good rows and the selection highlighted.
LEMMA PaintKeeps ==
  ASSUME Paint, DocOK', LookOK'
  PROVE  RowsOK' /\ SelectionOK' /\ crashed' \in BOOLEAN
<1>1. Pane(size')
  BY SizesArePanes DEF LookOK
<1>2. RowsOK'
  BY <1>1, PaintRows DEF DocOK, LookOK, RowsOK, Pane
<1>3. SelectionOK'
  BY DEF Paint, SelectionOK
<1>4. crashed' \in BOOLEAN
  BY Zenon DEF Paint
<1> QED BY <1>2, <1>3, <1>4

\* An offset brought into the range of the rows stays over them.
LEMMA WithinKeeps ==
  ASSUME RowsOK', LookOK', NEW n \in Int
  PROVE  Within(n, rows', size') \in 0 .. Len(rows') /\ Bottom(rows', size') \in 0 .. Len(rows')
<1>1. Pane(size') /\ Len(rows') \in Nat
  <2>1. rows' \in Seq(Row)
    BY DEF RowsOK, RowsGood
  <2> QED BY <2>1, SizesArePanes DEF LookOK
<1> QED BY <1>1, WithinIs

\* An offset that is kept over a repaint is one the new rows allow.
LEMMA OffsetKept ==
  ASSUME RowsOK, WindowOK, RowsOK', LookOK', KeepOffset
  PROVE  WindowOK'
<1>1. yoff \in Int
  BY RowsTyping DEF WindowOK
<1> QED BY <1>1, WithinKeeps DEF KeepOffset, WindowOK

\* renderContent leaves the matches of the lines it was given.
LEMMA RenderKeeps ==
  ASSUME Render, DocOK', LookOK', filter' \in Filters \cup {NoFilter}
  PROVE  HitsOK' /\ RowsOK' /\ SelectionOK' /\ crashed' \in BOOLEAN
<1>1. RowsOK' /\ SelectionOK' /\ crashed' \in BOOLEAN
  BY PaintKeeps DEF Render
<1>2. Len(hits') \in Nat
  <2>1. hits' \in Seq(Nat)
    BY MatchesAre DEF Render, DocOK, FoundIn
  <2> QED BY <2>1
<1>3. HitsOK'
  BY <1>2 DEF Render, HitsOK
<1> QED BY <1>1, <1>3

-----------------------------------------------------------------------------
(* The steps of the window.                                                *)

\* The window's bounds as they are before a step.
LEMMA WindowBounds ==
  ASSUME RowsOK, LookOK, NEW n \in Int
  PROVE  Within(n, rows, size) \in 0 .. Len(rows) /\ Bottom(rows, size) \in 0 .. Len(rows)
         /\ VpHeight(size) \in Nat \ {0}
<1>1. Pane(size) /\ Len(rows) \in Nat
  BY RowsTyping, SizesArePanes DEF LookOK
<1> QED BY <1>1, WithinIs

\* A step that renders and keeps the offset keeps the invariant.
LEMMA RenderStep ==
  ASSUME PanelInv, Render, KeepOffset, DocOK', LookOK', FlagsOK' \/ UNCHANGED <<sticky, paused, copying>>,
         PlacesOK', CommandOK', UNCHANGED filter
  PROVE  PanelInv'
<1>1. filter' \in Filters \cup {NoFilter}
  BY DEF PanelInv, HitsOK
<1>2. HitsOK' /\ RowsOK' /\ SelectionOK' /\ crashed' \in BOOLEAN
  BY <1>1, RenderKeeps
<1>3. WindowOK'
  BY <1>2, OffsetKept DEF PanelInv
<1>4. FlagsOK'
  BY <1>2 DEF PanelInv, FlagsOK
<1> QED BY <1>2, <1>3, <1>4 DEF PanelInv

\* A step that paints and keeps the offset keeps the invariant.
LEMMA PaintStep ==
  ASSUME PanelInv, Paint, KeepOffset, UNCHANGED docVars, LookOK',
         FlagsOK' \/ UNCHANGED <<sticky, paused, copying>>,
         PlacesOK', CommandOK', UNCHANGED findVars
  PROVE  PanelInv'
<1>1. DocOK'
  BY DocKept DEF PanelInv
<1>2. RowsOK' /\ SelectionOK' /\ crashed' \in BOOLEAN
  BY <1>1, PaintKeeps
<1>3. WindowOK'
  BY <1>2, OffsetKept DEF PanelInv
<1>4. FlagsOK'
  BY <1>2 DEF PanelInv, FlagsOK
<1>5. HitsOK'
  BY HitsKept DEF PanelInv, docVars
<1> QED BY <1>1, <1>2, <1>3, <1>4, <1>5 DEF PanelInv

\* The log tick.
LEMMA SetLinesStep ==
  ASSUME PanelInv, NEW lines \in Logs, SetLines(lines)
  PROVE  PanelInv'
<1>1. Buffer(Display(lines, json)) /\ json \in BOOLEAN
  BY PanelAssumption, LinesAreBuffers, DisplayTyping DEF PanelInv, DocOK
<1>2. DocOK'
  BY <1>1 DEF SetLines, DocOK
<1>3. LookOK'
  BY DEF SetLines, PanelInv, LookOK, lookVars, NoYank
<1>4. PlacesOK' /\ CommandOK'
  BY PlacesKept, CommandKept DEF SetLines, PanelInv
<1>5. Render /\ UNCHANGED filter /\ filter \in Filters \cup {NoFilter}
  BY DEF SetLines, PanelInv, HitsOK
<1>6. HitsOK' /\ RowsOK' /\ SelectionOK' /\ crashed' \in BOOLEAN
  BY <1>2, <1>3, <1>5, RenderKeeps
<1>7. FlagsOK'
  BY <1>6 DEF SetLines, PanelInv, FlagsOK, NoYank
<1>8. WindowOK'
  <2>1. yoff \in Int
    BY RowsTyping DEF PanelInv, WindowOK
  <2>2. UNCHANGED size
    BY DEF SetLines, lookVars
  <2>3. /\ Within(yoff, rows', size) \in 0 .. Len(rows')
        /\ Bottom(rows', size) \in 0 .. Len(rows')
    BY <1>3, <1>6, <2>1, <2>2, WithinKeeps
  <2>4. yoff' = IF sticky /\ ~paused /\ ~HasSel(sel) THEN Bottom(rows', size)
                ELSE Within(yoff, rows', size)
    BY DEF SetLines
  <2> QED BY <2>3, <2>4 DEF WindowOK
<1> QED BY <1>2, <1>3, <1>4, <1>6, <1>7, <1>8 DEF PanelInv

\* Pretty-printing.
LEMMA SetJSONPrettyStep == ASSUME PanelInv, SetJSONPretty PROVE PanelInv'
<1>1. Buffer(orig)
  <2>1. <<>> \in Seq(Seq(STRING))
    OBVIOUS
  <2>2. orig \in Seq(Seq(STRING))
    BY <2>1, PanelAssumption DEF PanelInv, DocOK
  <2> QED BY <2>2, LinesAreBuffers
<1>2. json' \in BOOLEAN /\ Buffer(Display(orig, json'))
  <2>1. json' \in BOOLEAN
    BY DEF SetJSONPretty, PanelInv, DocOK
  <2> QED BY <1>1, <2>1, DisplayTyping
<1>3. DocOK'
  BY <1>2 DEF SetJSONPretty, PanelInv, DocOK
<1>4. LookOK' /\ UNCHANGED <<sticky, paused, copying>>
  BY DEF SetJSONPretty, PanelInv, LookOK, lookVars, NoYank
<1>5. PlacesOK' /\ CommandOK'
  BY PlacesKept, CommandKept DEF SetJSONPretty, PanelInv
<1>6. Render /\ KeepOffset /\ UNCHANGED filter
  BY DEF SetJSONPretty
<1> QED BY <1>3, <1>4, <1>5, <1>6, RenderStep

\* The gutter.
LEMMA SetGutterStep == ASSUME PanelInv, SetGutter PROVE PanelInv'
<1>1. DocOK'
  BY DocKept DEF SetGutter, PanelInv
<1>2. LookOK' /\ UNCHANGED <<sticky, paused, copying>>
  BY DEF SetGutter, PanelInv, LookOK, NoYank
<1>3. PlacesOK' /\ CommandOK'
  BY PlacesKept, CommandKept DEF SetGutter, PanelInv
<1>4. Render /\ KeepOffset /\ UNCHANGED filter
  BY DEF SetGutter
<1> QED BY <1>1, <1>2, <1>3, <1>4, RenderStep

\* Wrapping.
LEMMA SetWrapStep == ASSUME PanelInv, SetWrap PROVE PanelInv'
<1>1. LookOK' /\ UNCHANGED <<sticky, paused, copying>>
  BY DEF SetWrap, PanelInv, LookOK, NoYank
<1>2. PlacesOK' /\ CommandOK'
  BY PlacesKept, CommandKept DEF SetWrap, PanelInv
<1>3. Paint /\ KeepOffset /\ UNCHANGED docVars /\ UNCHANGED findVars
  BY DEF SetWrap
<1> QED BY <1>1, <1>2, <1>3, PaintStep

\* Steps that touch nothing that is shown.
LEMMA QuietStep ==
  ASSUME PanelInv, UNCHANGED docVars, UNCHANGED paintVars, UNCHANGED yoff, UNCHANGED wrap, LookOK',
         FlagsOK', UNCHANGED <<cur, sel, drag>>, CommandOK', UNCHANGED findVars
  PROVE  PanelInv'
<1>1. DocOK' /\ PlacesOK' /\ HitsOK'
  BY DocKept, PlacesKept, HitsKept DEF PanelInv, docVars
<1>2. RowsOK' /\ WindowOK' /\ SelectionOK'
  BY RowsKept DEF PanelInv, docVars
<1> QED BY <1>1, <1>2 DEF PanelInv

\* A new size.
LEMMA SetSizeStep == ASSUME PanelInv, NEW s \in Sizes, SetSize(s) PROVE PanelInv'
<1>1. LookOK' /\ FlagsOK'
  BY DEF SetSize, PanelInv, LookOK, FlagsOK, NoYank, paintVars
<1>2. CommandOK'
  BY CommandKept DEF SetSize, PanelInv
<1> QED BY <1>1, <1>2, QuietStep DEF SetSize

\* Scrolling.
LEMMA ScrollStep ==
  ASSUME PanelInv, WindowOK', sticky' \in BOOLEAN, UNCHANGED <<paused, copying>>,
         UNCHANGED docVars, UNCHANGED paintVars, UNCHANGED lookVars, UNCHANGED inCopy,
         UNCHANGED <<cur, sel, drag>>, UNCHANGED findVars, UNCHANGED cmdVars
  PROVE  PanelInv'
<1>1. DocOK' /\ PlacesOK' /\ HitsOK' /\ CommandOK'
  BY DocKept, PlacesKept, HitsKept, CommandKept DEF PanelInv, docVars
<1>2. LookOK' /\ FlagsOK'
  BY DEF PanelInv, LookOK, FlagsOK, lookVars, paintVars
<1>3. RowsOK' /\ SelectionOK'
  BY DEF PanelInv, RowsOK, SelectionOK, docVars, lookVars, paintVars
<1> QED BY <1>1, <1>2, <1>3 DEF PanelInv

\* Scrolling to an offset, clamped as the viewport clamps it.
LEMMA ScrollToStep ==
  ASSUME PanelInv, NEW n \in Int, NEW follow \in BOOLEAN, ScrollTo(n, follow)
  PROVE  PanelInv'
<1>1. Within(n, rows, size) \in 0 .. Len(rows)
  BY WindowBounds DEF PanelInv
<1>2. WindowOK'
  BY <1>1 DEF ScrollTo, WindowOK, paintVars
<1> QED BY <1>2, ScrollStep DEF ScrollTo, NoYank

\* The scrolling keys.
LEMMA ScrollKeysStep == ASSUME PanelInv, ScrollBack \/ ScrollOn \/ ScrollEnd PROVE PanelInv'
<1>1. yoff \in Int /\ VpHeight(size) \in Int /\ sticky \in BOOLEAN /\ Bottom(rows, size) \in Int
  <2>1. 0 \in Int
    OBVIOUS
  <2>2. VpHeight(size) \in Nat \ {0} /\ Bottom(rows, size) \in 0 .. Len(rows)
    BY <2>1, WindowBounds DEF PanelInv
  <2> QED BY <2>2, RowsTyping DEF PanelInv, WindowOK, FlagsOK
<1>2. CASE ScrollBack
  <2>1. PICK n \in {yoff - VpHeight(size), yoff - 5, 0} : ScrollTo(n, FALSE)
    BY <1>2 DEF ScrollBack
  <2>2. n \in Int
    BY <1>1
  <2>3. \A follow \in BOOLEAN : ScrollTo(n, follow) => PanelInv'
    BY <2>2, ScrollToStep
  <2> QED BY <2>1, <2>3, Zenon
<1>3. CASE ScrollOn
  <2>1. PICK n \in {yoff + VpHeight(size), yoff + 5} :
          ScrollTo(n, sticky \/ Within(n, rows, size) >= Bottom(rows, size))
    BY <1>3 DEF ScrollOn
  <2>2. n \in Int
    BY <1>1
  <2>3. (sticky \/ Within(n, rows, size) >= Bottom(rows, size)) \in BOOLEAN
    BY Zenon
  <2> QED BY <2>1, <2>2, <2>3, ScrollToStep
<1>4. CASE ScrollEnd
  <2>1. \A follow \in BOOLEAN : ScrollTo(Bottom(rows, size), follow) => PanelInv'
    BY <1>1, ScrollToStep
  <2> QED BY <1>4, <2>1, Zenon DEF ScrollEnd
<1> QED BY <1>2, <1>3, <1>4

\* The wheel: three rows up or down.
LEMMA WheelStep == ASSUME PanelInv, Wheel PROVE PanelInv'
<1>1. PICK n \in {yoff - 3, yoff + 3} :
        /\ yoff' = Within(n, rows, size)
        /\ sticky' = (sticky /\ yoff' >= Bottom(rows, size))
        /\ UNCHANGED <<docVars, paintVars, paused, lookVars, inCopy, cur, sel, drag, findVars, cmdVars>>
        /\ NoYank
  BY DEF Wheel
<1>2. n \in Int
  BY RowsTyping DEF PanelInv, WindowOK
<1>3. Within(n, rows, size) \in 0 .. Len(rows)
  BY <1>2, WindowBounds DEF PanelInv
<1>4. WindowOK'
  BY <1>1, <1>3 DEF WindowOK, paintVars
<1>5. sticky' \in BOOLEAN
  BY <1>1, Zenon
<1> QED BY <1>1, <1>4, <1>5, ScrollStep DEF NoYank

-----------------------------------------------------------------------------
(* The steps of the matches, and in and out of copy mode.                  *)

\* A new filter.
LEMMA SetFilterStep == ASSUME PanelInv, NEW ch \in Filters, SetFilter(ch) PROVE PanelInv'
<1>1. DocOK'
  BY DocKept DEF SetFilter, PanelInv
<1>2. LookOK'
  BY DEF SetFilter, PanelInv, LookOK, lookVars
<1>3. PlacesOK' /\ CommandOK'
  BY PlacesKept, CommandKept DEF SetFilter, PanelInv
<1>4. RowsOK' /\ SelectionOK' /\ crashed' \in BOOLEAN
  BY <1>1, <1>2, PaintKeeps DEF SetFilter
<1>5. /\ filter' = ch /\ raw' = raw /\ hits' = Matches(raw, ch) /\ size' = size
      /\ \/ hits' = <<>> /\ hit' = 0 /\ KeepOffset /\ sticky' = sticky
         \/ hits' # <<>> /\ hit' = 1 /\ yoff' = Within(MatchOffset(hits'[1]), rows', size')
            /\ sticky' = FALSE
  BY DEF SetFilter, docVars, lookVars
<1>6. Len(hits') \in Nat /\ (hits' # <<>> => hits'[1] \in Nat /\ Len(hits') >= 1)
  <2>1. hits' \in Seq(Nat)
    BY <1>5, MatchesAre DEF PanelInv, DocOK, FoundIn
  <2> QED BY <2>1
<1>7. HitsOK'
  BY <1>5, <1>6 DEF HitsOK
<1>8. FlagsOK'
  BY <1>4, <1>5 DEF SetFilter, PanelInv, FlagsOK, NoYank
<1>9. WindowOK'
  <2>1. CASE KeepOffset
    BY <2>1, <1>2, <1>4, OffsetKept DEF PanelInv
  <2>2. CASE hits' # <<>> /\ yoff' = Within(MatchOffset(hits'[1]), rows', size')
    <3>1. VpHeight(size) \in Nat \ {0}
      <4>1. 0 \in Int
        OBVIOUS
      <4> QED BY <4>1, WindowBounds DEF PanelInv
    <3>2. hits'[1] - VpHeight(size) \div 3 \in Int
      BY <1>6, <2>2, <3>1
    <3>3. MatchOffset(hits'[1]) \in Int
      BY <3>2, MaxPair DEF MatchOffset
    <3> QED BY <3>3, <2>2, <1>2, <1>4, WithinKeeps DEF WindowOK
  <2> QED BY <2>1, <2>2, <1>5
<1> QED BY <1>1, <1>2, <1>3, <1>4, <1>7, <1>8, <1>9 DEF PanelInv

\* What n and N lead to is a match.
LEMMA JumpIs ==
  ASSUME PanelInv, JumpMatch
  PROVE  /\ hits \in Seq(Nat) /\ hit' \in 1 .. Len(hits) /\ hits[hit'] \in 0 .. LastLine(raw)
         /\ MatchOffset(hits[hit']) \in Int /\ raw # <<>>
<1>1. FoundIn(raw, filter, Len(raw), hits)
  BY MatchesAre DEF PanelInv, DocOK, HitsOK
<1>2. hits \in Seq(Nat) /\ Len(raw) \in Nat
  BY <1>1 DEF FoundIn, PanelInv, DocOK, Buffer
<1>3. hits # <<>> /\ hit \in 0 .. Len(hits)
  BY DEF JumpMatch, PanelInv, HitsOK
<1>4. Len(hits) \in Nat /\ Len(hits) >= 1 /\ DOMAIN hits = 1 .. Len(hits)
  BY <1>2, <1>3
<1>5. NextHit \in 1 .. Len(hits)
  <2>1. CASE hit = Len(hits)
    <3>1. NextHit = 1
      BY <2>1 DEF NextHit
    <3> QED BY <3>1, <1>4
  <2>2. CASE hit # Len(hits)
    <3>1. NextHit = hit + 1
      BY <2>2 DEF NextHit
    <3>2. hit \in 0 .. Len(hits) - 1
      <4>1. \A n \in Nat : \A i \in 0 .. n : i # n => i \in 0 .. n - 1
        OBVIOUS
      <4> QED BY <2>2, <1>3, <1>4, <4>1
    <3> QED BY <3>1, <3>2
  <2> QED BY <2>1, <2>2
<1>6. PrevHit \in 1 .. Len(hits)
  <2>1. CASE hit = 0
    <3>1. PrevHit = 1
      BY <2>1 DEF PrevHit
    <3> QED BY <3>1, <1>4
  <2>2. CASE hit = 1
    <3>1. PrevHit = Len(hits)
      BY <2>2 DEF PrevHit
    <3> QED BY <3>1, <1>4
  <2>3. CASE hit > 1
    <3>1. hit # 0 /\ hit # 1
      BY <2>3, <1>3
    <3>2. PrevHit = hit - 1
      BY <2>3, <3>1 DEF PrevHit
    <3> QED BY <2>3, <3>2, <1>3, <1>4
  <2> QED BY <2>1, <2>2, <2>3, <1>3
<1>7. hit' \in 1 .. Len(hits)
  BY <1>5, <1>6 DEF JumpMatch
<1>8. hits[hit'] \in 0 .. LastLine(raw)
  <2>1. hits[hit'] \in Nat /\ hit' \in DOMAIN hits
    BY <1>2, <1>4, <1>7
  <2>2. hits[hit'] < Len(raw)
    BY <2>1, <1>1 DEF FoundIn
  <2> QED BY <2>1, <2>2, <1>2 DEF LastLine
<1>9. MatchOffset(hits[hit']) \in Int
  <2>1. VpHeight(size) \in Nat \ {0}
    <3>1. 0 \in Int
      OBVIOUS
    <3> QED BY <3>1, WindowBounds DEF PanelInv
  <2>2. hits[hit'] - VpHeight(size) \div 3 \in Int
    BY <1>8, <2>1
  <2> QED BY <2>2, MaxPair DEF MatchOffset
<1>10. raw # <<>>
  BY <1>2, <1>8 DEF LastLine
<1> QED BY <1>2, <1>7, <1>8, <1>9, <1>10

\* The state that n and N lead to, but for the window.
LEMMA JumpPaints ==
  ASSUME PanelInv, JumpMatch
  PROVE  /\ DocOK' /\ LookOK' /\ PlacesOK' /\ CommandOK' /\ HitsOK' /\ RowsOK' /\ SelectionOK'
         /\ FlagsOK' /\ UNCHANGED <<raw, size, inCopy, hits>>
<1>1. DocOK'
  BY DocKept DEF JumpMatch, PanelInv
<1>2. LookOK' /\ UNCHANGED <<raw, size, inCopy, hits>>
  BY DEF JumpMatch, PanelInv, LookOK, lookVars, docVars
<1>3. CommandOK'
  BY CommandKept DEF JumpMatch, PanelInv
<1>4. cur' \in Places
  <2>1. hits[hit'] \in Nat
    BY JumpIs
  <2>2. Pos(hits[hit'], 0) \in Places
    BY <2>1 DEF Pos, Places
  <2> QED BY <2>2 DEF JumpMatch, PanelInv, PlacesOK
<1>5. PlacesOK'
  BY <1>4 DEF JumpMatch, PanelInv, PlacesOK
<1>6. HitsOK'
  <2>1. hit' \in 0 .. Len(hits)
    <3>1. hit' \in 1 .. Len(hits)
      BY JumpIs
    <3> QED BY <3>1
  <2>2. filter' = filter /\ HitsOK
    BY DEF JumpMatch, PanelInv
  <2> QED BY <1>2, <2>1, <2>2 DEF HitsOK
<1>7. RowsOK' /\ SelectionOK' /\ crashed' \in BOOLEAN
  BY <1>1, <1>2, PaintKeeps DEF JumpMatch
<1>8. FlagsOK'
  BY <1>7 DEF JumpMatch, PanelInv, FlagsOK, NoYank
<1> QED BY <1>1, <1>2, <1>3, <1>5, <1>6, <1>7, <1>8

\* Where the window is when it follows the cursor.
LEMMA FollowsCursor ==
  ASSUME RowsOK', LookOK', DocOK', PlacesOK', UNCHANGED size, NEW off \in 0 .. Len(rows')
  PROVE  /\ CursorOffset(rows', cur'.line, off) \in 0 .. Len(rows')
         /\ cur'.line \in 0 .. LastLine(raw')
              => InWindow(rows', CursorOffset(rows', cur'.line, off), size', cur'.line)
<1>1. Pane(size) /\ size' = size
  BY SizesArePanes DEF LookOK
<1>2. rows' \in Seq(Row) /\ cur'.line \in Nat
  BY DEF RowsOK, RowsGood, PlacesOK, Places
<1>3. /\ CursorOffset(rows', cur'.line, off) \in 0 .. Len(rows')
      /\ (\E k \in DOMAIN rows' : rows'[k].line = cur'.line)
           => InWindow(rows', CursorOffset(rows', cur'.line, off), size, cur'.line)
  BY <1>1, <1>2, CursorOffsetShows
<1>4. cur'.line \in 0 .. LastLine(raw') => \E k \in DOMAIN rows' : rows'[k].line = cur'.line
  BY DEF RowsOK, RowsGood
<1> QED BY <1>1, <1>3, <1>4

\* n and N.
LEMMA JumpMatchStep == ASSUME PanelInv, JumpMatch PROVE PanelInv'
<1> DEFINE off == Within(MatchOffset(hits[hit']), rows', size)
<1>1. /\ DocOK' /\ LookOK' /\ PlacesOK' /\ CommandOK' /\ HitsOK' /\ RowsOK' /\ SelectionOK'
      /\ FlagsOK' /\ UNCHANGED <<raw, size, inCopy, hits>>
  BY JumpPaints
<1>2. off \in 0 .. Len(rows')
  <2>1. Within(MatchOffset(hits[hit']), rows', size') \in 0 .. Len(rows')
    BY <1>1, JumpIs, WithinKeeps
  <2> QED BY <1>1, <2>1
<1>3. yoff' = IF inCopy THEN CursorOffset(rows', cur'.line, off) ELSE off
  BY DEF JumpMatch
<1> HIDE DEF off
<1>4. CursorOffset(rows', cur'.line, off) \in 0 .. Len(rows')
  BY <1>1, <1>2, FollowsCursor
<1>5. WindowOK'
  BY <1>2, <1>3, <1>4 DEF WindowOK
<1> QED BY <1>1, <1>5 DEF PanelInv

\* Entering copy mode.
LEMMA EnterCopyStep == ASSUME PanelInv, EnterCopy PROVE PanelInv'
<1>1. DocOK' /\ CommandOK'
  BY DocKept, CommandKept DEF EnterCopy, PanelInv
<1>2. LookOK'
  BY DEF EnterCopy, PanelInv, LookOK, lookVars, NoYank
<1>3. cur' \in Places
  <2> DEFINE top == IF yoff < Len(rows) THEN rows[yoff + 1].line ELSE yoff
             last == Max({0, LastLine(raw)})
  <2>1. top \in Nat
    BY RowsTyping DEF PanelInv, WindowOK
  <2>2. last \in Nat
    <3>1. LastLine(raw) \in Int
      BY TextTyping DEF PanelInv, DocOK
    <3> QED BY <3>1, MaxPair
  <2> HIDE DEF top, last
  <2>3. Min({top, last}) \in Nat
    BY <2>1, <2>2, MinPair
  <2>4. cur' = Pos(Min({top, last}), 0)
    BY DEF EnterCopy, top, last
  <2> QED BY <2>3, <2>4 DEF Pos, Places
<1>4. PlacesOK'
  BY <1>3 DEF EnterCopy, PanelInv, PlacesOK
<1>5. Render /\ KeepOffset /\ UNCHANGED filter
  BY DEF EnterCopy
<1>6. HitsOK' /\ RowsOK' /\ SelectionOK' /\ crashed' \in BOOLEAN
  BY <1>1, <1>2, <1>5, RenderKeeps DEF PanelInv, HitsOK
<1>7. FlagsOK'
  BY <1>2, <1>6 DEF EnterCopy, PanelInv, FlagsOK, NoYank
<1> QED BY <1>1, <1>2, <1>4, <1>5, <1>7, RenderStep

\* A command that is given up.
LEMMA TransientOK ==
  ASSUME CommandOK, ClearTransient, Sought(lastFind')
  PROVE  CommandOK'
<1>1. Sought(NoSeek)
  BY DEF Sought, NoSeek, Seek
<1>2. pend' = "none" /\ op' = FALSE /\ count' = 0 /\ find' = NoSeek
  BY DEF ClearTransient
<1>3. 0 \in 0 .. MaxCount
  BY PanelAssumption
<1> QED BY <1>1, <1>2, <1>3 DEF CommandOK

\* The absent search is a search.
LEMMA NoSeekIs == Sought(NoSeek)
BY DEF Sought, NoSeek, Seek

\* The absent selection has a place for its anchor.
LEMMA NoSelIs == NoSel.mode = "none" /\ NoSel.anchor \in Places /\ Home \in Places
BY DEF NoSel, Home, Pos, Places

\* Leaving copy mode.
LEMMA LeaveCopyStep == ASSUME PanelInv, LeaveCopy PROVE PanelInv'
<1>1. DocOK'
  BY DocKept DEF LeaveCopy, PanelInv
<1>2. LookOK' /\ UNCHANGED <<sticky, paused, copying>>
  BY DEF LeaveCopy, PanelInv, LookOK, lookVars, NoYank
<1>3. CommandOK'
  BY TransientOK, NoSeekIs DEF LeaveCopy, PanelInv
<1>4. PlacesOK'
  BY NoSelIs DEF LeaveCopy, PanelInv, PlacesOK
<1>5. Render /\ KeepOffset /\ UNCHANGED filter
  BY DEF LeaveCopy
<1> QED BY <1>1, <1>2, <1>3, <1>4, <1>5, RenderStep

\* Forgetting the pending count, operator and find.
LEMMA ClearPendingStep == ASSUME PanelInv, ClearPending PROVE PanelInv'
<1>1. CommandOK'
  <2>1. Sought(lastFind')
    BY DEF ClearPending, PanelInv, CommandOK
  <2> QED BY <2>1, TransientOK DEF ClearPending, PanelInv
<1>2. LookOK' /\ FlagsOK' /\ UNCHANGED wrap
  BY DEF ClearPending, PanelInv, LookOK, FlagsOK, NoYank, paintVars, lookVars
<1> QED BY <1>1, <1>2, QuietStep DEF ClearPending

\* Dropping the selection repaints without it.
LEMMA DropSelectionStep ==
  ASSUME PanelInv, DropSelection, copying' \in BOOLEAN
  PROVE  PanelInv'
<1>1. LookOK'
  BY DEF DropSelection, PanelInv, LookOK, lookVars
<1>2. PlacesOK' /\ CommandOK'
  BY NoSelIs, CommandKept DEF DropSelection, PanelInv, PlacesOK
<1>3. Paint /\ KeepOffset /\ UNCHANGED docVars /\ UNCHANGED findVars
  BY DEF DropSelection
<1>4. crashed' \in BOOLEAN
  BY <1>1, <1>3, DocKept, PaintKeeps DEF PanelInv
<1>5. FlagsOK'
  BY <1>4 DEF DropSelection, PanelInv, FlagsOK
<1> QED BY <1>1, <1>2, <1>3, <1>5, PaintStep

\* Escape on a selection drops it.
LEMMA ClearSelectionStep == ASSUME PanelInv, ClearSelection PROVE PanelInv'
BY DropSelectionStep DEF ClearSelection, PanelInv, FlagsOK

\* The copy is acknowledged: a selection it came from is dropped.
LEMMA CopiedStep == ASSUME PanelInv, Copied PROVE PanelInv'
<1>1. copying' \in BOOLEAN
  BY DEF Copied
<1>2. CASE DropSelection
  BY <1>1, <1>2, DropSelectionStep
<1>3. CASE UNCHANGED <<docVars, paintVars, yoff, sticky, paused, lookVars, inCopy, cur, sel, drag,
                       findVars, cmdVars>>
  <2>1. LookOK' /\ FlagsOK' /\ UNCHANGED wrap
    BY <1>1, <1>3 DEF PanelInv, LookOK, FlagsOK, paintVars, lookVars
  <2>2. CommandOK'
    BY <1>3, CommandKept DEF PanelInv
  <2> QED BY <1>3, <2>1, <2>2, QuietStep
<1> QED BY <1>2, <1>3 DEF Copied

\* Pausing touches no row.
LEMMA TogglePausedStep == ASSUME PanelInv, TogglePaused PROVE PanelInv'
<1>1. LookOK' /\ FlagsOK' /\ UNCHANGED wrap
  BY DEF TogglePaused, PanelInv, LookOK, FlagsOK, NoYank, paintVars, lookVars
<1>2. CommandOK'
  BY CommandKept DEF TogglePaused, PanelInv
<1> QED BY <1>1, <1>2, QuietStep DEF TogglePaused

-----------------------------------------------------------------------------
(* The keys of copy mode.                                                  *)

\* Where a motion aims: a line there may be, and any column.
Aims(t) == t.to.line \in Nat /\ t.to.col \in Int

\* A count is at least one when it is used (effectiveCount).
LEMMA CountIs == ASSUME CommandOK PROVE EffectiveCount \in Nat \ {0}
<1>1. count \in Nat
  BY PanelAssumption DEF CommandOK
<1> QED BY <1>1, MaxPair DEF EffectiveCount

\* clampCol answers with a place.
LEMMA OnLineIs ==
  ASSUME DocOK, NEW p, p.line \in Nat, p.col \in Int
  PROVE  OnLine(p) \in Places /\ OnLine(p).line = p.line
<1>1. Width(raw, p.line) \in Nat
  BY TextTyping DEF DocOK
<1>2. Min({p.col, Width(raw, p.line)}) \in Int
  BY <1>1, MinPair
<1>3. Max({0, Min({p.col, Width(raw, p.line)})}) \in Nat
  <2>1. \A m \in Int : Max({0, m}) \in Nat
    BY MaxPair
  <2> QED BY <1>2, <2>1
<1> QED BY <1>3 DEF OnLine, Pos, Places

\* The three shapes of a target.
LEMMA GoAims ==
  ASSUME NEW p, p.line \in Nat, p.col \in Int
  PROVE  Aims(Go(p)) /\ Aims(GoOnto(p)) /\ Aims(GoLines(p))
BY DEF Aims, Go, GoOnto, GoLines

\* A line kept between the first and the last.
LEMMA ClampLine ==
  ASSUME DocOK, raw # <<>>, NEW n \in Int
  PROVE  Max({0, Min({LastLine(raw), n})}) \in Nat /\ LastLine(raw) \in Nat
         /\ (n >= 0 => Min({LastLine(raw), n}) \in Nat)
<1>1. LastLine(raw) \in Nat
  BY BufferEnds DEF DocOK
<1>2. Min({LastLine(raw), n}) = IF LastLine(raw) <= n THEN LastLine(raw) ELSE n
  BY <1>1, MinPair
<1>3. Min({LastLine(raw), n}) \in Int /\ (n >= 0 => Min({LastLine(raw), n}) \in Nat)
  BY <1>1, <1>2
<1>4. Max({0, Min({LastLine(raw), n})}) \in Nat
  <2>1. \A m \in Int : Max({0, m}) \in Nat
    BY MaxPair
  <2> QED BY <1>3, <2>1
<1> QED BY <1>1, <1>3, <1>4

\* A place with typed coordinates.
LEMMA PosIs == \A l, c : Pos(l, c).line = l /\ Pos(l, c).col = c
BY DEF Pos

\* The first non-blank column of a line is a column.
LEMMA FirstNonBlankIs ==
  ASSUME DocOK, NEW l
  PROVE  FirstNonBlank(raw, l) \in Nat
<1> DEFINE s == {p \in Solid(raw) : p.line = l}
<1>1. s \subseteq Places
  BY SolidAre DEF DocOK
<1>2. FirstNonBlank(raw, l) = IF s = {} THEN Width(raw, l) ELSE Least(s).col
  BY DEF FirstNonBlank
<1> HIDE DEF s
<1>3. s # {} => Least(s).col \in Nat
  BY <1>1, LeastIs DEF Places
<1>4. Width(raw, l) \in Nat
  BY TextTyping DEF DocOK
<1> QED BY <1>2, <1>3, <1>4

\* Every motion aims at a line there may be.
LEMMA TargetAims ==
  ASSUME PanelInv, raw # <<>>, NEW k \in MotionKeys, NEW n \in Nat \ {0}
  PROVE  Aims(Target(k, n))
<1>1. DocOK /\ cur.line \in Nat /\ cur.col \in Nat /\ cur \in Places /\ yoff \in Nat
  BY RowsTyping DEF PanelInv, PlacesOK, Places, WindowOK
<1>2. \A i \in Int : Aims(Down(i)) /\ Aims(ToBlank(i))
  <2> TAKE i \in Int
  <2> DEFINE l == Max({0, Min({LastLine(raw), cur.line + i})})
  <2>1. l \in Nat
    <3>1. cur.line + i \in Int
      BY <1>1
    <3> QED BY <1>1, <3>1, ClampLine
  <2>2. Down(i) = GoLines(OnLine(Pos(l, cur.col))) /\ ToBlank(i) = GoLines(Pos(l, FirstNonBlank(raw, l)))
    BY DEF Down, ToBlank
  <2> HIDE DEF l
  <2>3. OnLine(Pos(l, cur.col)) \in Places
    BY <1>1, <2>1, OnLineIs, PosIs
  <2>4. FirstNonBlank(raw, l) \in Nat
    BY <1>1, FirstNonBlankIs
  <2> QED BY <2>1, <2>2, <2>3, <2>4, GoAims, PosIs DEF Places
<1>3. Half \in Nat /\ VpHeight(size) \in Nat \ {0} /\ VpHeight(size) \div 2 \in Nat
  <2>1. VpHeight(size) \in Nat \ {0}
    <3>1. 0 \in Int
      OBVIOUS
    <3> QED BY <3>1, WindowBounds DEF PanelInv
  <2>2. VpHeight(size) \div 2 \in Nat
    BY <2>1
  <2> QED BY <2>1, <2>2, MaxPair DEF Half
<1>4. /\ n \in Int /\ -n \in Int
      /\ Half * n \in Int /\ -(Half * n) \in Int
      /\ VpHeight(size) * n \in Int /\ -(VpHeight(size) * n) \in Int
  BY <1>3
<1>5. Aims(Go(Pos(cur.line, Max({0, cur.col - n}))))
  <2>1. cur.col - n \in Int
    BY <1>1
  <2>2. Max({0, cur.col - n}) \in Int
    BY <2>1, MaxPair
  <2> QED BY <1>1, <2>2, GoAims, PosIs
<1>6. Aims(Go(OnLine(Pos(cur.line, cur.col + n))))
  <2>1. cur.col + n \in Int
    BY <1>1
  <2>2. OnLine(Pos(cur.line, cur.col + n)) \in Places
    BY <1>1, <2>1, OnLineIs, PosIs
  <2> QED BY <2>2, GoAims DEF Places
<1>7. Aims(Go(Pos(cur.line, 0))) /\ Aims(Go(Pos(cur.line, FirstNonBlank(raw, cur.line))))
  <2>1. FirstNonBlank(raw, cur.line) \in Int /\ 0 \in Int
    BY <1>1, FirstNonBlankIs
  <2> QED BY <1>1, <2>1, GoAims, PosIs
<1>8. Aims(GoOnto(Pos(cur.line, Width(raw, cur.line))))
  <2>1. Width(raw, cur.line) \in Int
    BY <1>1, TextTyping DEF DocOK
  <2> QED BY <1>1, <2>1, GoAims, PosIs
<1>9. Aims(GoLines(Pos(LastLine(raw), 0)))
  <2>1. LastLine(raw) \in Nat
    BY <1>1, BufferEnds DEF DocOK
  <2> QED BY <2>1, GoAims, PosIs
<1>10. \A key \in {"w", "b", "e"} : Aims(Go(Steps(key, raw, cur, FALSE, n)))
                                    /\ Aims(GoOnto(Steps(key, raw, cur, FALSE, n)))
  <2> TAKE key \in {"w", "b", "e"}
  <2>1. \A bg : Steps(key, raw, cur, bg, n) \in Places
    BY <1>1, StepsTyping DEF DocOK
  <2> DEFINE p == Steps(key, raw, cur, FALSE, n)
  <2>2. p \in Places
    BY <2>1, Zenon
  <2> HIDE DEF p
  <2>3. p.line \in Nat /\ p.col \in Int
    BY <2>2 DEF Places
  <2>4. Aims(Go(p)) /\ Aims(GoOnto(p))
    BY <2>3, GoAims
  <2> QED BY <2>4, Zenon DEF p
<1>11. \A l \in Nat : Aims(GoLines(OnLine(Pos(l, cur.col))))
  <2> TAKE l \in Nat
  <2>1. OnLine(Pos(l, cur.col)) \in Places
    BY <1>1, OnLineIs, PosIs
  <2> QED BY <2>1, GoAims DEF Places
<1>12. /\ Min({LastLine(raw), yoff + VpHeight(size) \div 2}) \in Nat
       /\ Min({LastLine(raw), yoff + VpHeight(size) - 1}) \in Nat
  <2>1. /\ yoff + VpHeight(size) \div 2 \in Int /\ yoff + VpHeight(size) \div 2 >= 0
        /\ yoff + VpHeight(size) - 1 \in Int /\ yoff + VpHeight(size) - 1 >= 0
    BY <1>1, <1>3
  <2> QED BY <1>1, <2>1, ClampLine
<1>13. k \in {"h", "l", "j", "k", "0", "^", "$", "+", "-", "G"} => Aims(Target(k, n))
  BY <1>2, <1>4, <1>5, <1>6, <1>7, <1>8, <1>9 DEF Target
<1>14. k \in {"w", "b", "e"} => Aims(Target(k, n))
  BY <1>10 DEF Target
<1>15. k \in {"ctrl+u", "ctrl+d", "ctrl+b", "ctrl+f"} => Aims(Target(k, n))
  BY <1>2, <1>4 DEF Target
<1>16. k \in {"H", "M", "L"} => Aims(Target(k, n))
  BY <1>1, <1>11, <1>12 DEF Target
<1> QED BY <1>13, <1>14, <1>15, <1>16 DEF MotionKeys

\* What applyRange leaves: an operator changes nothing that is shown, and without
\* one the cursor's line is in the window.
LEMMA ApplyRangeStep ==
  ASSUME PanelInv, raw # <<>>, NEW from, NEW t, ApplyRange(from, t), op \/ Aims(t), Sought(lastFind')
  PROVE  /\ PanelInv'
         /\ cur' # cur /\ ~crashed' /\ inCopy' => InWindow(rows', yoff', size', cur'.line)
<1>1. DocOK'
  BY DocKept DEF ApplyRange, PanelInv
<1>2. LookOK' /\ UNCHANGED <<raw, size, sticky, paused, sel, drag>>
  BY DEF ApplyRange, PanelInv, LookOK, lookVars, docVars
<1>3. CommandOK'
  BY TransientOK DEF ApplyRange, PanelInv
<1>4. HitsOK'
  BY HitsKept DEF ApplyRange, PanelInv, docVars
<1>5. CASE op /\ Yank(Extract(from, t)) /\ UNCHANGED <<paintVars, yoff, cur>>
  <2>1. copying' \in BOOLEAN
    BY <1>5, Zenon DEF Yank
  <2>2. FlagsOK'
    BY <1>2, <1>5, <2>1 DEF PanelInv, FlagsOK, paintVars
  <2>3. UNCHANGED docVars /\ UNCHANGED wrap /\ UNCHANGED <<cur, sel, drag>> /\ UNCHANGED findVars
    BY <1>2, <1>5 DEF ApplyRange, lookVars
  <2>4. PanelInv'
    BY <1>2, <1>3, <1>5, <2>2, <2>3, QuietStep
  <2>5. cur' = cur
    BY <1>5
  <2> QED BY <2>4, <2>5
<1>6. CASE ~op /\ cur' = OnLine(t.to) /\ NoYank /\ Paint
           /\ yoff' = CursorOffset(rows', cur'.line, Within(yoff, rows', size))
  <2>1. cur' \in Places
    <3>1. t.to.line \in Nat /\ t.to.col \in Int
      BY <1>6 DEF Aims
    <3> QED BY <1>6, <3>1, OnLineIs DEF PanelInv
  <2>2. PlacesOK'
    BY <1>2, <2>1 DEF PanelInv, PlacesOK
  <2>3. RowsOK' /\ SelectionOK' /\ crashed' \in BOOLEAN
    BY <1>1, <1>2, <1>6, PaintKeeps
  <2>4. FlagsOK'
    BY <1>2, <1>6, <2>3 DEF PanelInv, FlagsOK, NoYank
  <2> DEFINE off == Within(yoff, rows', size)
  <2>5. off \in 0 .. Len(rows')
    <3>1. yoff \in Int
      BY RowsTyping DEF PanelInv, WindowOK
    <3>2. Within(yoff, rows', size') \in 0 .. Len(rows')
      BY <1>2, <2>3, <3>1, WithinKeeps
    <3> QED BY <1>2, <3>2
  <2>6. yoff' = CursorOffset(rows', cur'.line, off)
    BY <1>6
  <2> HIDE DEF off
  <2>7. /\ yoff' \in 0 .. Len(rows')
        /\ cur'.line \in 0 .. LastLine(raw') => InWindow(rows', yoff', size', cur'.line)
    BY <1>1, <1>2, <2>2, <2>3, <2>5, <2>6, FollowsCursor
  <2>8. ~crashed' /\ inCopy' => cur'.line \in 0 .. LastLine(raw')
    BY <1>2, <1>6 DEF Paint
  <2>9. WindowOK'
    BY <2>7 DEF WindowOK
  <2> QED BY <1>1, <1>2, <1>3, <1>4, <2>2, <2>3, <2>4, <2>7, <2>8, <2>9 DEF PanelInv
<1> QED BY <1>5, <1>6 DEF ApplyRange

\* A key that only changes the command being typed.
LEMMA StillStep == ASSUME PanelInv, Still, NoYank, CommandOK' PROVE PanelInv' /\ cur' = cur
<1>1. LookOK' /\ FlagsOK' /\ UNCHANGED wrap /\ cur' = cur
  BY DEF Still, NoYank, PanelInv, LookOK, FlagsOK, lookVars, paintVars
<1> QED BY <1>1, QuietStep DEF Still

\* A key that drops the command and leaves the cursor where it was.
LEMMA DropStep == ASSUME PanelInv, Drop, Sought(lastFind') PROVE PanelInv' /\ cur' = cur
<1>1. CommandOK'
  BY TransientOK DEF Drop, PanelInv
<1> QED BY <1>1, StillStep DEF Drop

\* What a step of a motion promises.
Shows == cur' # cur /\ ~crashed' /\ inCopy' => InWindow(rows', yoff', size', cur'.line)

\* v, V, y and Y.
LEMMA VisualKeyStep == ASSUME PanelInv, NEW k, VisualKey(k) PROVE PanelInv' /\ cur' = cur
<1>1. CASE /\ k \in {"v", "V"}
           /\ LET mode == IF k = "v" THEN "char" ELSE "line" IN
              sel' = IF sel.mode = mode THEN NoSel ELSE [mode |-> mode, anchor |-> cur]
           /\ UNCHANGED <<docVars, lookVars, inCopy, cur, drag, sticky, paused, findVars, cmdVars>>
           /\ NoYank
           /\ Paint /\ KeepOffset
  <2>1. cur' = cur /\ drag' = drag /\ cur \in Places
    BY <1>1 DEF PanelInv, PlacesOK
  <2>2. sel'.mode \in {"none", "char", "line"} /\ sel'.anchor \in Places
    BY <1>1, <2>1, NoSelIs
  <2>3. PlacesOK'
    BY <2>1, <2>2 DEF PanelInv, PlacesOK
  <2>4. LookOK' /\ UNCHANGED <<sticky, paused, copying>>
    BY <1>1 DEF PanelInv, LookOK, lookVars, NoYank
  <2>5. CommandOK'
    BY <1>1, CommandKept DEF PanelInv
  <2> QED BY <1>1, <2>1, <2>3, <2>4, <2>5, PaintStep
<1>2. CASE /\ sel' = NoSel
           /\ copying' = TRUE
           /\ crashed' = YankPanics
           /\ UNCHANGED <<docVars, rows, shown, paintedAt, yoff, sticky, paused, lookVars, inCopy, cur, drag,
                          findVars, cmdVars>>
  <2>1. DocOK' /\ HitsOK' /\ CommandOK' /\ cur' = cur
    BY <1>2, DocKept, HitsKept, CommandKept DEF PanelInv, docVars
  <2>2. PlacesOK'
    BY <1>2, NoSelIs DEF PanelInv, PlacesOK
  <2>3. crashed' \in BOOLEAN
    BY <1>2, Zenon DEF YankPanics
  <2>4. LookOK' /\ FlagsOK'
    BY <1>2, <2>3 DEF PanelInv, LookOK, FlagsOK, lookVars
  <2>5. RowsOK' /\ WindowOK'
    BY <1>2 DEF PanelInv, RowsOK, WindowOK, docVars, lookVars
  <2>6. SelectionOK'
    BY <1>2, NoSelIs DEF SelectionOK, HasSel
  <2> QED BY <2>1, <2>2, <2>4, <2>5, <2>6 DEF PanelInv
<1>3. CASE /\ ClearTransient
           /\ Yank(Lines(raw, cur.line, cur.line + EffectiveCount - 1))
           /\ Still /\ UNCHANGED lastFind
  <2>1. CommandOK'
    <3>1. Sought(lastFind')
      BY <1>3 DEF PanelInv, CommandOK
    <3> QED BY <1>3, <3>1, TransientOK DEF PanelInv
  <2>2. copying' \in BOOLEAN
    BY <1>3, Zenon DEF Yank
  <2>3. LookOK' /\ FlagsOK' /\ UNCHANGED wrap
    BY <1>3, <2>2 DEF Still, PanelInv, LookOK, FlagsOK, lookVars, paintVars
  <2> QED BY <1>3, <2>1, <2>3, QuietStep DEF Still
<1> QED BY <1>1, <1>2, <1>3 DEF VisualKey

\* f, F, t and T, and their repetition.
LEMMA FindKeyStep ==
  ASSUME PanelInv, raw # <<>>, NEW ch, NEW seek, Sought(seek), FindKey(ch, seek, cur), Sought(lastFind')
  PROVE  PanelInv' /\ Shows
<1> DEFINE c == FindCol(raw, cur, ch, seek.forward, seek.till, EffectiveCount)
<1>1. c \in Int
  BY CountIs, FindColTyping DEF PanelInv, DocOK, Sought
<1>2. cur.line \in Nat
  BY DEF PanelInv, PlacesOK, Places
<1>3. \/ Drop
      \/ ApplyRange(cur, GoOnto(Pos(cur.line, c)))
      \/ ApplyRange(cur, Go(Pos(cur.line, c)))
  BY DEF FindKey
<1> HIDE DEF c
<1>4. Aims(GoOnto(Pos(cur.line, c))) /\ Aims(Go(Pos(cur.line, c)))
  BY <1>1, <1>2, GoAims, PosIs
<1> QED BY <1>3, <1>4, DropStep, ApplyRangeStep DEF Shows

\* A text object.
LEMMA ObjectKeyStep ==
  ASSUME PanelInv, raw # <<>>, op, NEW k, NEW around, ObjectKey(k, around)
  PROVE  PanelInv' /\ Shows
<1>1. Sought(lastFind')
  BY DEF ObjectKey, PanelInv, CommandOK
<1>2. Drop \/ \E from, t : ApplyRange(from, t)
  BY DEF ObjectKey
<1> QED BY <1>1, <1>2, DropStep, ApplyRangeStep DEF Shows

\* The rest of a started command.
LEMMA PendingKeyStep == ASSUME PanelInv, NEW k, PendingKey(k) PROVE PanelInv' /\ Shows
<1>1. raw # <<>> /\ Sought(lastFind) /\ Sought(find) /\ CommandOK
  BY DEF PendingKey, Typed, PanelInv, CommandOK
<1>2. CASE /\ UNCHANGED lastFind
           /\ CASE k = "g" -> ApplyRange(cur, Go(Home))
                [] k = "e" -> ApplyRange(cur, GoOnto(Steps("ge", raw, cur, FALSE, EffectiveCount)))
                [] OTHER -> Drop
  <2> DEFINE p == Steps("ge", raw, cur, FALSE, EffectiveCount)
  <2>1. p \in Places
    <3>1. EffectiveCount \in Nat /\ Buffer(raw) /\ cur \in Places
      BY <1>1, CountIs DEF PanelInv, DocOK, PlacesOK
    <3>2. \A bg : Steps("ge", raw, cur, bg, EffectiveCount) \in Places
      BY <1>1, <3>1, StepsTyping
    <3> QED BY <3>2, Zenon
  <2>2. \/ ApplyRange(cur, Go(Home))
        \/ ApplyRange(cur, GoOnto(p))
        \/ Drop
    BY <1>2, Zenon
  <2> HIDE DEF p
  <2>3. Aims(Go(Home)) /\ Aims(GoOnto(p))
    <3>1. p.line \in Nat /\ p.col \in Int /\ Home.line \in Nat /\ Home.col \in Int
      BY <2>1, NoSelIs DEF Places
    <3> QED BY <3>1, GoAims
  <2>4. Sought(lastFind')
    BY <1>1, <1>2
  <2> QED BY <1>1, <2>2, <2>3, <2>4, DropStep, ApplyRangeStep DEF Shows
<1>3. CASE lastFind' = Seek(k, find.forward, find.till) /\ FindKey(k, find, cur)
  <2>1. Sought(lastFind')
    BY <1>1, <1>3 DEF Sought, Seek
  <2> QED BY <1>1, <1>3, <2>1, FindKeyStep
<1>4. CASE pend = "i" /\ ObjectKey(k, FALSE)
  <2>1. op
    BY <1>1, <1>4 DEF CommandOK
  <2>2. \A around : ObjectKey(k, around) => PanelInv' /\ Shows
    BY <1>1, <2>1, ObjectKeyStep
  <2> QED BY <1>4, <2>2, Zenon
<1>5. CASE pend = "a" /\ ObjectKey(k, TRUE)
  <2>1. op
    BY <1>1, <1>5 DEF CommandOK
  <2>2. \A around : ObjectKey(k, around) => PanelInv' /\ Shows
    BY <1>1, <2>1, ObjectKeyStep
  <2> QED BY <1>5, <2>2, Zenon
<1> QED BY <1>2, <1>3, <1>4, <1>5 DEF PendingKey

\* A digit.
LEMMA CountKeyStep == ASSUME PanelInv, NEW k, CountKey(k) PROVE PanelInv' /\ cur' = cur
<1>1. count \in Nat /\ CommandOK
  BY PanelAssumption DEF PanelInv, CommandOK
<1>2. count' \in 0 .. MaxCount
  <2>1. \A d \in DOMAIN Digits : Digits[d] \in Nat
    BY DEF Digits
  <2>2. count' = count * 10 + Digits[k] /\ count' <= MaxCount /\ Digits[k] \in Nat
    BY <2>1 DEF CountKey
  <2> QED BY <1>1, <2>2, PanelAssumption
<1>3. CommandOK'
  BY <1>1, <1>2 DEF CountKey, CommandOK
<1> QED BY <1>3, StillStep DEF CountKey

\* A command awaits the rest of itself, or is done.
LEMMA DispatchKeyStep == ASSUME PanelInv, NEW k, DispatchKey(k) PROVE PanelInv' /\ Shows
<1>1. raw # <<>> /\ CommandOK /\ pend = "none" /\ Sought(lastFind)
  BY DEF DispatchKey, Typed, PanelInv, CommandOK
<1>2. \A from, t : ApplyRange(from, t) /\ (op \/ Aims(t)) /\ UNCHANGED lastFind => PanelInv' /\ Shows
  <2> TAKE from, t
  <2> HAVE ApplyRange(from, t) /\ (op \/ Aims(t)) /\ UNCHANGED lastFind
  <2>1. Sought(lastFind')
    BY <1>1
  <2> QED BY <1>1, <2>1, ApplyRangeStep DEF Shows
<1>3. Still /\ NoYank /\ CommandOK' => PanelInv' /\ Shows
  BY StillStep DEF Shows
<1>4. ASSUME k = "y", op, UNCHANGED lastFind, NEW t, ApplyRange(Pos(cur.line, 0), t)
      PROVE  PanelInv' /\ Shows
  BY <1>2, <1>4
<1>5. CASE k = "y" /\ ~op /\ op' = TRUE /\ Still /\ NoYank /\ UNCHANGED <<pend, count, find, lastFind>>
  <2>1. CommandOK'
    BY <1>1, <1>5 DEF CommandOK
  <2> QED BY <1>3, <1>5, <2>1
<1>6. CASE k \in {"i", "a"} /\ op /\ Await(k) /\ UNCHANGED <<op, count, find, lastFind>>
  <2>1. CommandOK'
    BY <1>1, <1>6 DEF CommandOK, Await
  <2> QED BY <1>3, <1>6, <2>1 DEF Await
<1>7. CASE k = "g" /\ Await("g") /\ UNCHANGED <<op, count, find, lastFind>>
  <2>1. CommandOK'
    BY <1>1, <1>7 DEF CommandOK, Await
  <2> QED BY <1>3, <1>7, <2>1 DEF Await
<1>8. CASE k \in DOMAIN Seeks /\ find' = Seeks[k] /\ Await("find") /\ UNCHANGED <<op, count, lastFind>>
  <2>1. \A x \in {"f", "F", "t", "T"} : Sought(Seek("", x \in {"f", "t"}, x \in {"t", "T"}))
    BY DEF Seek, Sought
  <2>2. Sought(find')
    BY <1>8, <2>1, Zenon DEF Seeks
  <2>3. CommandOK'
    BY <1>1, <1>8, <2>2 DEF CommandOK, Await
  <2> QED BY <1>3, <1>8, <2>3 DEF Await
<1>9. ASSUME UNCHANGED lastFind, Drop PROVE PanelInv' /\ Shows
  BY <1>1, <1>9, DropStep DEF Shows
<1>10. ASSUME UNCHANGED lastFind, FindKey(lastFind.ch, lastFind, cur) PROVE PanelInv' /\ Shows
  <2>1. Sought(lastFind')
    BY <1>1, <1>10
  <2> QED BY <1>1, <1>10, <2>1, FindKeyStep
<1>11. CASE k \in MotionKeys /\ UNCHANGED lastFind /\ ApplyRange(cur, Target(k, EffectiveCount))
  <2>1. Aims(Target(k, EffectiveCount))
    BY <1>1, <1>11, CountIs, TargetAims
  <2> QED BY <1>2, <1>11, <2>1
<1> QED
  <2>1. \/ \E t : k = "y" /\ op /\ UNCHANGED lastFind /\ ApplyRange(Pos(cur.line, 0), t)
        \/ k = "y" /\ ~op /\ op' = TRUE /\ Still /\ NoYank /\ UNCHANGED <<pend, count, find, lastFind>>
        \/ k \in {"i", "a"} /\ op /\ Await(k) /\ UNCHANGED <<op, count, find, lastFind>>
        \/ k = "g" /\ Await("g") /\ UNCHANGED <<op, count, find, lastFind>>
        \/ k \in DOMAIN Seeks /\ find' = Seeks[k] /\ Await("find") /\ UNCHANGED <<op, count, lastFind>>
        \/ UNCHANGED lastFind /\ Drop
        \/ UNCHANGED lastFind /\ FindKey(lastFind.ch, lastFind, cur)
        \/ k \in MotionKeys /\ UNCHANGED lastFind /\ ApplyRange(cur, Target(k, EffectiveCount))
    BY Zenon DEF DispatchKey
  <2> QED BY <2>1, <1>4, <1>5, <1>6, <1>7, <1>8, <1>9, <1>10, <1>11

-----------------------------------------------------------------------------
(* The mouse.                                                              *)

\* The rows above this one that belong to its line, to the first that does not.
Above(k) == {j \in 1 .. k - 1 : \A i \in j .. k - 1 : rows[i].line = rows[k].line}

\* There are finitely many.
LEMMA AboveIs ==
  ASSUME NEW k \in Nat
  PROVE  IsFiniteSet(Above(k)) /\ Cardinality(Above(k)) \in Nat
<1>1. IsFiniteSet(1 .. k - 1)
  BY FS_Interval
<1>2. IsFiniteSet(Above(k))
  BY <1>1, FS_Subset DEF Above
<1> QED BY <1>2, FS_CardinalityType

\* The column a click finds is a column.
LEMMA ColForRenderedRowIs ==
  ASSUME DocOK, LookOK, NEW row \in Nat, NEW x \in Int
  PROVE  /\ ColForRenderedRow(row, x) \in Nat
         /\ ColForRenderedRow(row, x) =
              Max({0, Min({(IF wrap THEN Cardinality(Above(row + 1)) ELSE 0)
                             * ContentWidth(size, inCopy, gutter) + x,
                           Width(raw, rows[row + 1].line) - 1})})
<1> DEFINE piece == IF wrap THEN Cardinality(Above(row + 1)) ELSE 0
           line == rows[row + 1].line
           cw == ContentWidth(size, inCopy, gutter)
<1>1. ColForRenderedRow(row, x) = Max({0, Min({piece * cw + x, Width(raw, line) - 1})})
  <2>1. (row + 1) - 1 = row
    OBVIOUS
  <2>2. Above(row + 1) = {j \in 1 .. row : \A i \in j .. row : rows[i].line = line}
    BY <2>1, Zenon DEF Above
  <2> QED BY <2>2, Zenon DEF ColForRenderedRow
<1>2. piece \in Nat
  <2>1. row + 1 \in Nat
    OBVIOUS
  <2> QED BY <2>1, AboveIs
<1>3. cw \in Nat
  BY SizesArePanes, Geometry DEF LookOK, Pane
<1>4. Width(raw, line) \in Nat
  BY TextTyping DEF DocOK
<1> HIDE DEF piece, line, cw
<1>5. piece * cw + x \in Int
  BY <1>2, <1>3
<1>6. Min({piece * cw + x, Width(raw, line) - 1}) \in Int
  BY <1>4, <1>5, MinPair
<1>7. \A m \in Int : Max({0, m}) \in Nat
  BY MaxPair
<1> QED BY <1>1, <1>6, <1>7 DEF piece, line, cw

\* A click leads to a place, or nowhere.
LEMMA MouseToCursorIs ==
  ASSUME PanelInv, NEW x \in Int, NEW y \in Int
  PROVE  MouseToCursor(x, y) \in Places \cup {Nowhere}
<1> DEFINE row == yoff + y - 1
<1>1. yoff \in Nat /\ Len(rows) \in Nat /\ \A k \in 1 .. Len(rows) : rows[k].line \in Nat
  BY RowsTyping DEF PanelInv, WindowOK
<1>2. Pane(size)
  BY SizesArePanes DEF PanelInv, LookOK
<1>3. ContentX(x) \in Int
  <2>1. GutterWidth(inCopy, gutter) \in Nat
    BY <1>2, Geometry DEF Pane, PanelInv, LookOK
  <2>2. x - 1 - GutterWidth(inCopy, gutter) \in Int
    BY <2>1
  <2>3. \A m \in Int : Max({0, m}) \in Int
    BY MaxPair
  <2> QED BY <2>2, <2>3 DEF ContentX
<1>4. ASSUME InPane(x, y), raw # <<>>, row >= Len(rows) PROVE Pos(LastLine(raw), 0) \in Places
  <2>1. LastLine(raw) \in Nat
    BY <1>4, BufferEnds DEF PanelInv, DocOK
  <2> QED BY <2>1 DEF Pos, Places
<1>5. ASSUME InPane(x, y), ~(row >= Len(rows))
      PROVE  Pos(rows[row + 1].line, ColForRenderedRow(row, ContentX(x))) \in Places
  <2>1. row \in Nat /\ row + 1 \in 1 .. Len(rows)
    BY <1>1, <1>2, <1>5 DEF InPane, Pane
  <2>2. rows[row + 1].line \in Nat
    BY <1>1, <2>1
  <2> HIDE DEF row
  <2>3. ColForRenderedRow(row, ContentX(x)) \in Nat
    BY <1>3, <2>1, ColForRenderedRowIs DEF PanelInv
  <2> QED BY <2>2, <2>3 DEF Pos, Places
<1>6. \/ MouseToCursor(x, y) = Nowhere
      \/ /\ InPane(x, y) /\ raw # <<>> /\ row >= Len(rows)
         /\ MouseToCursor(x, y) = Pos(LastLine(raw), 0)
      \/ /\ InPane(x, y) /\ ~(row >= Len(rows))
         /\ MouseToCursor(x, y) = Pos(rows[row + 1].line, ColForRenderedRow(row, ContentX(x)))
  BY Zenon DEF MouseToCursor
<1> HIDE DEF row
<1> QED BY <1>4, <1>5, <1>6

\* A drag outside the pane leads to a place.
LEMMA ClampToPaneIs ==
  ASSUME PanelInv, NEW x \in Int, NEW y \in Int
  PROVE  ClampToPane(x, y) \in Places
<1> DEFINE row == CASE y < 1 -> Min({yoff, Len(rows) - 1})
                    [] y >= size.h - 1 -> Min({yoff + VpHeight(size) - 1, Len(rows) - 1})
                    [] OTHER -> yoff + y - 1
           line == rows[row + 1].line
           c == IF y >= size.h - 1 \/ x >= size.w - 1 THEN LastCol(line) ELSE 0
<1>1. Len(rows) \in Nat /\ yoff \in Nat /\ \A k \in 1 .. Len(rows) : rows[k].line \in Nat
  BY RowsTyping DEF PanelInv, WindowOK
<1>2. row \in Int
  <2>1. VpHeight(size) \in Nat
    <3>1. 0 \in Int
      OBVIOUS
    <3> QED BY <3>1, WindowBounds DEF PanelInv
  <2>2. /\ Len(rows) - 1 \in Int /\ yoff \in Int /\ yoff + VpHeight(size) - 1 \in Int
        /\ yoff + y - 1 \in Int
    BY <1>1, <2>1
  <2>3. \A a, b \in Int : Min({a, b}) \in Int
    BY MinPair
  <2>4. Min({yoff, Len(rows) - 1}) \in Int /\ Min({yoff + VpHeight(size) - 1, Len(rows) - 1}) \in Int
    BY <2>2, <2>3, Zenon
  <2> QED BY <2>2, <2>4
<1>3. ClampToPane(x, y) = IF raw = <<>> \/ row < 0 \/ row >= Len(rows) THEN drag.at
                          ELSE IF y < 1 THEN Pos(line, 0)
                          ELSE IF line > LastLine(raw) THEN drag.at
                          ELSE Pos(line, c)
  BY Zenon DEF ClampToPane
<1>4. drag.at \in Places
  BY DEF PanelInv, PlacesOK
<1>5. c \in Nat
  <2>1. Width(raw, line) \in Nat
    BY TextTyping DEF PanelInv, DocOK
  <2>2. \A m \in Nat : Max({0, m - 1}) \in Nat
    BY MaxPair
  <2>3. LastCol(line) \in Nat
    BY <2>1, <2>2, Zenon DEF LastCol
  <2> QED BY <2>3, Zenon
<1> HIDE DEF c, row
<1>6. ~(row < 0 \/ row >= Len(rows)) => line \in Nat
  BY <1>1, <1>2
<1> HIDE DEF line
<1>7. line \in Nat => Pos(line, 0) \in Places /\ Pos(line, c) \in Places
  BY <1>5 DEF Pos, Places
<1> QED BY <1>3, <1>4, <1>6, <1>7

\* The mouse goes down: the cursor and the selection begin there.
LEMMA MousePressStep ==
  ASSUME PanelInv, NEW x \in Int, NEW y \in Int, MousePress(x, y)
  PROVE  PanelInv' /\ drag'.pressed
<1>1. cur' \in Places
  BY MouseToCursorIs DEF MousePress
<1>2. sel' = [mode |-> "char", anchor |-> cur'] /\ drag' = [pressed |-> TRUE, at |-> cur']
  BY DEF MousePress
<1>3. PlacesOK' /\ drag'.pressed
  BY <1>1, <1>2 DEF PlacesOK
<1>4. LookOK'
  BY DEF MousePress, PanelInv, LookOK, lookVars
<1>5. CommandOK'
  BY CommandKept DEF MousePress, PanelInv
<1>6. Paint /\ KeepOffset /\ UNCHANGED docVars /\ UNCHANGED findVars
  BY DEF MousePress
<1>7. crashed' \in BOOLEAN
  BY <1>4, <1>6, DocKept, PaintKeeps DEF PanelInv
<1>8. FlagsOK'
  BY <1>7 DEF MousePress, PanelInv, FlagsOK, NoYank
<1> QED BY <1>3, <1>4, <1>5, <1>6, <1>8, PaintStep

\* The mouse moves with the button down.
LEMMA MouseMotionStep ==
  ASSUME PanelInv, NEW x \in Int, NEW y \in Int, MouseMotion(x, y)
  PROVE  PanelInv'
<1>1. cur' \in Places
  BY MouseToCursorIs, ClampToPaneIs DEF MouseMotion
<1>2. PlacesOK'
  BY <1>1 DEF MouseMotion, PanelInv, PlacesOK
<1>3. LookOK' /\ UNCHANGED <<sticky, paused, copying>>
  BY DEF MouseMotion, PanelInv, LookOK, lookVars, NoYank
<1>4. CommandOK'
  BY CommandKept DEF MouseMotion, PanelInv
<1>5. Paint /\ KeepOffset /\ UNCHANGED docVars /\ UNCHANGED findVars
  BY DEF MouseMotion
<1> QED BY <1>2, <1>3, <1>4, <1>5, PaintStep

\* The mouse goes up.
LEMMA MouseReleaseStep == ASSUME PanelInv, MouseRelease PROVE PanelInv' /\ cur' = cur
<1>1. LookOK' /\ UNCHANGED <<sticky, paused, cur>> /\ UNCHANGED docVars /\ UNCHANGED findVars
  BY DEF MouseRelease, PanelInv, LookOK, lookVars
<1>2. PlacesOK'
  <2>1. NoDrag.at \in Places /\ NoDrag.pressed = FALSE
    BY DEF NoDrag, Home, Pos, Places
  <2> QED BY <1>1, <2>1, NoSelIs DEF MouseRelease, PanelInv, PlacesOK
<1>3. CommandOK'
  BY CommandKept DEF MouseRelease, PanelInv
<1>4. copying' \in BOOLEAN
  <2>1. UNCHANGED copying \/ \E cells : Yank(cells)
    BY DEF MouseRelease, NoYank
  <2>2. \A cells : Yank(cells) => copying' \in BOOLEAN
    BY Zenon DEF Yank
  <2> QED BY <2>1, <2>2 DEF PanelInv, FlagsOK
<1>5. CASE crashed' = TRUE /\ UNCHANGED <<rows, shown, paintedAt, yoff>>
  <2>1. DocOK' /\ HitsOK'
    BY <1>1, DocKept, HitsKept DEF PanelInv, docVars
  <2>2. FlagsOK'
    BY <1>1, <1>4, <1>5 DEF PanelInv, FlagsOK
  <2>3. RowsOK' /\ WindowOK'
    BY <1>1, <1>5 DEF MouseRelease, PanelInv, RowsOK, WindowOK, docVars, lookVars
  <2>4. SelectionOK'
    BY NoSelIs DEF MouseRelease, SelectionOK, HasSel
  <2> QED BY <1>1, <1>2, <1>3, <2>1, <2>2, <2>3, <2>4 DEF PanelInv
<1>6. CASE Paint /\ KeepOffset
  <2>1. crashed' \in BOOLEAN
    BY <1>1, <1>6, DocKept, PaintKeeps DEF PanelInv
  <2>2. FlagsOK'
    BY <1>1, <1>4, <2>1 DEF PanelInv, FlagsOK
  <2> QED BY <1>1, <1>2, <1>3, <1>6, <2>2, PaintStep
<1> QED BY <1>5, <1>6 DEF MouseRelease

-----------------------------------------------------------------------------
(* The invariant of every step.                                            *)

\* A new panel shows nothing.
LEMMA PanelStarts == Init => PanelInv
<1> SUFFICES ASSUME Init PROVE PanelInv
  OBVIOUS
<1>1. Buffer(<<>>) /\ LastLine(<<>>) = -1
  BY DEF Buffer, LastLine
<1>2. DocOK
  BY <1>1 DEF Init, DocOK
<1>3. LookOK /\ FlagsOK
  BY DEF Init, LookOK, FlagsOK
<1>4. PlacesOK
  <2>1. NoDrag.at \in Places /\ NoDrag.pressed = FALSE
    BY DEF NoDrag, Home, Pos, Places
  <2> QED BY <2>1, NoSelIs DEF Init, PlacesOK
<1>5. CommandOK
  <2>1. pend = "none" /\ op = FALSE /\ count = 0 /\ find = NoSeek /\ lastFind = NoSeek
    BY DEF Init
  <2>2. 0 \in 0 .. MaxCount
    BY PanelAssumption
  <2> QED BY <2>1, <2>2, NoSeekIs DEF CommandOK
<1>6. HitsOK
  <2> DEFINE m == Matches(raw, filter)
  <2>1. FoundIn(raw, filter, Len(raw), m)
    BY <1>2, MatchesAre DEF DocOK
  <2>2. Len(raw) = 0
    BY DEF Init
  <2> HIDE DEF m
  <2>3. m \in Seq(Nat) /\ \A i \in DOMAIN m : ~(m[i] \in Nat)
    BY <2>1, <2>2 DEF FoundIn
  <2>4. \A i \in 1 .. Len(m) : m[i] \in Nat /\ i \in DOMAIN m
    BY <2>3
  <2>5. m = <<>>
    BY <2>3, <2>4
  <2>6. hits = m /\ hit \in 0 .. Len(hits) /\ filter \in Filters \cup {NoFilter}
    BY <2>5 DEF Init
  <2> QED BY <2>6 DEF HitsOK, m
<1>7. RowsOK
  <2>1. \A copy, g \in BOOLEAN : ContentWidth(size, copy, g) \in Nat \ {0}
    BY <1>3, SizesArePanes, Geometry DEF LookOK, Pane
  <2>2. ContentWidth(size, FALSE, FALSE) \in Nat \ {0}
    BY <2>1, Zenon
  <2>3. paintedAt \in Nat \ {0}
    BY <2>2 DEF Init
  <2>4. rows = <<>> /\ raw = <<>>
    BY DEF Init
  <2>5. RowsGood(rows, raw, wrap, paintedAt)
    BY <1>1, <2>4 DEF RowsGood
  <2> QED BY <2>3, <2>5 DEF RowsOK
<1>8. WindowOK /\ SelectionOK
  BY NoSelIs DEF Init, WindowOK, SelectionOK, HasSel
<1> QED BY <1>2, <1>3, <1>4, <1>5, <1>6, <1>7, <1>8 DEF PanelInv

\* Every step keeps the invariant.
LEMMA PanelSteps == PanelInv /\ [Next]_vars => PanelInv'
<1> SUFFICES ASSUME PanelInv, [Next]_vars PROVE PanelInv'
  OBVIOUS
<1>1. CASE \E lines \in Logs : SetLines(lines)
  BY <1>1, SetLinesStep
<1>2. CASE SetJSONPretty \/ SetGutter \/ SetWrap \/ TogglePaused
  BY <1>2, SetJSONPrettyStep, SetGutterStep, SetWrapStep, TogglePausedStep
<1>3. CASE \E s \in Sizes : SetSize(s)
  BY <1>3, SetSizeStep
<1>4. CASE \E ch \in Filters : SetFilter(ch)
  BY <1>4, SetFilterStep
<1>5. CASE ScrollBack \/ ScrollOn \/ ScrollEnd \/ Wheel \/ JumpMatch
  BY <1>5, ScrollKeysStep, WheelStep, JumpMatchStep
<1>6. CASE EnterCopy \/ LeaveCopy \/ ClearPending \/ ClearSelection \/ Copied
  BY <1>6, EnterCopyStep, LeaveCopyStep, ClearPendingStep, ClearSelectionStep, CopiedStep
<1>7. CASE \E k \in Keys : VisualKey(k) \/ PendingKey(k) \/ CountKey(k) \/ DispatchKey(k)
  BY <1>7, VisualKeyStep, PendingKeyStep, CountKeyStep, DispatchKeyStep
<1>8. CASE \E c \in Clicks : MousePress(c[1], c[2]) \/ MouseMotion(c[1], c[2])
  <2>1. \A c \in Clicks : c[1] \in Int /\ c[2] \in Int
    BY PanelAssumption
  <2> QED BY <1>8, <2>1, MousePressStep, MouseMotionStep
<1>9. CASE MouseRelease
  BY <1>9, MouseReleaseStep
<1>10. CASE UNCHANGED vars
  <2>1. DocOK' /\ CommandOK' /\ PlacesOK' /\ HitsOK'
    BY <1>10, DocKept, CommandKept, PlacesKept, HitsKept DEF PanelInv, vars, docVars
  <2>2. LookOK' /\ FlagsOK' /\ UNCHANGED wrap
    BY <1>10 DEF PanelInv, LookOK, FlagsOK, vars, lookVars, paintVars
  <2> QED BY <1>10, <2>1, <2>2, QuietStep DEF vars
<1> QED BY <1>1, <1>2, <1>3, <1>4, <1>5, <1>6, <1>7, <1>8, <1>9, <1>10, Zenon DEF Next

\* Every reachable panel shows good rows, its selection and its matches.
THEOREM PanelHolds == Spec => []PanelInv
BY PanelStarts, PanelSteps, PTL DEF Spec

-----------------------------------------------------------------------------
(* What the panel promises.                                                *)

\* The highlighted cells are those a copy would take.
LEMMA SelectionHeld == PanelInv => SelectionShown
<1> SUFFICES ASSUME PanelInv, HasSel(sel) PROVE shown = YankText(raw, sel, cur)
  BY DEF SelectionShown
<1>1. sel.mode \in {"char", "line"} /\ sel.anchor \in Places /\ cur \in Places
  BY DEF PanelInv, PlacesOK, HasSel
<1>2. Overlay(raw, sel, cur) = YankText(raw, sel, cur)
  BY <1>1, OverlayIsYank DEF PanelInv, DocOK
<1> QED BY <1>2 DEF PanelInv, SelectionOK

\* What is highlighted is what a copy would take, after every step: each one that
\* moves an end of the selection or replaces the lines paints
\* (SelectionShown; overlaySelection, yankText).
THEOREM SelectionIsShown == Spec => []SelectionShown
BY SelectionHeld, PanelHolds, PTL

\* The matches that n and N walk are the lines in sight that match the filter
\* (HitsAreMatches; renderContent, SetLines, SetJSONPretty, CommitFilter).
THEOREM MatchesAreCurrent == Spec => []HitsAreMatches
<1>1. PanelInv => TypeOK
  <2> SUFFICES ASSUME PanelInv PROVE TypeOK
    OBVIOUS
  <2>1. cur.line >= 0 /\ cur.col >= 0
    BY DEF PanelInv, PlacesOK, Places
  <2> QED BY <2>1 DEF TypeOK, PanelInv, DocOK, LookOK, FlagsOK, PlacesOK, CommandOK, HitsOK, WindowOK
<1>2. PanelInv => HitsAreMatches
  <2> SUFFICES ASSUME PanelInv PROVE HitsAreMatches
    OBVIOUS
  <2>1. FoundIn(raw, filter, Len(raw), hits)
    BY MatchesAre DEF PanelInv, DocOK, HitsOK
  <2>2. Len(raw) \in Nat
    BY DEF PanelInv, DocOK, Buffer
  <2>3. ASSUME NEW l \in 0 .. LastLine(raw)
        PROVE  (\E i \in DOMAIN hits : hits[i] = l) = (filter # NoFilter /\ Contains(Text(raw, l), filter))
    <3>1. l \in Nat /\ l < Len(raw) /\ l \in 0 .. Len(raw) - 1
      BY <2>2 DEF LastLine
    <3>2. Text(raw, l) = raw[l + 1]
      BY <3>1 DEF Text
    <3>3. (\E i \in DOMAIN hits : hits[i] = l) <=> Matching(raw, filter, l + 1)
      BY <2>1, <3>1 DEF FoundIn
    <3> QED BY <3>2, <3>3, Zenon DEF Matching
  <2>4. hit # 0 => hits[hit] <= LastLine(raw)
    <3> SUFFICES ASSUME hit # 0 PROVE hits[hit] <= LastLine(raw)
      OBVIOUS
    <3>1. hits \in Seq(Nat) /\ hit \in 1 .. Len(hits)
      BY <2>1 DEF FoundIn, PanelInv, HitsOK
    <3>2. hit \in DOMAIN hits /\ hits[hit] \in Nat
      BY <3>1
    <3>3. hits[hit] < Len(raw)
      BY <2>1, <3>2 DEF FoundIn
    <3> QED BY <2>2, <3>2, <3>3 DEF LastLine
  <2> QED BY <1>1, <2>3, <2>4 DEF HitsAreMatches
<1> QED BY <1>2, PanelHolds, PTL

\* The keys that complete a command change no end of a selection but the cursor,
\* and no button.
LEMMA CommandKeysHold ==
  ASSUME NEW k, PendingKey(k) \/ CountKey(k) \/ DispatchKey(k)
  PROVE  sel' = sel /\ drag' = drag
<1>1. (\E from, t : ApplyRange(from, t)) \/ Still => sel' = sel /\ drag' = drag
  BY DEF ApplyRange, Still
<1>2. \A kk, around : ObjectKey(kk, around) => Still \/ \E from, t : ApplyRange(from, t)
  BY Zenon DEF ObjectKey, Drop
<1>3. \A ch, seek, from : FindKey(ch, seek, from) => Still \/ \E f, t : ApplyRange(f, t)
  BY Zenon DEF FindKey, Drop
<1>4. PendingKey(k) => Still \/ \E from, t : ApplyRange(from, t)
  BY <1>2, <1>3, Zenon DEF PendingKey, Drop
<1>5. CountKey(k) => Still
  BY Zenon DEF CountKey
<1>6. DispatchKey(k) => Still \/ \E from, t : ApplyRange(from, t)
  BY <1>3, Zenon DEF DispatchKey, Drop, Await
<1> QED BY <1>1, <1>4, <1>5, <1>6

\* n and N leave the line jumped to in the window of a cursor that goes along.
LEMMA JumpMatchShows ==
  ASSUME PanelInv, JumpMatch, inCopy
  PROVE  InWindow(rows', yoff', size', cur'.line)
<1> DEFINE off == Within(MatchOffset(hits[hit']), rows', size)
<1>1. /\ DocOK' /\ LookOK' /\ PlacesOK' /\ RowsOK' /\ UNCHANGED <<raw, size, hits>>
  BY JumpPaints
<1>2. off \in 0 .. Len(rows')
  <2>1. Within(MatchOffset(hits[hit']), rows', size') \in 0 .. Len(rows')
    BY <1>1, JumpIs, WithinKeeps
  <2> QED BY <1>1, <2>1
<1>3. yoff' = CursorOffset(rows', cur'.line, off)
  BY DEF JumpMatch
<1>4. cur' = Pos(hits[hit'], 0) /\ hits[hit'] \in 0 .. LastLine(raw)
  BY JumpIs DEF JumpMatch
<1>5. cur'.line \in 0 .. LastLine(raw')
  BY <1>1, <1>4, PosIs
<1> HIDE DEF off
<1> QED BY <1>1, <1>2, <1>3, <1>5, FollowsCursor

\* A motion leaves the first row of the cursor's line in the window, under any
\* wrapping and after any scrolling: only a motion, a find, an object or a jump
\* moves the cursor within copy mode while no button is down, and each of them
\* lets the window follow it (MotionShowsCursor; ensureCursorVisible).
THEOREM MotionsShowCursor == Spec => MotionShowsCursor
<1> DEFINE Followed == inCopy /\ inCopy' /\ cur' # cur /\ drag = drag' /\ ~drag.pressed /\ ~crashed'
                       => InWindow(rows', yoff', size', cur'.line)
<1>1. PanelInv /\ [Next]_vars => [Followed]_vars
  <2> SUFFICES ASSUME PanelInv, Next PROVE Followed
    OBVIOUS
  <2>1. CASE \/ \E lines \in Logs : SetLines(lines)
             \/ SetJSONPretty \/ SetGutter \/ SetWrap \/ TogglePaused
             \/ \E s \in Sizes : SetSize(s)
             \/ \E ch \in Filters : SetFilter(ch)
             \/ ScrollBack \/ ScrollOn \/ ScrollEnd \/ Wheel
    BY <2>1 DEF SetLines, SetJSONPretty, SetGutter, SetWrap, TogglePaused, SetSize, SetFilter,
                ScrollBack, ScrollOn, ScrollEnd, ScrollTo, Wheel
  <2>2. CASE JumpMatch
    BY <2>2, JumpMatchShows
  <2>3. CASE EnterCopy \/ LeaveCopy \/ ClearPending \/ ClearSelection \/ Copied
    BY <2>3 DEF EnterCopy, LeaveCopy, ClearPending, ClearSelection, Copied, DropSelection
  <2>4. CASE \E k \in Keys : VisualKey(k) \/ PendingKey(k) \/ CountKey(k) \/ DispatchKey(k)
    BY <2>4, VisualKeyStep, PendingKeyStep, CountKeyStep, DispatchKeyStep DEF Shows
  <2>5. CASE \E c \in Clicks : MousePress(c[1], c[2]) \/ MouseMotion(c[1], c[2])
    <3>1. PICK c \in Clicks : MousePress(c[1], c[2]) \/ MouseMotion(c[1], c[2])
      BY <2>5
    <3>2. c[1] \in Int /\ c[2] \in Int
      BY PanelAssumption
    <3>3. CASE MousePress(c[1], c[2])
      BY <3>2, <3>3, MousePressStep
    <3>4. CASE MouseMotion(c[1], c[2])
      BY <3>4 DEF MouseMotion
    <3> QED BY <3>1, <3>3, <3>4
  <2>6. CASE MouseRelease
    BY <2>6, MouseReleaseStep
  <2> QED BY <2>1, <2>2, <2>3, <2>4, <2>5, <2>6 DEF Next
<1>2. Spec => [][Followed]_vars
  <2> HIDE DEF Followed
  <2> QED BY <1>1, PanelHolds, PTL DEF Spec
<1> QED BY <1>2 DEF MotionShowsCursor

\* What a drag or a visual yank copies is what was highlighted when it did
\* (CopiedWasShown; handleVisual, the release in Update).
THEOREM CopiesWhatWasShown == Spec => CopiedWasShown
<1> DEFINE Taken == HasSel(sel) /\ ~HasSel(sel)' /\ clip' # {} /\ ~crashed' => clip' = shown
<1>1. PanelInv => SelectionShown
  BY SelectionHeld
<1>2. PanelInv /\ [Next]_vars => [Taken]_vars
  <2> SUFFICES ASSUME PanelInv, Next PROVE Taken
    OBVIOUS
  <2>1. clip' = {} \/ sel' = sel \/ clip' = YankText(raw, sel, cur) => Taken
    BY <1>1 DEF SelectionShown, HasSel
  <2> HIDE DEF Taken
  <2>2. CASE \/ \E lines \in Logs : SetLines(lines)
             \/ SetJSONPretty \/ SetGutter \/ SetWrap \/ TogglePaused
             \/ \E s \in Sizes : SetSize(s)
             \/ \E ch \in Filters : SetFilter(ch)
             \/ ScrollBack \/ ScrollOn \/ ScrollEnd \/ Wheel \/ JumpMatch
    BY <2>1, <2>2 DEF SetLines, SetJSONPretty, SetGutter, SetWrap, TogglePaused, SetSize, SetFilter,
                ScrollBack, ScrollOn, ScrollEnd, ScrollTo, Wheel, JumpMatch
  <2>3. CASE EnterCopy \/ LeaveCopy \/ ClearPending \/ ClearSelection \/ Copied
    BY <2>1, <2>3 DEF EnterCopy, LeaveCopy, ClearPending, ClearSelection, Copied, DropSelection, NoYank
  <2>4. CASE \E k \in Keys : VisualKey(k)
    BY <2>1, <2>4 DEF VisualKey, NoYank, Still
  <2>5. CASE \E k \in Keys : PendingKey(k) \/ CountKey(k) \/ DispatchKey(k)
    BY <2>1, <2>5, CommandKeysHold
  <2>6. CASE \E c \in Clicks : MousePress(c[1], c[2]) \/ MouseMotion(c[1], c[2])
    BY <2>1, <2>6 DEF MousePress, MouseMotion, NoYank
  <2>7. CASE MouseRelease
    BY <2>1, <2>7 DEF MouseRelease, NoYank, Yank
  <2> QED BY <2>2, <2>3, <2>4, <2>5, <2>6, <2>7 DEF Next
<1>3. Spec => [][Taken]_vars
  <2> HIDE DEF Taken
  <2> QED BY <1>2, PanelHolds, PTL DEF Spec
<1> QED BY <1>3 DEF CopiedWasShown

-----------------------------------------------------------------------------
(* Clicks.                                                                 *)

\* A row of a wrapped line begins as many widths into it as there are rows of the
\* line above it.
LEMMA RowStartsAt ==
  ASSUME PanelInv, NEW k \in DOMAIN rows
  PROVE  rows[k].from = (IF wrap THEN Cardinality(Above(k)) ELSE 0) * paintedAt
<1> DEFINE At(n) == n + 1 \in DOMAIN rows => rows[n + 1].from = Cardinality(Above(n + 1)) * paintedAt
           S == {n \in Nat : At(n)}
<1>1. /\ Len(rows) \in Nat /\ DOMAIN rows = 1 .. Len(rows)
      /\ \A j \in DOMAIN rows : RowBegins(rows, j, wrap, paintedAt)
      /\ paintedAt \in Nat
  BY RowsTyping DEF PanelInv, RowsOK, RowsGood
<1>2. CASE ~wrap
  <2>1. rows[k].from = 0
    BY <1>1, <1>2 DEF RowBegins
  <2>2. 0 * paintedAt = 0
    BY <1>1
  <2> QED BY <1>2, <2>1, <2>2
<1>3. CASE wrap
  <2>1. 0 \in S
    <3>1. Above(1) = {}
      BY DEF Above
    <3>2. 1 \in DOMAIN rows => rows[1].from = 0
      <4>1. 1 \in DOMAIN rows => RowBegins(rows, 1, wrap, paintedAt)
        BY <1>1
      <4>2. ~(1 > 1)
        OBVIOUS
      <4> QED BY <4>1, <4>2, Zenon DEF RowBegins
    <3>3. Cardinality({}) = 0
      BY FS_EmptySet
    <3>4. Cardinality(Above(0 + 1)) * paintedAt = 0
      <4>1. 0 * paintedAt = 0
        BY <1>1
      <4>2. 0 + 1 = 1
        OBVIOUS
      <4> QED BY <3>1, <3>3, <4>1, <4>2, Zenon
    <3> QED BY <3>2, <3>4
  <2>2. ASSUME NEW n \in Nat, n \in S PROVE n + 1 \in S
    <3> DEFINE j == n + 1
    <3>1. j \in Nat /\ j >= 1 /\ j - 1 = n /\ n + 1 + 1 = j + 1 /\ (j + 1) - 1 = j
      OBVIOUS
    <3> HIDE DEF j
    <3> SUFFICES ASSUME j + 1 \in DOMAIN rows
                 PROVE  rows[j + 1].from = Cardinality(Above(j + 1)) * paintedAt
      BY <3>1 DEF j
    <3>2. j \in DOMAIN rows
      BY <1>1, <3>1
    <3>3. rows[j].from = Cardinality(Above(j)) * paintedAt
      BY <2>2, <3>2 DEF j
    <3>4. rows[j + 1].from = IF rows[j].line = rows[j + 1].line THEN rows[j].from + paintedAt ELSE 0
      <4>1. RowBegins(rows, j + 1, wrap, paintedAt) /\ j + 1 > 1
        BY <1>1, <3>1
      <4> QED BY <1>3, <3>1, <4>1 DEF RowBegins
    <3>5. CASE rows[j].line = rows[j + 1].line
      <4>1. Above(j + 1) = Above(j) \cup {j} /\ j \notin Above(j)
        <5>1. j \notin Above(j) /\ j \in Above(j + 1)
          BY <3>1, <3>5 DEF Above
        <5>2. ASSUME NEW i \in 1 .. j - 1 PROVE i \in Above(j) <=> i \in Above(j + 1)
          <6>1. i .. (j + 1) - 1 = (i .. j - 1) \cup {j} /\ i \in 1 .. (j + 1) - 1
            BY <3>1
          <6> QED BY <3>5, <6>1 DEF Above
        <5>3. 1 .. (j + 1) - 1 = (1 .. j - 1) \cup {j}
          BY <3>1
        <5>4. Above(j) \subseteq 1 .. j - 1 /\ Above(j + 1) \subseteq (1 .. j - 1) \cup {j}
          BY <5>3 DEF Above
        <5> QED BY <5>1, <5>2, <5>4
      <4>2. IsFiniteSet(Above(j)) /\ Cardinality(Above(j)) \in Nat
        BY <3>1, AboveIs
      <4>3. Cardinality(Above(j + 1)) = Cardinality(Above(j)) + 1
        BY <4>1, <4>2, FS_AddElement
      <4>4. \A a, b \in Nat : (a + 1) * b = a * b + b
        OBVIOUS
      <4> QED BY <1>1, <3>3, <3>4, <3>5, <4>2, <4>3, <4>4
    <3>6. CASE rows[j].line # rows[j + 1].line
      <4>1. Above(j + 1) = {}
        <5>1. ASSUME NEW i \in Above(j + 1) PROVE FALSE
          <6>1. i \in 1 .. j /\ \A h \in i .. j : rows[h].line = rows[j + 1].line
            BY <3>1, <5>1 DEF Above
          <6>2. j \in i .. j
            BY <3>1, <6>1
          <6> QED BY <3>6, <6>1, <6>2
        <5> QED BY <5>1
      <4>2. Cardinality({}) = 0 /\ 0 * paintedAt = 0
        BY <1>1, FS_EmptySet
      <4> QED BY <3>4, <3>6, <4>1, <4>2
    <3> QED BY <3>5, <3>6
  <2>3. k - 1 \in Nat /\ (k - 1) + 1 = k /\ k - 1 \in 0 .. k - 1
    BY <1>1
  <2>4. k - 1 \in S
    <3> DEFINE n == k - 1
    <3>1. n \in Nat /\ n \in 0 .. n /\ \A i \in 0 .. n - 1 : i \in Nat
      BY <2>3
    <3> HIDE DEF S, n
    <3>2. 0 .. n \subseteq S
      BY <2>1, <2>2, <3>1, CountingUp
    <3> QED BY <3>1, <3>2 DEF n
  <2>5. At(k - 1)
    BY <2>4
  <2> QED BY <1>3, <2>3, <2>5
<1> QED BY <1>2, <1>3

\* A row whose line is there is the row a click on one of its characters finds.
LEMMA ClickIsFound ==
  ASSUME PanelInv, PaintedNow, NEW m \in DOMAIN rows,
         NEW c \in rows[m].from .. rows[m].to - 1, c < Width(raw, rows[m].line),
         NEW x, x = 1 + GutterWidth(inCopy, gutter) + c - rows[m].from, x <= size.w - 3,
         m - 1 \in yoff .. yoff + VpHeight(size) - 1
  PROVE  MouseToCursor(x, m - yoff) = Pos(rows[m].line, c)
<1> DEFINE gw == GutterWidth(inCopy, gutter)
           cw == ContentWidth(size, inCopy, gutter)
           l == rows[m].line
           from == rows[m].from
           above == IF wrap THEN Cardinality(Above(m)) ELSE 0
           y == m - yoff
<1>1. /\ Len(rows) \in Nat /\ m \in 1 .. Len(rows) /\ l \in Nat /\ from \in Int /\ yoff \in Nat
      /\ rows[m].to \in Int
  BY RowsTyping DEF PanelInv, WindowOK
<1>2. Pane(size)
  BY SizesArePanes DEF PanelInv, LookOK
<1>3. /\ gw \in Nat /\ VpWidth(size, inCopy, gutter) \in Int
      /\ VpWidth(size, inCopy, gutter) >= size.w - 3 - gw /\ VpHeight(size) = size.h - 2
      /\ cw \in Nat
  BY <1>2, Geometry DEF PanelInv, LookOK, Pane
<1>4. above \in Nat
  BY <1>1, AboveIs
<1>5. from = above * cw
  BY RowStartsAt DEF PaintedNow
<1>6. from >= 0
  <2>1. \A a, b \in Nat : a * b >= 0
    OBVIOUS
  <2> HIDE DEF above, cw, from
  <2> QED BY <1>3, <1>4, <1>5, <2>1
<1>7. c \in Nat /\ c >= from
  BY <1>1, <1>6
<1>8. Width(raw, l) \in Nat /\ c <= Width(raw, l) - 1
  <2>1. Width(raw, l) \in Nat
    BY TextTyping DEF PanelInv, DocOK
  <2> QED BY <1>7, <2>1
<1>9. raw # <<>> /\ l <= LastLine(raw)
  <2>1. Text(raw, l) # <<>>
    <3>1. Len(<<>>) = 0
      OBVIOUS
    <3> QED BY <1>7, <1>8, <3>1 DEF Width
  <2>2. l \in 0 .. Len(raw) - 1 /\ Len(raw) \in Nat
    BY <2>1 DEF Text, PanelInv, DocOK, Buffer
  <2> QED BY <2>2 DEF LastLine
<1>10. x \in Int /\ x >= 1 /\ x - 1 - gw = c - from
  <2>1. \A g, d \in Nat : \A f \in Int : d >= f => /\ 1 + g + d - f \in Int /\ 1 + g + d - f >= 1
                                                /\ (1 + g + d - f) - 1 - g = d - f
    OBVIOUS
  <2>2. x = 1 + gw + c - from
    OBVIOUS
  <2> HIDE DEF gw, from
  <2>3. 1 + gw + c - from \in Int /\ 1 + gw + c - from >= 1 /\ (1 + gw + c - from) - 1 - gw = c - from
    BY <1>1, <1>3, <1>7, <2>1
  <2> QED BY <2>2, <2>3
<1>11. InPane(x, y)
  <2>1. x \in 1 .. size.w - 2
    BY <1>2, <1>10 DEF Pane
  <2>2. y \in 1 .. size.h - 2
    <3>1. size.h - 2 \in Nat /\ m \in Nat
      <4>1. \A h \in Nat \ {0, 1, 2} : h - 2 \in Nat
        OBVIOUS
      <4>2. size.h - 2 \in Nat
        BY <1>2, <4>1, Zenon DEF Pane
      <4> QED BY <1>1, <4>2
    <3>2. yoff <= m - 1 /\ m - 1 <= yoff + (size.h - 2) - 1
      BY <1>1, <1>3, <3>1
    <3>3. yoff \in Nat /\ y = m - yoff
      BY <1>1
    <3> QED BY <3>1, <3>2, <3>3
  <2>3. x - 1 < VpWidth(size, inCopy, gutter) + gw
    BY <1>2, <1>3, <1>10 DEF Pane
  <2> QED BY <2>1, <2>2, <2>3 DEF InPane
<1>12. ContentX(x) = c - from
  <2>1. c - from \in Nat
    BY <1>1, <1>7
  <2>2. \A n \in Nat : Max({0, n}) = n
    BY MaxPair
  <2>3. Max({0, c - from}) = c - from
    BY <2>1, <2>2
  <2> QED BY <1>10, <2>3 DEF ContentX
<1>13. yoff + y - 1 = m - 1 /\ m - 1 \in Nat /\ (m - 1) + 1 = m /\ ~(m - 1 >= Len(rows))
  BY <1>1
<1>14. ColForRenderedRow(m - 1, c - from) = c
  <2>1. c - from \in Int
    BY <1>1, <1>7
  <2>2. ColForRenderedRow(m - 1, c - from) = Max({0, Min({above * cw + (c - from), Width(raw, l) - 1})})
    <3>1. \A row \in Nat : \A dx \in Int : ColForRenderedRow(row, dx) =
            Max({0, Min({(IF wrap THEN Cardinality(Above(row + 1)) ELSE 0)
                           * ContentWidth(size, inCopy, gutter) + dx,
                         Width(raw, rows[row + 1].line) - 1})})
      BY ColForRenderedRowIs DEF PanelInv
    <3>2. \A dx \in Int : ColForRenderedRow(m - 1, dx) =
            Max({0, Min({(IF wrap THEN Cardinality(Above((m - 1) + 1)) ELSE 0)
                           * ContentWidth(size, inCopy, gutter) + dx,
                         Width(raw, rows[(m - 1) + 1].line) - 1})})
      BY <1>13, <3>1, Zenon
    <3> QED BY <1>13, <2>1, <3>2, Zenon
  <2>3. above * cw + (c - from) = c
    <3> HIDE DEF above, cw, from
    <3>1. from + (c - from) = c
      BY <1>1, <1>7
    <3> QED BY <1>5, <3>1
  <2>4. \A w \in Int : c <= w => Min({c, w}) = c
    BY <1>7, MinPair
  <2>5. Width(raw, l) - 1 \in Int
    BY <1>8
  <2>6. Min({c, Width(raw, l) - 1}) = c
    BY <1>8, <2>4, <2>5
  <2>7. Max({0, c}) = c
    BY <1>7, MaxPair
  <2> HIDE DEF above, cw, from, l
  <2> QED BY <2>2, <2>3, <2>6, <2>7
<1> HIDE DEF from
<1>15. MouseToCursor(x, y) = Pos(l, ColForRenderedRow(m - 1, ContentX(x)))
  <2>1. ~(rows[(m - 1) + 1].line > LastLine(raw)) /\ rows[(m - 1) + 1].line = l
    <3>1. LastLine(raw) \in Int
      BY TextTyping DEF PanelInv, DocOK
    <3> QED BY <1>1, <1>9, <1>13, <3>1
  <2> HIDE DEF l, y
  <2> QED BY <1>9, <1>11, <1>13, <2>1, Zenon DEF MouseToCursor
<1> QED BY <1>12, <1>14, <1>15

\* A click on a character that is in sight puts the cursor on that character,
\* through the gutter, the offset and the wrapping, whatever the size of the pane,
\* as long as the rows were painted for its width
\* (ClickRoundTrip; absToContent, mouseToCursor, colForRenderedRow).
THEOREM ClicksFindWhatTheyShow == Spec => []ClickRoundTrip
<1>1. PanelInv => ClickRoundTrip
  <2> SUFFICES ASSUME PanelInv, PaintedNow, NEW k \in DOMAIN rows,
                      NEW c \in rows[k].from .. rows[k].to - 1, c < Width(raw, rows[k].line)
               PROVE  ClickFinds(rows[k], c)
    BY DEF ClickRoundTrip
  <2> DEFINE x == 1 + GutterWidth(inCopy, gutter) + c - rows[k].from
  <2>1. SUFFICES ASSUME ~(x > size.w - 3), NEW m \in DOMAIN rows, rows[m] = rows[k],
                        m - 1 \in yoff .. yoff + VpHeight(size) - 1
                 PROVE  MouseToCursor(x, m - yoff) = Pos(rows[k].line, c)
    BY Zenon DEF ClickFinds
  <2>2. x \in Int /\ size.w \in Nat
    <3>1. size.w \in Nat /\ GutterWidth(inCopy, gutter) \in Nat
      BY SizesArePanes, Geometry DEF PanelInv, LookOK, Pane
    <3>2. rows[k].from \in Int /\ rows[k].to \in Int
      BY RowsTyping DEF PanelInv
    <3> QED BY <3>1, <3>2
  <2>3. x <= size.w - 3
    BY <2>1, <2>2
  <2>4. /\ c \in rows[m].from .. rows[m].to - 1 /\ c < Width(raw, rows[m].line)
        /\ x = 1 + GutterWidth(inCopy, gutter) + c - rows[m].from
    BY <2>1
  <2> HIDE DEF x
  <2>5. MouseToCursor(x, m - yoff) = Pos(rows[m].line, c)
    BY <2>1, <2>3, <2>4, ClickIsFound
  <2> QED BY <2>1, <2>5
<1> QED BY <1>1, PanelHolds, PTL

-----------------------------------------------------------------------------
(* The word motions against their references.                              *)

\* The buffer a cursor walks, and the cursor in it.
WalkInv == Buffer(buffer) /\ buffer # <<>> /\ at \in Cursors(buffer) /\ big \in BOOLEAN

\* No word motion leaves the buffer.
LEMMA WalkHolds == WalkSpec => []WalkInv
<1>1. WalkInit => WalkInv
  BY BuffersAssumption, LinesAreBuffers DEF WalkInit, WalkInv
<1>2. WalkInv /\ [WalkNext]_walkVars => WalkInv'
  <2> SUFFICES ASSUME WalkInv, [WalkNext]_walkVars PROVE WalkInv'
    OBVIOUS
  <2>1. CASE UNCHANGED walkVars
    BY <2>1 DEF WalkInv, walkVars
  <2>2. CASE WalkNext
    <3>1. buffer' = buffer /\ big' = big
      BY <2>2 DEF WalkNext, KeyW, KeyB, KeyE, KeyGE, Walk
    <3>2. at' \in Cursors(buffer)
      BY <2>2, ForwardInBuffer, BackwardInBuffer, EndInBuffer, EndBackInBuffer
         DEF WalkInv, WalkNext, KeyW, KeyB, KeyE, KeyGE, Walk
    <3> QED BY <3>1, <3>2 DEF WalkInv
  <2> QED BY <2>1, <2>2
<1> QED BY <1>1, <1>2, PTL DEF WalkSpec

\* A wrapped line loses no column and repeats none, and no row is wider than the
\* pane (WrapKeepsAll; wrapLine).
THEOREM WrappingKeepsAll == WalkSpec => []WrapKeepsAll
<1>1. WalkInv => WrapKeepsAll
  <2> SUFFICES ASSUME WalkInv, NEW width \in 1 .. 4
               PROVE  LET r == WrapLine(Width(buffer, at.line), width) IN
                      /\ r[1].from = 0 /\ r[Len(r)].to = Width(buffer, at.line)
                      /\ \A k \in DOMAIN r : r[k].to - r[k].from <= width
                      /\ \A k \in 1 .. Len(r) - 1 : r[k].to = r[k + 1].from /\ r[k].from < r[k].to
    BY Zenon DEF WrapKeepsAll
  <2>1. Width(buffer, at.line) \in Nat
    BY TextTyping DEF WalkInv
  <2>2. width \in Nat \ {0}
    OBVIOUS
  <2> QED BY <2>1, <2>2, WrapIs
<1> QED BY <1>1, WalkHolds, PTL

\* Two places are in one order or the other, or the same.
LEMMA PlacesOrdered ==
  ASSUME NEW p \in Places, NEW q \in Places, ~Before(p, q), ~Before(q, p)
  PROVE  p = q
<1>1. p.line = q.line /\ p.col = q.col
  BY DEF Before, Places
<1>2. p = Pos(p.line, p.col) /\ q = Pos(q.line, q.col)
  BY DEF Pos, Places
<1> QED BY <1>1, <1>2

\* A place that nothing in the set is before, or after, is the least, or greatest.
LEMMA LeastIsOne ==
  ASSUME NEW S, S \subseteq Places, NEW s \in S, \A q \in S : ~Before(q, s)
  PROVE  Least(S) = s
<1>1. Least(S) \in S /\ \A q \in S : ~Before(q, Least(S))
  BY LeastIs
<1> QED BY <1>1, PlacesOrdered

\* The same at the other end.
LEMMA GreatestIsOne ==
  ASSUME NEW S, S \subseteq Places, NEW s \in S, \A q \in S : ~Before(s, q)
  PROVE  Greatest(S) = s
<1>1. Greatest(S) \in S /\ \A q \in S : ~Before(Greatest(S), q)
  BY Zenon DEF Greatest
<1> QED BY <1>1, PlacesOrdered

\* A character is blank when its class is 0.
LEMMA SolidByClass ==
  ASSUME NEW b, NEW p \in Chars(b), NEW bg
  PROVE  p \in Solid(b) <=> ClassAt(b, p, bg) # 0
BY DEF Solid, ClassAt, Class

\* The run around a character is all of one class, and the characters next to it
\* in its line are of another.
RunSpans(b, q, bg, lo, hi) ==
  /\ lo \in Nat /\ hi \in Nat /\ lo <= q.col /\ q.col <= hi /\ hi < Width(b, q.line)
  /\ \A c \in lo .. hi : ClassAt(b, Pos(q.line, c), bg) = ClassAt(b, q, bg)
  /\ lo # 0 => ClassAt(b, Pos(q.line, lo - 1), bg) # ClassAt(b, q, bg)
  /\ hi # Width(b, q.line) - 1 => ClassAt(b, Pos(q.line, hi + 1), bg) # ClassAt(b, q, bg)

\* Run collects such a span.
LEMMA RunWhole ==
  ASSUME NEW b, Buffer(b), NEW q \in Chars(b), NEW bg
  PROVE  RunSpans(b, q, bg, Min(Run(b, q, bg)), Max(Run(b, q, bg)))
<1> DEFINE r == Run(b, q, bg)
           w == Width(b, q.line)
           lo == Min(r)
           hi == Max(r)
           Same(d) == ClassAt(b, Pos(q.line, d), bg) = ClassAt(b, q, bg)
<1>1. r = {c \in 0 .. w - 1 : \A d \in (c .. q.col) \cup (q.col .. c) : Same(d)}
  BY Zenon DEF Run
<1>2. q.col \in Nat /\ w \in Nat /\ q.col < w
  BY SolidAre
<1>3. lo \in r /\ hi \in r /\ q.col \in r /\ \A c \in r : lo <= c /\ c <= hi
  BY RunIs
<1> HIDE DEF r, lo, hi, Same, w
<1>4. lo \in Nat /\ hi \in Nat /\ lo <= q.col /\ q.col <= hi /\ hi < w
  BY <1>1, <1>2, <1>3
<1>5. ASSUME NEW c \in lo .. hi PROVE Same(c)
  <2>1. c \in (lo .. q.col) \cup (q.col .. hi)
    BY <1>2, <1>4
  <2> QED BY <1>1, <1>3, <2>1
<1>6. ASSUME lo # 0 PROVE ~Same(lo - 1)
  <2>1. lo - 1 \in 0 .. w - 1 /\ ~(lo <= lo - 1)
    BY <1>2, <1>4, <1>6
  <2>2. lo - 1 \notin r
    BY <1>3, <2>1
  <2>3. PICK d \in (lo - 1 .. q.col) \cup (q.col .. lo - 1) : ~Same(d)
    BY <1>1, <2>1, <2>2
  <2>4. d = lo - 1 \/ d \in lo .. hi
    BY <1>2, <1>4
  <2> QED BY <1>5, <2>3, <2>4
<1>7. ASSUME hi # w - 1 PROVE ~Same(hi + 1)
  <2>1. hi + 1 \in 0 .. w - 1 /\ ~(hi + 1 <= hi)
    BY <1>2, <1>4, <1>7
  <2>2. hi + 1 \notin r
    BY <1>3, <2>1
  <2>3. PICK d \in (hi + 1 .. q.col) \cup (q.col .. hi + 1) : ~Same(d)
    BY <1>1, <2>1, <2>2
  <2>4. d = hi + 1 \/ d \in lo .. hi
    BY <1>2, <1>4
  <2> QED BY <1>5, <2>3, <2>4
<1> QED BY <1>4, <1>5, <1>6, <1>7 DEF RunSpans, Same, lo, hi, r, w

\* The run of a character that is not blank begins at a word start, and there is
\* no other start from there to the character.
LEMMA RunBegins ==
  ASSUME WalkInv, NEW q \in Solid(buffer), NEW s, s = Pos(q.line, Min(Run(buffer, q, big)))
  PROVE  s \in Starts /\ ~Before(q, s) /\ \A x \in Starts : Before(s, x) => Before(q, x)
<1> DEFINE lo == Min(Run(buffer, q, big))
           hi == Max(Run(buffer, q, big))
           w == Width(buffer, q.line)
           K(p) == ClassAt(buffer, p, big)
<1>1. RunSpans(buffer, q, big, lo, hi) /\ Buffer(buffer) /\ q \in Chars(buffer)
  BY RunWhole, SolidAre DEF WalkInv
<1>2. /\ q \in Places /\ q.line \in 0 .. LastLine(buffer) /\ q.col \in Nat
      /\ LastLine(buffer) \in Int /\ w \in Nat
  BY <1>1, SolidAre, TextTyping DEF Places
<1>3. s.line = q.line /\ s.col = lo
  BY PosIs
<1>4. /\ lo \in Nat /\ hi \in Nat /\ lo <= q.col /\ q.col <= hi /\ hi < w
      /\ \A c \in lo .. hi : K(Pos(q.line, c)) = K(q)
      /\ lo # 0 => K(Pos(q.line, lo - 1)) # K(q)
  BY <1>1 DEF RunSpans
<1>5. s \in Places
  BY <1>2, <1>4 DEF Pos, Places
<1>6. K(s) = K(q)
  <2>1. s = Pos(q.line, lo)
    OBVIOUS
  <2> HIDE DEF lo, hi, K
  <2>2. lo \in lo .. hi
    BY <1>2, <1>4
  <2>3. K(Pos(q.line, lo)) = K(q)
    BY <1>4, <2>2
  <2> QED BY <2>1, <2>3
<1> HIDE DEF lo, hi, K, w
<1>7. s \in Chars(buffer)
  BY <1>1, <1>2, <1>3, <1>4, <1>5, CharsAre DEF w
<1>8. s \in Solid(buffer)
  BY <1>1, <1>6, <1>7, SolidByClass DEF K
<1>9. s \in Starts
  <2>1. s.col = 0 \/ K(Pos(s.line, s.col - 1)) # K(s)
    BY <1>3, <1>4, <1>6
  <2> QED BY <1>7, <1>8, <2>1 DEF Starts, Begins, K
<1>10. ~Before(q, s)
  BY <1>2, <1>3, <1>4 DEF Before
<1>11. ASSUME NEW x \in Starts, Before(s, x), ~Before(q, x) PROVE FALSE
  <2>1. x \in Places /\ (x.col = 0 \/ K(Pos(x.line, x.col - 1)) # K(x)) /\ x.line \in Nat /\ x.col \in Nat
    BY <1>1, SolidAre DEF Starts, Begins, K, Places
  <2>2. x.line = q.line /\ lo < x.col /\ x.col <= q.col
    BY <1>2, <1>3, <1>4, <1>11, <2>1 DEF Before
  <2>3. x.col \in lo .. hi /\ x.col - 1 \in lo .. hi /\ x.col # 0
    BY <1>2, <1>4, <2>1, <2>2
  <2>4. x = Pos(q.line, x.col)
    BY <2>1, <2>2 DEF Pos, Places
  <2>5. K(x) = K(q)
    BY <1>4, <2>3, <2>4
  <2>6. K(Pos(x.line, x.col - 1)) = K(q)
    BY <1>4, <2>2, <2>3
  <2> QED BY <2>1, <2>3, <2>5, <2>6
<1> QED BY <1>9, <1>10, <1>11

\* It ends at a word end, and there is no other end from the character to there.
LEMMA RunEnds ==
  ASSUME WalkInv, NEW q \in Solid(buffer), NEW e, e = Pos(q.line, Max(Run(buffer, q, big)))
  PROVE  e \in Stops /\ ~Before(e, q) /\ \A x \in Stops : Before(x, e) => Before(x, q)
<1> DEFINE lo == Min(Run(buffer, q, big))
           hi == Max(Run(buffer, q, big))
           w == Width(buffer, q.line)
           K(p) == ClassAt(buffer, p, big)
<1>1. RunSpans(buffer, q, big, lo, hi) /\ Buffer(buffer) /\ q \in Chars(buffer)
  BY RunWhole, SolidAre DEF WalkInv
<1>2. /\ q \in Places /\ q.line \in 0 .. LastLine(buffer) /\ q.col \in Nat
      /\ LastLine(buffer) \in Int /\ w \in Nat
  BY <1>1, SolidAre, TextTyping DEF Places
<1>3. e.line = q.line /\ e.col = hi
  BY PosIs
<1>4. /\ lo \in Nat /\ hi \in Nat /\ lo <= q.col /\ q.col <= hi /\ hi < w
      /\ \A c \in lo .. hi : K(Pos(q.line, c)) = K(q)
      /\ hi # w - 1 => K(Pos(q.line, hi + 1)) # K(q)
  BY <1>1 DEF RunSpans
<1>5. e \in Places
  BY <1>2, <1>4 DEF Pos, Places
<1>6. K(e) = K(q)
  <2>1. e = Pos(q.line, hi)
    OBVIOUS
  <2> HIDE DEF lo, hi, K
  <2>2. hi \in lo .. hi
    BY <1>2, <1>4
  <2>3. K(Pos(q.line, hi)) = K(q)
    BY <1>4, <2>2
  <2> QED BY <2>1, <2>3
<1> HIDE DEF lo, hi, K, w
<1>7. e \in Chars(buffer)
  BY <1>1, <1>2, <1>3, <1>4, <1>5, CharsAre DEF w
<1>8. e \in Solid(buffer)
  BY <1>1, <1>6, <1>7, SolidByClass DEF K
<1>9. e \in Stops
  <2>1. e.col = w - 1 \/ K(Pos(e.line, e.col + 1)) # K(e)
    BY <1>3, <1>4, <1>6
  <2> QED BY <1>3, <1>7, <1>8, <2>1 DEF Stops, Ends, K, w
<1>10. ~Before(e, q)
  BY <1>2, <1>3, <1>4 DEF Before
<1>11. ASSUME NEW x \in Stops, Before(x, e), ~Before(x, q) PROVE FALSE
  <2>1. /\ x \in Places /\ x.line \in Nat /\ x.col \in Nat
        /\ x.col = Width(buffer, x.line) - 1 \/ K(Pos(x.line, x.col + 1)) # K(x)
    BY <1>1, SolidAre DEF Stops, Ends, K, Places
  <2>2. x.line = q.line /\ x.col < hi /\ q.col <= x.col
    BY <1>2, <1>3, <1>4, <1>11, <2>1 DEF Before
  <2>3. x.col \in lo .. hi /\ x.col + 1 \in lo .. hi /\ x.col # w - 1
    BY <1>2, <1>4, <2>1, <2>2
  <2>4. x = Pos(q.line, x.col)
    BY <2>1, <2>2 DEF Pos, Places
  <2>5. K(x) = K(q)
    BY <1>4, <2>3, <2>4
  <2>6. K(Pos(x.line, x.col + 1)) = K(q)
    BY <1>4, <2>2, <2>3
  <2> QED BY <2>1, <2>2, <2>3, <2>5, <2>6 DEF w
<1> QED BY <1>9, <1>10, <1>11

\* Before is an order.
LEMMA BeforeChains ==
  ASSUME NEW p \in Places, NEW q \in Places, NEW r \in Places
  PROVE  /\ ~Before(q, p) /\ Before(q, r) => Before(p, r)
         /\ Before(p, q) /\ ~Before(r, q) => Before(p, r)
BY DEF Before, Places

\* What a step back leaves behind is what is before the cursor.
LEMMA StepBackIs ==
  ASSUME WalkInv, at # Home, NEW x \in Chars(buffer)
  PROVE  ~Before(StepBack(buffer, at), x) <=> Before(x, at)
<1> DEFINE w == Width(buffer, at.line - 1)
           last == Max({0, w - 1})
<1>1. Buffer(buffer) /\ at \in Places /\ at.line \in Nat /\ at.col \in Nat
  BY CursorsAre DEF WalkInv, Places
<1>2. x.line \in Nat /\ x.col \in Nat /\ x.col < Width(buffer, x.line) /\ Width(buffer, x.line) \in Nat
  BY <1>1, SolidAre
<1>3. w \in Nat
  BY <1>1, TextTyping
<1>4. CASE at.col > 0
  <2>1. StepBack(buffer, at) = Pos(at.line, at.col - 1)
    BY <1>4 DEF StepBack
  <2>2. \A y : y.line = at.line /\ y.col = at.col - 1 => (~Before(y, x) <=> Before(x, at))
    BY <1>1, <1>2, <1>4 DEF Before
  <2> QED BY <2>1, <2>2, PosIs
<1>5. CASE at.col = 0
  <2>1. at.line > 0
    <3>1. at = Pos(at.line, at.col)
      BY <1>1 DEF Pos, Places
    <3> QED BY <1>1, <1>5, <3>1 DEF Home
  <2>2. StepBack(buffer, at) = Pos(at.line - 1, last)
    BY <1>5 DEF StepBack
  <2>3. last \in Nat /\ last >= w - 1
    <3>1. \A m \in Int : Max({0, m}) \in Nat /\ Max({0, m}) >= m
      BY MaxPair
    <3> HIDE DEF w
    <3> QED BY <1>3, <3>1
  <2>4. x.line = at.line - 1 => x.col <= last
    <3>1. x.line = at.line - 1 => x.col < w
      BY <1>2
    <3> HIDE DEF last, w
    <3> QED BY <1>2, <1>3, <2>3, <3>1
  <2> HIDE DEF last
  <2>5. \A y : y.line = at.line - 1 /\ y.col = last => (~Before(y, x) <=> Before(x, at))
    BY <1>1, <1>2, <1>5, <2>1, <2>3, <2>4 DEF Before
  <2> QED BY <2>2, <2>5, PosIs
<1> QED BY <1>1, <1>4, <1>5

\* Word starts and ends are characters that are not blank.
LEMMA StartsAre ==
  ASSUME WalkInv
  PROVE  /\ Starts \subseteq Solid(buffer) /\ Stops \subseteq Solid(buffer)
         /\ Solid(buffer) \subseteq Chars(buffer) /\ Chars(buffer) \subseteq Places
         /\ at \in Places /\ Buffer(buffer)
BY SolidAre, CursorsAre DEF WalkInv, Starts, Stops, Begins, Ends

\* b goes to the greatest word start before the cursor.
LEMMA BackwardFinds == WalkInv => WordsBackward
<1> DEFINE behind == {q \in Solid(buffer) : ~Before(StepBack(buffer, at), q)}
           q == Greatest(behind)
           s == Pos(q.line, Min(Run(buffer, q, big)))
           before == {p \in Starts : Before(p, at)}
<1> SUFFICES ASSUME WalkInv
             PROVE  WordBackwardOnce(buffer, at, big) = IF before = {} THEN Home ELSE Greatest(before)
  BY Zenon DEF WordsBackward
<1>1. WordBackwardOnce(buffer, at, big) = IF at = Home \/ behind = {} THEN Home ELSE s
  BY Zenon DEF WordBackwardOnce
<1>2. /\ Starts \subseteq Solid(buffer) /\ Solid(buffer) \subseteq Chars(buffer)
      /\ Chars(buffer) \subseteq Places /\ at \in Places /\ Buffer(buffer)
  BY StartsAre
<1>3. before \subseteq Places /\ before \subseteq Starts /\ behind \subseteq Chars(buffer) /\ behind \subseteq Solid(buffer)
  BY <1>2
<1>4. CASE at = Home
  <2>1. at.line = 0 /\ at.col = 0
    BY <1>4, PosIs DEF Home
  <2>2. \A p \in Places : ~Before(p, at)
    BY <2>1 DEF Before, Places
  <2>3. before = {}
    BY <1>2, <2>2
  <2> QED BY <1>1, <1>4, <2>3
<1>5. CASE at # Home
  <2>1. \A x \in Solid(buffer) : x \in behind <=> Before(x, at)
    BY <1>2, <1>5, StepBackIs
  <2>2. CASE behind = {}
    <3>1. before = {}
      BY <1>2, <2>1, <2>2
    <3> QED BY <1>1, <2>2, <3>1
  <2>3. CASE behind # {}
    <3>1. q \in behind /\ \A x \in behind : ~Before(q, x)
      <4> HIDE DEF behind
      <4> QED BY <1>2, <1>3, <2>3, GreatestIs
    <3>2. s = Pos(q.line, Min(Run(buffer, q, big)))
      OBVIOUS
    <3> HIDE DEF q, s, behind
    <3>3. q \in Solid(buffer) /\ Before(q, at)
      BY <1>3, <2>1, <3>1
    <3>4. s \in Starts /\ ~Before(q, s) /\ \A x \in Starts : Before(s, x) => Before(q, x)
      BY <3>2, <3>3, RunBegins
    <3>5. s \in before
      <4>1. Before(s, at)
        BY <1>2, <3>3, <3>4, BeforeChains
      <4> QED BY <3>4, <4>1
    <3>6. ASSUME NEW x \in before PROVE ~Before(s, x)
      <4>1. x \in Starts /\ x \in behind
        BY <1>2, <2>1
      <4> QED BY <3>1, <3>4, <4>1
    <3> HIDE DEF before
    <3>7. Greatest(before) = s
      BY <1>3, <3>5, <3>6, GreatestIsOne
    <3> QED BY <1>1, <1>5, <2>3, <3>5, <3>7
  <2> QED BY <2>2, <2>3
<1> QED BY <1>4, <1>5

\* What e skips over is what is not after the cursor.
LEMMA StepOnIs ==
  ASSUME WalkInv, NEW x \in Chars(buffer),
         NEW r, r = CASE at.col < Width(buffer, at.line) -> Pos(at.line, at.col + 1)
                      [] at.col >= Width(buffer, at.line) /\ at.line < LastLine(buffer) -> Pos(at.line + 1, 0)
                      [] OTHER -> at
  PROVE  ~Before(x, r) <=> Before(at, x)
<1> DEFINE w == Width(buffer, at.line)
           L == LastLine(buffer)
<1>1. /\ Buffer(buffer) /\ at.line \in Nat /\ at.col \in Nat /\ w \in Nat /\ L \in Int
      /\ at.line <= L /\ at.col <= w
  BY CursorsAre, TextTyping DEF WalkInv, Places
<1>2. /\ x.line \in Nat /\ x.col \in Nat /\ x.line <= L /\ (x.line = at.line => x.col < w)
  BY <1>1, SolidAre
<1>3. \/ at.col < w /\ r = Pos(at.line, at.col + 1)
      \/ at.col >= w /\ at.line < L /\ r = Pos(at.line + 1, 0)
      \/ ~(at.col < w) /\ ~(at.line < L) /\ r = at
  BY <1>1
<1> HIDE DEF w, L
<1>4. \/ at.col < w /\ r.line = at.line /\ r.col = at.col + 1
      \/ at.col >= w /\ at.line < L /\ r.line = at.line + 1 /\ r.col = 0
      \/ ~(at.col < w) /\ ~(at.line < L) /\ r.line = at.line /\ r.col = at.col
  BY <1>3, PosIs
<1> QED BY <1>1, <1>2, <1>4 DEF Before

\* e goes to the least word end after the cursor.
LEMMA EndFinds == WalkInv => WordEnds
<1> DEFINE r == CASE at.col < Width(buffer, at.line) -> Pos(at.line, at.col + 1)
                  [] at.col >= Width(buffer, at.line) /\ at.line < LastLine(buffer) -> Pos(at.line + 1, 0)
                  [] OTHER -> at
           solid == {x \in Solid(buffer) : ~Before(x, r)}
           q == Least(solid)
           e == Pos(q.line, Max(Run(buffer, q, big)))
           ahead == {p \in Stops : Before(at, p)}
<1> SUFFICES ASSUME WalkInv, ahead # {}
             PROVE  WordEndForwardOnce(buffer, at, big) = Least(ahead)
  BY Zenon DEF WordEnds
<1>1. solid # {} => WordEndForwardOnce(buffer, at, big) = e
  BY Zenon DEF WordEndForwardOnce
<1>2. /\ Stops \subseteq Solid(buffer) /\ Solid(buffer) \subseteq Chars(buffer)
      /\ Chars(buffer) \subseteq Places /\ at \in Places
  BY StartsAre
<1>3. ahead \subseteq Places /\ ahead \subseteq Stops /\ solid \subseteq Places /\ solid \subseteq Solid(buffer)
  BY <1>2
<1>4. \A x \in Solid(buffer) : x \in solid <=> Before(at, x)
  <2>1. \A x \in Chars(buffer) : ~Before(x, r) <=> Before(at, x)
    BY StepOnIs
  <2> HIDE DEF r
  <2> QED BY <1>2, <2>1
<1>5. solid # {}
  BY <1>2, <1>4
<1>6. q \in solid /\ \A x \in solid : ~Before(x, q)
  <2> HIDE DEF solid
  <2> QED BY <1>3, <1>5, LeastIs
<1>7. e = Pos(q.line, Max(Run(buffer, q, big)))
  OBVIOUS
<1> HIDE DEF e, q, solid, r
<1>8. q \in Solid(buffer) /\ Before(at, q)
  BY <1>3, <1>4, <1>6
<1>9. e \in Stops /\ ~Before(e, q) /\ \A x \in Stops : Before(x, e) => Before(x, q)
  BY <1>7, <1>8, RunEnds
<1>10. e \in ahead
  <2>1. Before(at, e)
    BY <1>2, <1>8, <1>9, BeforeChains
  <2> QED BY <1>9, <2>1
<1>11. ASSUME NEW x \in ahead PROVE ~Before(x, e)
  <2>1. x \in Stops /\ x \in solid
    BY <1>2, <1>4
  <2> QED BY <1>6, <1>9, <2>1
<1> HIDE DEF ahead
<1>12. Least(ahead) = e
  BY <1>3, <1>10, <1>11, LeastIsOne
<1> QED BY <1>1, <1>5, <1>12

\* Where w looks from: behind the run of a character that is not blank.
LEMMA LooksFrom ==
  ASSUME WalkInv, at \in Chars(buffer),
         NEW r, r = IF at \in Solid(buffer) THEN Pos(at.line, Max(Run(buffer, at, big)) + 1) ELSE at
  PROVE  /\ \A x \in Solid(buffer) : ~Before(x, r) => Before(at, x)
         /\ \A x \in Starts : Before(at, x) => ~Before(x, r)
         /\ \A x \in Solid(buffer) : ~Before(x, r) /\ (\A y \in Solid(buffer) : ~Before(y, r) => ~Before(y, x))
              => x \in Starts
<1> DEFINE K(p) == ClassAt(buffer, p, big)
<1>1. /\ Starts \subseteq Solid(buffer) /\ Solid(buffer) \subseteq Chars(buffer)
      /\ Chars(buffer) \subseteq Places /\ at \in Places /\ Buffer(buffer)
  BY StartsAre
<1>2. \A x \in Chars(buffer) : /\ x \in Places /\ x.line \in Nat /\ x.col \in Nat
                               /\ x.line <= LastLine(buffer) /\ x.col < Width(buffer, x.line)
                               /\ Width(buffer, x.line) \in Nat
                               /\ x = Pos(x.line, x.col)
  <2> TAKE x \in Chars(buffer)
  <2>1. x \in Places /\ x.line <= LastLine(buffer) /\ x.col < Width(buffer, x.line) /\ Width(buffer, x.line) \in Nat
    BY <1>1, CharsAre, TextTyping
  <2> QED BY <2>1 DEF Places, Pos
\* The character before x in its line, when x begins no run.
<1>3. ASSUME NEW x \in Solid(buffer), x \notin Starts
      PROVE  \E y \in Solid(buffer) : y.line = x.line /\ y.col = x.col - 1 /\ K(y) = K(x)
  <2> DEFINE y == Pos(x.line, x.col - 1)
  <2>1. x.col # 0 /\ K(y) = K(x)
    BY <1>1, <1>3 DEF Starts, Begins
  <2>2. y.line = x.line /\ y.col = x.col - 1
    BY PosIs
  <2>3. x.line \in Nat /\ x.col - 1 \in Nat /\ x.line <= LastLine(buffer) /\ x.col - 1 < Width(buffer, x.line)
    BY <1>1, <1>2, <2>1
  <2>4. y \in Places
    BY <2>3 DEF Pos, Places
  <2> HIDE DEF y
  <2>5. y \in Chars(buffer)
    BY <1>1, <2>2, <2>3, <2>4, CharsAre
  <2>6. K(x) # 0
    BY <1>1, SolidByClass
  <2>7. y \in Solid(buffer)
    BY <2>1, <2>5, <2>6, SolidByClass
  <2> QED BY <2>1, <2>2, <2>7
<1>4. CASE at \in Solid(buffer)
  <2> DEFINE lo == Min(Run(buffer, at, big))
             hi == Max(Run(buffer, at, big))
             w == Width(buffer, at.line)
  <2>1. RunSpans(buffer, at, big, lo, hi)
    BY <1>1, RunWhole
  <2>2. r.line = at.line /\ r.col = hi + 1
    BY <1>4, PosIs
  <2>3. /\ lo \in Nat /\ hi \in Nat /\ lo <= at.col /\ at.col <= hi /\ hi < w
        /\ \A c \in lo .. hi : K(Pos(at.line, c)) = K(at)
        /\ hi # w - 1 => K(Pos(at.line, hi + 1)) # K(at)
    BY <2>1 DEF RunSpans
  <2>4. at.line \in Nat /\ at.col \in Nat /\ w \in Nat
    BY <1>2
  <2> HIDE DEF lo, hi, K, w
  <2>5. \A x \in Solid(buffer) : ~Before(x, r) => Before(at, x)
    BY <1>1, <1>2, <2>2, <2>3, <2>4 DEF Before
  <2>6. ASSUME NEW x \in Starts, Before(at, x), Before(x, r) PROVE FALSE
    <3>1. x \in Chars(buffer) /\ x.line \in Nat /\ x.col \in Nat /\ x = Pos(x.line, x.col)
          /\ (x.col = 0 \/ K(Pos(x.line, x.col - 1)) # K(x))
      BY <1>1, <1>2 DEF Starts, Begins, K
    <3>2. x.line = at.line /\ at.col < x.col /\ x.col <= hi
      BY <2>2, <2>3, <2>4, <2>6, <3>1 DEF Before
    <3>3. x.col \in lo .. hi /\ x.col - 1 \in lo .. hi /\ x.col # 0
      BY <2>3, <2>4, <3>1, <3>2
    <3>4. K(Pos(at.line, x.col)) = K(at) /\ K(Pos(at.line, x.col - 1)) = K(at)
      BY <2>3, <3>3
    <3> QED BY <3>1, <3>2, <3>3, <3>4
  <2>7. ASSUME NEW x \in Solid(buffer), ~Before(x, r),
               \A y \in Solid(buffer) : ~Before(y, r) => ~Before(y, x), x \notin Starts
        PROVE  FALSE
    <3>1. PICK y \in Solid(buffer) : y.line = x.line /\ y.col = x.col - 1 /\ K(y) = K(x)
      BY <1>3, <2>7 DEF K
    <3>2. x \in Chars(buffer) /\ y \in Chars(buffer)
      BY <1>1
    <3>3. x.line \in Nat /\ x.col \in Nat /\ y.line \in Nat /\ y.col \in Nat
          /\ x = Pos(x.line, x.col) /\ y = Pos(y.line, y.col) /\ x.col < Width(buffer, x.line)
      BY <1>2, <3>2
    <3>4. Before(y, x)
      BY <3>1, <3>3 DEF Before
    <3>5. Before(y, r)
      BY <2>7, <3>4
    <3>6. x.line = at.line /\ y.col = hi /\ x.col = hi + 1
      BY <2>2, <2>3, <2>4, <2>7, <3>1, <3>3, <3>5 DEF Before
    <3>7. K(Pos(at.line, hi)) = K(at)
      <4>1. hi \in lo .. hi
        BY <2>3, <2>4
      <4> QED BY <2>3, <4>1
    <3>8. hi # w - 1
      BY <2>3, <2>4, <3>3, <3>6 DEF w
    <3>9. K(y) = K(at) /\ K(x) # K(at)
      BY <2>3, <3>1, <3>3, <3>6, <3>7, <3>8
    <3> QED BY <3>1, <3>9
  <2> QED BY <2>5, <2>6, <2>7
<1>5. CASE at \notin Solid(buffer)
  <2>1. r = at
    BY <1>5
  <2>2. \A x \in Solid(buffer) : ~Before(x, at) => Before(at, x)
    BY <1>1, <1>5, PlacesOrdered
  <2>3. \A x \in Starts : Before(at, x) => ~Before(x, at)
    BY <1>1 DEF Before, Places
  <2>4. ASSUME NEW x \in Solid(buffer), ~Before(x, at),
               \A y \in Solid(buffer) : ~Before(y, at) => ~Before(y, x), x \notin Starts
        PROVE  FALSE
    <3>1. PICK y \in Solid(buffer) : y.line = x.line /\ y.col = x.col - 1
      BY <1>3, <2>4
    <3>2. x.line \in Nat /\ x.col \in Nat /\ y.line \in Nat /\ y.col \in Nat /\ at.line \in Nat /\ at.col \in Nat
      BY <1>1, <1>2
    <3>3. Before(at, x) /\ Before(y, x)
      BY <2>2, <2>4, <3>1, <3>2 DEF Before
    <3>4. Before(y, at)
      BY <2>4, <3>3
    <3> QED BY <3>1, <3>2, <3>3, <3>4 DEF Before
  <2> QED BY <2>1, <2>2, <2>3, <2>4
<1> QED BY <1>4, <1>5

\* w goes from a character to the least word start after it.
LEMMA ForwardFinds == WalkInv => WordsForward
<1> DEFINE r == IF at \in Solid(buffer) THEN Pos(at.line, Max(Run(buffer, at, big)) + 1) ELSE at
           solid == {x \in Solid(buffer) : ~Before(x, r)}
           ahead == {p \in Starts : Before(at, p)}
<1> SUFFICES ASSUME WalkInv, at.col < Width(buffer, at.line)
             PROVE  WordForwardOnce(buffer, at, big) = IF ahead = {} THEN BufferEnd(buffer) ELSE Least(ahead)
  BY Zenon DEF WordsForward
<1>1. /\ Starts \subseteq Solid(buffer) /\ Solid(buffer) \subseteq Chars(buffer)
      /\ Chars(buffer) \subseteq Places /\ at \in Places /\ Buffer(buffer)
  BY StartsAre
<1>2. at \in Chars(buffer) /\ ~(at.col >= Width(buffer, at.line))
  <2>1. at.line <= LastLine(buffer) /\ at.col \in Nat /\ Width(buffer, at.line) \in Nat
    BY <1>1, CursorsAre, TextTyping DEF WalkInv, Places
  <2> QED BY <1>1, <2>1, CharsAre
<1>3. WordForwardOnce(buffer, at, big) = IF solid = {} THEN BufferEnd(buffer) ELSE Least(solid)
  BY <1>2, Zenon DEF WordForwardOnce
<1>4. /\ \A x \in Solid(buffer) : ~Before(x, r) => Before(at, x)
      /\ \A x \in Starts : Before(at, x) => ~Before(x, r)
      /\ \A x \in Solid(buffer) : ~Before(x, r) /\ (\A y \in Solid(buffer) : ~Before(y, r) => ~Before(y, x))
           => x \in Starts
  BY <1>2, LooksFrom
<1> HIDE DEF r
<1>5. ahead \subseteq solid /\ ahead \subseteq Places /\ solid \subseteq Places
  BY <1>1, <1>4
<1>6. CASE solid = {}
  BY <1>3, <1>5, <1>6
<1>7. CASE solid # {}
  <2> DEFINE z == Least(solid)
  <2>1. z \in solid /\ \A x \in solid : ~Before(x, z)
    <3> HIDE DEF solid
    <3> QED BY <1>5, <1>7, LeastIs
  <2> HIDE DEF z
  <2>2. z \in ahead
    BY <1>4, <2>1
  <2>3. Least(ahead) = z
    <3>1. \A x \in ahead : ~Before(x, z)
      BY <1>5, <2>1
    <3> HIDE DEF ahead
    <3> QED BY <1>5, <2>2, <3>1, LeastIsOne
  <2> QED BY <1>3, <1>7, <2>2, <2>3 DEF z
<1> QED BY <1>6, <1>7

\* The word motions lead to where their references say, from every place they lead
\* to, and never out of the buffer that the next paint indexes (WordMotions;
\* wordForwardOnce, wordBackwardOnce, wordEndForwardOnce, wordEndBackwardOnce).
THEOREM WordMotionsMeetReferences == WalkSpec => []WordMotions
<1>1. WalkInv => WordMotions
  BY ForwardFinds, BackwardFinds, EndFinds DEF WalkInv, WordMotions
<1> QED BY <1>1, WalkHolds, PTL

-----------------------------------------------------------------------------
(* Brackets.                                                               *)

\* How many of the columns from i + 1 to k hold ch, and how many more brackets
\* they open than they close.
Counted(s, ch, i, k) == Cardinality({x \in i + 1 .. k : s[x] = ch})
Depth(s, i, k) == Counted(s, "(", i, k) - Counted(s, ")", i, k)

\* One column more, one more of what it holds.
LEMMA CountGrows ==
  ASSUME NEW s, NEW ch, NEW i \in Nat, NEW k \in Nat, i <= k
  PROVE  /\ Counted(s, ch, i, k) \in Nat /\ Counted(s, ch, i, i) = 0
         /\ Counted(s, ch, i, k + 1) = Counted(s, ch, i, k) + (IF s[k + 1] = ch THEN 1 ELSE 0)
<1> DEFINE here(j) == {x \in i + 1 .. j : s[x] = ch}
<1>1. IsFiniteSet(here(k)) /\ Cardinality(here(k)) \in Nat
  <2>1. IsFiniteSet(i + 1 .. k)
    BY FS_Interval
  <2>2. IsFiniteSet(here(k))
    BY <2>1, FS_Subset
  <2> QED BY <2>2, FS_CardinalityType
<1>2. Cardinality(here(i)) = 0
  <2>1. here(i) = {}
    OBVIOUS
  <2> QED BY <2>1, FS_EmptySet
<1>3. k + 1 \notin here(k)
  OBVIOUS
<1>4. here(k + 1) = IF s[k + 1] = ch THEN here(k) \cup {k + 1} ELSE here(k)
  <2>1. i + 1 .. k + 1 = (i + 1 .. k) \cup {k + 1}
    OBVIOUS
  <2> QED BY <2>1
<1>5. \A j : Counted(s, ch, i, j) = Cardinality(here(j))
  BY DEF Counted
<1> HIDE DEF here
<1>6. Cardinality(here(k + 1)) = Cardinality(here(k)) + (IF s[k + 1] = ch THEN 1 ELSE 0)
  <2>1. CASE s[k + 1] = ch
    BY <1>1, <1>3, <1>4, <2>1, FS_AddElement
  <2>2. CASE s[k + 1] # ch
    BY <1>1, <1>4, <2>2
  <2> QED BY <2>1, <2>2
<1> QED BY <1>1, <1>2, <1>5, <1>6

\* The depth changes with the bracket of the column.
LEMMA DepthGrows ==
  ASSUME NEW s, NEW i \in Nat, NEW k \in Nat, i <= k
  PROVE  /\ Depth(s, i, k) \in Int /\ Depth(s, i, i) = 0
         /\ s[k + 1] = "(" => Depth(s, i, k + 1) = Depth(s, i, k) + 1
         /\ s[k + 1] = ")" => Depth(s, i, k + 1) = Depth(s, i, k) - 1
         /\ s[k + 1] # "(" /\ s[k + 1] # ")" => Depth(s, i, k + 1) = Depth(s, i, k)
<1> DEFINE Grows(ch) == /\ Counted(s, ch, i, k) \in Nat /\ Counted(s, ch, i, i) = 0
                        /\ Counted(s, ch, i, k + 1) = Counted(s, ch, i, k) + (IF s[k + 1] = ch THEN 1 ELSE 0)
<1>1. Grows("(") /\ Grows(")")
  BY CountGrows
<1>2. /\ Counted(s, "(", i, k) \in Nat /\ Counted(s, "(", i, i) = 0
      /\ Counted(s, ")", i, k) \in Nat /\ Counted(s, ")", i, i) = 0
      /\ Counted(s, "(", i, k + 1) = Counted(s, "(", i, k) + (IF s[k + 1] = "(" THEN 1 ELSE 0)
      /\ Counted(s, ")", i, k + 1) = Counted(s, ")", i, k) + (IF s[k + 1] = ")" THEN 1 ELSE 0)
  BY <1>1
<1>3. "(" # ")"
  OBVIOUS
<1> QED BY <1>2, <1>3 DEF Depth

\* The depths of two stretches add up.
LEMMA DepthAdds ==
  ASSUME NEW s, NEW i \in Nat, NEW j \in Nat, NEW k \in Nat, i <= j, j <= k
  PROVE  Depth(s, i, k) = Depth(s, i, j) + Depth(s, j, k)
<1> DEFINE N == {n \in Nat : Depth(s, i, j + n) = Depth(s, i, j) + Depth(s, j, j + n)}
<1>1. 0 \in N
  <2>1. Depth(s, i, j) \in Int /\ Depth(s, j, j) = 0
    <3>1. j <= j
      OBVIOUS
    <3> QED BY <3>1, DepthGrows, Zenon
  <2>2. Depth(s, i, j) + Depth(s, j, j) = Depth(s, i, j)
    BY <2>1
  <2>3. j + 0 = j
    OBVIOUS
  <2> QED BY <2>2, <2>3
<1>2. ASSUME NEW n \in Nat, n \in N PROVE n + 1 \in N
  <2> DEFINE m == j + n
  <2>1. m \in Nat /\ i <= m /\ j <= m /\ j + (n + 1) = m + 1
    OBVIOUS
  <2>2. Depth(s, i, m) = Depth(s, i, j) + Depth(s, j, m)
    BY <1>2
  <2> HIDE DEF m
  <2>3. /\ Depth(s, i, m) \in Int /\ Depth(s, j, m) \in Int /\ Depth(s, i, j) \in Int
    BY <2>1, DepthGrows
  <2>4. \E d \in Int : Depth(s, i, m + 1) = Depth(s, i, m) + d /\ Depth(s, j, m + 1) = Depth(s, j, m) + d
    <3>1. \A h \in {i, j} :
            /\ s[m + 1] = "(" => Depth(s, h, m + 1) = Depth(s, h, m) + 1
            /\ s[m + 1] = ")" => Depth(s, h, m + 1) = Depth(s, h, m) - 1
            /\ s[m + 1] # "(" /\ s[m + 1] # ")" => Depth(s, h, m + 1) = Depth(s, h, m)
      <4> TAKE h \in {i, j}
      <4>1. h \in Nat /\ h <= m
        BY <2>1
      <4> QED BY <2>1, <4>1, DepthGrows, Zenon
    <3>2. CASE s[m + 1] = "("
      BY <2>3, <3>1, <3>2
    <3>3. CASE s[m + 1] = ")"
      <4>1. Depth(s, i, m + 1) = Depth(s, i, m) + (-1) /\ Depth(s, j, m + 1) = Depth(s, j, m) + (-1)
        BY <2>3, <3>1, <3>3
      <4> QED BY <4>1
    <3>4. CASE s[m + 1] # "(" /\ s[m + 1] # ")"
      <4>1. Depth(s, i, m + 1) = Depth(s, i, m) + 0 /\ Depth(s, j, m + 1) = Depth(s, j, m) + 0
        BY <2>3, <3>1, <3>4
      <4> QED BY <4>1
    <3> QED BY <3>2, <3>3, <3>4
  <2>5. Depth(s, i, m + 1) = Depth(s, i, j) + Depth(s, j, m + 1)
    BY <2>2, <2>3, <2>4
  <2> QED BY <2>1, <2>5
<1>3. k - j \in N
  <2> DEFINE n == k - j
  <2>1. n \in Nat /\ n \in 0 .. n /\ \A x \in 0 .. n - 1 : x \in Nat
    OBVIOUS
  <2> HIDE DEF N, n
  <2>2. 0 .. n \subseteq N
    BY <1>1, <1>2, <2>1, CountingUp
  <2> QED BY <2>1, <2>2 DEF n
<1>4. j + (k - j) = k
  OBVIOUS
<1> QED BY <1>3, <1>4

\* The loop of tobjBracket: what one column does to the stack and the pairs.
ScanStep(s, was, n) ==
  CASE s[n] = "(" -> [was EXCEPT !.open = Append(@, n)]
    [] s[n] = ")" /\ was.open # <<>> ->
         [open |-> Front(was.open), pairs |-> was.pairs \cup {<<Last(was.open), n>>}]
    [] OTHER -> was
ScanLoop(s) ==
  CHOOSE scan : scan = [n \in 0 .. Len(s) |->
    IF n = 0 THEN [open |-> <<>>, pairs |-> {}] ELSE ScanStep(s, scan[n - 1], n)]
Scans == [open : Seq(Nat), pairs : SUBSET (Nat \X Nat)]

\* A step of the scan leaves a stack of columns and pairs of columns.
LEMMA ScanStepTyping ==
  ASSUME NEW s, NEW was \in Scans, NEW n \in Nat
  PROVE  ScanStep(s, was, n) \in Scans
<1>1. was.open \in Seq(Nat) /\ was.pairs \in SUBSET (Nat \X Nat)
  BY DEF Scans
<1>2. [was EXCEPT !.open = Append(@, n)] \in Scans
  <2>1. Append(was.open, n) \in Seq(Nat)
    BY <1>1
  <2>2. \A x \in Seq(Nat) : [was EXCEPT !.open = x] \in Scans
    BY DEF Scans
  <2> QED BY <2>1, <2>2
<1>3. was.open # <<>> => [open |-> Front(was.open), pairs |-> was.pairs \cup {<<Last(was.open), n>>}] \in Scans
  <2> SUFFICES ASSUME was.open # <<>>
               PROVE  [open |-> Front(was.open), pairs |-> was.pairs \cup {<<Last(was.open), n>>}] \in Scans
    OBVIOUS
  <2>1. Front(was.open) \in Seq(Nat) /\ Last(was.open) \in Nat
    BY <1>1 DEF Front, Last
  <2> QED BY <1>1, <2>1 DEF Scans
<1> QED BY <1>2, <1>3, Zenon DEF ScanStep

\* What the scan has after n columns.
LEMMA ScanIs ==
  ASSUME NEW s, Len(s) \in Nat
  PROVE  /\ BracketPairs(s) = ScanLoop(s)[Len(s)].pairs
         /\ ScanLoop(s)[0] = [open |-> <<>>, pairs |-> {}]
         /\ \A n \in 0 .. Len(s) - 1 : ScanLoop(s)[n + 1] = ScanStep(s, ScanLoop(s)[n], n + 1)
<1> DEFINE L == Len(s)
           none == [open |-> <<>>, pairs |-> {}]
           F == [q \in Scans \X Nat |-> ScanStep(s, q[1], q[2])]
<1>1. F \in [Scans \X Nat -> Scans]
  BY ScanStepTyping
<1>2. none \in Scans
  BY DEF Scans
<1>3. PICK g : IsLoop(Scans, F, none, L, g)
  <2> HIDE DEF L, F, none
  <2>1. L \in Nat
    BY DEF L
  <2> QED BY <1>1, <1>2, <2>1, LoopExists
<1>4. /\ \A i \in 0 .. L : g[i] \in Scans
      /\ g \in [0 .. L -> Scans] /\ g[0] = none
      /\ \A i \in 0 .. L - 1 : g[i + 1] = F[<<g[i], i + 1>>]
  BY <1>3 DEF IsLoop
<1> HIDE DEF none
<1>5. ASSUME NEW n \in 0 .. L PROVE g[n] = IF n = 0 THEN none ELSE ScanStep(s, g[n - 1], n)
  <2>1. CASE n = 0
    BY <2>1, <1>4
  <2>2. CASE n # 0
    <3>1. n - 1 \in 0 .. L - 1 /\ n - 1 \in 0 .. L /\ (n - 1) + 1 = n /\ n \in Nat
      BY <2>2
    <3>2. g[n - 1] \in Scans
      BY <3>1, <1>4
    <3>3. g[n] = F[<<g[n - 1], n>>]
      BY <3>1, <1>4
    <3> QED BY <3>1, <3>2, <3>3, <2>2
  <2> QED BY <2>1, <2>2
<1>6. g = [n \in 0 .. L |-> IF n = 0 THEN none ELSE ScanStep(s, g[n - 1], n)]
  BY <1>4, <1>5
<1>7. ScanLoop(s) = [n \in 0 .. L |-> IF n = 0 THEN none ELSE ScanStep(s, ScanLoop(s)[n - 1], n)]
  BY <1>6, Zenon DEF ScanLoop, none
<1>8. \A n \in 0 .. L - 1 : ScanLoop(s)[n + 1] = ScanStep(s, ScanLoop(s)[n], n + 1)
  <2> TAKE n \in 0 .. L - 1
  <2>1. n + 1 \in 0 .. L /\ n + 1 # 0 /\ (n + 1) - 1 = n
    OBVIOUS
  <2> QED BY <2>1, <1>7
<1>9. ScanLoop(s)[0] = none
  <2>1. 0 \in 0 .. L
    OBVIOUS
  <2> QED BY <2>1, <1>7
<1>10. BracketPairs(s) = ScanLoop(s)[Len(s)].pairs
  BY Zenon DEF BracketPairs, ScanLoop, ScanStep
<1> QED BY <1>8, <1>9, <1>10 DEF none

\* A bracket that nothing has closed after column n, and one closed by column j.
OpenAt(s, i, n) == s[i] = "(" /\ \A k \in i .. n : Depth(s, i, k) >= 0
Closed(s, i, j) == i < j /\ s[j] = ")" /\ OpenAt(s, i, j - 1) /\ Depth(s, i, j - 1) = 0
Pairs(s, n) == {q \in (1 .. n) \X (1 .. n) : Closed(s, q[1], q[2])}

\* What the stack and the pairs are after n columns: each bracket on the stack has
\* those above it left to close.
Scanned(s, n, st) ==
  /\ st.open \in Seq(Nat)
  /\ \A j \in 1 .. Len(st.open) : /\ st.open[j] \in 1 .. n
                                  /\ OpenAt(s, st.open[j], n)
                                  /\ Depth(s, st.open[j], n) = Len(st.open) - j
  /\ \A i \in 1 .. n : OpenAt(s, i, n) => \E j \in 1 .. Len(st.open) : st.open[j] = i
  /\ st.pairs = Pairs(s, n)

\* A bracket stays open as long as the depth behind it does not fall below 0.
LEMMA OpenGrows ==
  ASSUME NEW s, NEW n \in Nat, NEW i \in 1 .. n
  PROVE  OpenAt(s, i, n + 1) <=> OpenAt(s, i, n) /\ Depth(s, i, n + 1) >= 0
<1>1. i .. n + 1 = (i .. n) \cup {n + 1}
  OBVIOUS
<1> QED BY <1>1 DEF OpenAt

\* The pairs that one column more closes.
LEMMA PairsGrow ==
  ASSUME NEW s, NEW n \in Nat
  PROVE  \A q : q \in Pairs(s, n + 1) <=>
           \/ q \in Pairs(s, n)
           \/ \E i \in 1 .. n : q = <<i, n + 1>> /\ s[n + 1] = ")" /\ OpenAt(s, i, n) /\ Depth(s, i, n) = 0
<1>1. \A i, j : Closed(s, i, j) => i < j
  BY DEF Closed
<1>2. \A i \in 1 .. n : Closed(s, i, n + 1) <=> s[n + 1] = ")" /\ OpenAt(s, i, n) /\ Depth(s, i, n) = 0
  <2> TAKE i \in 1 .. n
  <2>1. i < n + 1 /\ (n + 1) - 1 = n
    OBVIOUS
  <2> QED BY <2>1 DEF Closed
<1>3. ASSUME NEW q \in Pairs(s, n + 1)
      PROVE  q \in Pairs(s, n) \/ \E i \in 1 .. n : q = <<i, n + 1>> /\ Closed(s, i, n + 1)
  <2>1. q \in (1 .. n + 1) \X (1 .. n + 1) /\ Closed(s, q[1], q[2])
    BY DEF Pairs
  <2>2. q = <<q[1], q[2]>> /\ q[1] \in 1 .. n + 1 /\ q[2] \in 1 .. n + 1 /\ q[1] < q[2]
    BY <1>1, <2>1
  <2>3. q[1] \in 1 .. n /\ (q[2] \in 1 .. n \/ q[2] = n + 1)
    BY <2>2
  <2>4. CASE q[2] \in 1 .. n
    <3>1. q \in (1 .. n) \X (1 .. n)
      BY <2>2, <2>3, <2>4
    <3> QED BY <2>1, <3>1 DEF Pairs
  <2>5. CASE q[2] = n + 1
    BY <2>1, <2>2, <2>3, <2>5
  <2> QED BY <2>3, <2>4, <2>5
<1>4. ASSUME NEW q \in Pairs(s, n) PROVE q \in Pairs(s, n + 1)
  <2>1. q \in (1 .. n) \X (1 .. n) /\ Closed(s, q[1], q[2])
    BY DEF Pairs
  <2>2. q \in (1 .. n + 1) \X (1 .. n + 1)
    BY <2>1
  <2> QED BY <2>1, <2>2 DEF Pairs
<1>5. ASSUME NEW i \in 1 .. n, Closed(s, i, n + 1) PROVE <<i, n + 1>> \in Pairs(s, n + 1)
  <2>1. <<i, n + 1>> \in (1 .. n + 1) \X (1 .. n + 1)
    OBVIOUS
  <2> QED BY <2>1, <1>5 DEF Pairs
<1> QED BY <1>2, <1>3, <1>4, <1>5

\* All of a stack but its top.
LEMMA FrontIs ==
  ASSUME NEW t \in Seq(Nat), Len(t) \in Nat \ {0}
  PROVE  /\ Front(t) \in Seq(Nat) /\ Len(Front(t)) = Len(t) - 1
         /\ \A j \in 1 .. Len(t) - 1 : Front(t)[j] = t[j]
<1> DEFINE k == Len(t) - 1
<1>1. k \in Nat /\ k <= Len(t) /\ Front(t) = SubSeq(t, 1, k)
  BY DEF Front
<1> HIDE DEF k
<1>2. SubSeq(t, 1, k) \in Seq(Nat) /\ Len(SubSeq(t, 1, k)) = k
  BY <1>1
<1>3. \A j \in 1 .. k : SubSeq(t, 1, k)[j] = t[j]
  BY <1>1
<1> QED BY <1>1, <1>2, <1>3 DEF k

\* An opening bracket goes on the stack.
LEMMA ScanOpens ==
  ASSUME NEW s, NEW n \in Nat, NEW st \in Scans, Scanned(s, n, st), s[n + 1] = "("
  PROVE  Scanned(s, n + 1, ScanStep(s, st, n + 1))
<1> DEFINE o == st.open
           m == Len(o)
           p == Append(o, n + 1)
<1>1. /\ o \in Seq(Nat) /\ m \in Nat
      /\ \A j \in 1 .. m : o[j] \in 1 .. n /\ OpenAt(s, o[j], n) /\ Depth(s, o[j], n) = m - j
      /\ \A i \in 1 .. n : OpenAt(s, i, n) => \E j \in 1 .. m : o[j] = i
      /\ st.pairs = Pairs(s, n)
  <2>1. o \in Seq(Nat) /\ m \in Nat
    BY DEF Scanned
  <2> QED BY <2>1, Zenon DEF Scanned
<1>2. ScanStep(s, st, n + 1) = [st EXCEPT !.open = p]
  BY DEF ScanStep
<1>3. ScanStep(s, st, n + 1).open = p /\ ScanStep(s, st, n + 1).pairs = st.pairs
  BY <1>2 DEF Scans
<1> HIDE DEF o
<1>4. /\ p \in Seq(Nat) /\ Len(p) = m + 1 /\ p[m + 1] = n + 1
      /\ \A j \in 1 .. m : p[j] = o[j]
  BY <1>1
<1> HIDE DEF m, p
<1>5. \A i \in 1 .. n : Depth(s, i, n + 1) = Depth(s, i, n) + 1 /\ Depth(s, i, n) \in Int
  <2> TAKE i \in 1 .. n
  <2>1. i \in Nat /\ i <= n
    OBVIOUS
  <2> QED BY <2>1, DepthGrows
<1>6. Depth(s, n + 1, n + 1) = 0 /\ OpenAt(s, n + 1, n + 1)
  <2>1. n + 1 \in Nat /\ n + 1 <= n + 1 /\ \A k \in n + 1 .. n + 1 : k = n + 1
    OBVIOUS
  <2>2. Depth(s, n + 1, n + 1) = 0
    BY <2>1, DepthGrows, Zenon
  <2> QED BY <2>1, <2>2 DEF OpenAt
<1>7. \A i \in 1 .. n : OpenAt(s, i, n + 1) <=> OpenAt(s, i, n)
  <2> TAKE i \in 1 .. n
  <2>1. OpenAt(s, i, n) => Depth(s, i, n) >= 0
    BY DEF OpenAt
  <2> QED BY <1>5, <2>1, OpenGrows
<1>8. ASSUME NEW j \in 1 .. m + 1
      PROVE  p[j] \in 1 .. n + 1 /\ OpenAt(s, p[j], n + 1) /\ Depth(s, p[j], n + 1) = (m + 1) - j
  <2>1. CASE j = m + 1
    BY <1>1, <1>4, <1>6, <2>1
  <2>2. CASE j \in 1 .. m
    <3>1. p[j] = o[j] /\ o[j] \in 1 .. n /\ OpenAt(s, o[j], n) /\ Depth(s, o[j], n) = m - j
      BY <1>1, <1>4, <2>2
    <3> QED BY <1>1, <1>5, <1>7, <2>2, <3>1
  <2> QED BY <1>1, <2>1, <2>2
<1>9. ASSUME NEW i \in 1 .. n + 1, OpenAt(s, i, n + 1) PROVE \E j \in 1 .. m + 1 : p[j] = i
  <2>1. CASE i = n + 1
    BY <1>1, <1>4, <2>1
  <2>2. CASE i \in 1 .. n
    <3>1. PICK j \in 1 .. m : o[j] = i
      BY <1>1, <1>7, <1>9, <2>2
    <3>2. j \in 1 .. m + 1 /\ p[j] = i
      BY <1>1, <1>4, <3>1
    <3> QED BY <3>2
  <2> QED BY <2>1, <2>2
<1>10. st.pairs = Pairs(s, n + 1)
  <2>1. s[n + 1] # ")"
    OBVIOUS
  <2>2. \A q : q \in Pairs(s, n + 1) <=> q \in Pairs(s, n)
    BY <2>1, PairsGrow
  <2> QED BY <1>1, <2>2 DEF Pairs
<1> QED BY <1>3, <1>4, <1>8, <1>9, <1>10 DEF Scanned

\* A closing bracket takes the last one open; without one it is skipped, like any
\* other character.
LEMMA ScanCloses ==
  ASSUME NEW s, NEW n \in Nat, NEW st \in Scans, Scanned(s, n, st), s[n + 1] = ")", st.open # <<>>
  PROVE  Scanned(s, n + 1, ScanStep(s, st, n + 1))
<1> DEFINE o == st.open
           m == Len(o)
           p == Front(o)
           top == Last(o)
<1>1. /\ o \in Seq(Nat) /\ m \in Nat \ {0}
      /\ \A j \in 1 .. m : o[j] \in 1 .. n /\ OpenAt(s, o[j], n) /\ Depth(s, o[j], n) = m - j
      /\ \A i \in 1 .. n : OpenAt(s, i, n) => \E j \in 1 .. m : o[j] = i
      /\ st.pairs = Pairs(s, n)
  <2>1. o \in Seq(Nat) /\ o # <<>>
    BY DEF Scanned
  <2>2. \A t \in Seq(Nat) : t # <<>> => Len(t) \in Nat \ {0}
    OBVIOUS
  <2>3. m \in Nat \ {0}
    BY <2>1, <2>2
  <2> QED BY <2>1, <2>3, Zenon DEF Scanned
<1>2. ScanStep(s, st, n + 1) = [open |-> p, pairs |-> st.pairs \cup {<<top, n + 1>>}]
  BY DEF ScanStep
<1>3. ScanStep(s, st, n + 1).open = p /\ ScanStep(s, st, n + 1).pairs = st.pairs \cup {<<top, n + 1>>}
  BY <1>2
<1> HIDE DEF o
<1>4. /\ p \in Seq(Nat) /\ Len(p) = m - 1 /\ top = o[m]
      /\ \A j \in 1 .. m - 1 : p[j] = o[j]
  BY <1>1, FrontIs DEF Last
<1> HIDE DEF m, p, top
<1>5. \A i \in 1 .. n : Depth(s, i, n + 1) = Depth(s, i, n) - 1 /\ Depth(s, i, n) \in Int
  <2> TAKE i \in 1 .. n
  <2>1. i \in Nat /\ i <= n
    OBVIOUS
  <2> QED BY <2>1, DepthGrows
<1>6. ~OpenAt(s, n + 1, n + 1)
  BY DEF OpenAt
<1>7. ASSUME NEW j \in 1 .. m - 1
      PROVE  p[j] \in 1 .. n + 1 /\ OpenAt(s, p[j], n + 1) /\ Depth(s, p[j], n + 1) = (m - 1) - j
  <2>1. p[j] = o[j] /\ o[j] \in 1 .. n /\ OpenAt(s, o[j], n) /\ Depth(s, o[j], n) = m - j
    <3>1. j \in 1 .. m
      BY <1>1
    <3>2. p[j] = o[j]
      BY <1>4, Zenon
    <3> QED BY <1>1, <3>1, <3>2, Zenon
  <2>2. Depth(s, o[j], n + 1) = (m - 1) - j /\ Depth(s, o[j], n + 1) >= 0
    BY <1>1, <1>5, <2>1
  <2>3. OpenAt(s, o[j], n + 1)
    BY <2>1, <2>2, OpenGrows
  <2> QED BY <2>1, <2>2, <2>3
<1>8. ASSUME NEW i \in 1 .. n + 1, OpenAt(s, i, n + 1) PROVE \E j \in 1 .. m - 1 : p[j] = i
  <2>1. i \in 1 .. n
    BY <1>6, <1>8
  <2>2. OpenAt(s, i, n) /\ Depth(s, i, n + 1) >= 0
    BY <1>8, <2>1, OpenGrows
  <2>3. PICK j \in 1 .. m : o[j] = i
    BY <1>1, <2>1, <2>2
  <2>4. j # m
    <3>1. Depth(s, i, n) = m - j /\ Depth(s, i, n + 1) = Depth(s, i, n) - 1
      BY <1>1, <1>5, <2>1, <2>3
    <3> QED BY <1>1, <2>2, <3>1
  <2>5. j \in 1 .. m - 1
    BY <1>1, <2>3, <2>4
  <2>6. p[j] = i
    BY <1>4, <2>3, <2>5
  <2> QED BY <2>5, <2>6
<1>9. st.pairs \cup {<<top, n + 1>>} = Pairs(s, n + 1)
  <2>1. \A q : q \in Pairs(s, n + 1) <=>
          \/ q \in Pairs(s, n)
          \/ \E i \in 1 .. n : q = <<i, n + 1>> /\ OpenAt(s, i, n) /\ Depth(s, i, n) = 0
    BY PairsGrow
  <2>2. top \in 1 .. n /\ OpenAt(s, top, n) /\ Depth(s, top, n) = 0
    <3>1. m \in 1 .. m /\ m - m = 0
      BY <1>1
    <3> QED BY <1>1, <1>4, <3>1
  <2>3. ASSUME NEW i \in 1 .. n, OpenAt(s, i, n), Depth(s, i, n) = 0 PROVE i = top
    <3>1. PICK j \in 1 .. m : o[j] = i
      BY <1>1, <2>3
    <3>2. Depth(s, i, n) = m - j
      BY <1>1, <3>1
    <3>3. j = m
      BY <1>1, <2>3, <3>2
    <3> QED BY <1>4, <3>1, <3>3
  <2>4. \A q : q \in Pairs(s, n + 1) <=> q \in Pairs(s, n) \/ q = <<top, n + 1>>
    BY <2>1, <2>2, <2>3
  <2>5. \A q : q \in st.pairs \cup {<<top, n + 1>>} <=> q \in Pairs(s, n) \/ q = <<top, n + 1>>
    BY <1>1
  <2> QED BY <2>4, <2>5
<1> QED BY <1>3, <1>4, <1>7, <1>8, <1>9 DEF Scanned

\* Nothing else changes the stack.
LEMMA ScanSkips ==
  ASSUME NEW s, NEW n \in Nat, NEW st \in Scans, Scanned(s, n, st),
         s[n + 1] # "(", ~(s[n + 1] = ")" /\ st.open # <<>>)
  PROVE  Scanned(s, n + 1, ScanStep(s, st, n + 1))
<1> DEFINE o == st.open
           m == Len(o)
<1>1. /\ o \in Seq(Nat) /\ m \in Nat
      /\ \A j \in 1 .. m : o[j] \in 1 .. n /\ OpenAt(s, o[j], n) /\ Depth(s, o[j], n) = m - j
      /\ \A i \in 1 .. n : OpenAt(s, i, n) => \E j \in 1 .. m : o[j] = i
      /\ st.pairs = Pairs(s, n)
  BY DEF Scanned
<1>2. ScanStep(s, st, n + 1) = st
  BY DEF ScanStep
<1>3. o = <<>> => m = 0
  OBVIOUS
<1>4. s[n + 1] = ")" => \A i \in 1 .. n : ~OpenAt(s, i, n)
  BY <1>1, <1>3
<1> HIDE DEF o, m
<1>5. ASSUME NEW i \in 1 .. n
      PROVE  OpenAt(s, i, n) => OpenAt(s, i, n + 1) /\ Depth(s, i, n + 1) = Depth(s, i, n)
  <2>1. OpenAt(s, i, n) => s[n + 1] # ")" /\ Depth(s, i, n) >= 0
    BY <1>4 DEF OpenAt
  <2>2. i \in Nat /\ i <= n
    OBVIOUS
  <2>3. s[n + 1] # ")" => Depth(s, i, n + 1) = Depth(s, i, n)
    BY <2>2, DepthGrows
  <2> QED BY <2>1, <2>3, OpenGrows
<1>6. ASSUME NEW j \in 1 .. m
      PROVE  o[j] \in 1 .. n + 1 /\ OpenAt(s, o[j], n + 1) /\ Depth(s, o[j], n + 1) = m - j
  BY <1>1, <1>5
<1>7. ASSUME NEW i \in 1 .. n + 1, OpenAt(s, i, n + 1) PROVE \E j \in 1 .. m : o[j] = i
  <2>1. i \in 1 .. n
    BY <1>7 DEF OpenAt
  <2> QED BY <1>1, <1>7, <2>1, OpenGrows
<1>8. st.pairs = Pairs(s, n + 1)
  <2>1. \A q : q \in Pairs(s, n + 1) <=> q \in Pairs(s, n)
    BY <1>4, PairsGrow
  <2> QED BY <1>1, <2>1 DEF Pairs
<1> QED BY <1>1, <1>2, <1>6, <1>7, <1>8 DEF Scanned, o, m

\* The scan finds the pairs that close what they open.
LEMMA BracketPairsAre ==
  ASSUME NEW s, Len(s) \in Nat
  PROVE  BracketPairs(s) = Pairs(s, Len(s))
<1> DEFINE L == Len(s)
           st(n) == ScanLoop(s)[n]
           N == {n \in Nat : st(n) \in Scans /\ Scanned(s, n, st(n))}
<1>1. 0 \in N
  <2> DEFINE none == [open |-> <<>>, pairs |-> {}]
  <2>1. none \in Scans
    BY DEF Scans
  <2>2. Scanned(s, 0, none)
    <3>1. none.open = <<>> /\ none.pairs = {} /\ Pairs(s, 0) = {}
      BY DEF Pairs
    <3> QED BY <3>1 DEF Scanned
  <2>3. st(0) = none
    BY ScanIs
  <2> HIDE DEF none
  <2> QED BY <2>1, <2>2, <2>3
<1>2. ASSUME NEW n \in 0 .. L - 1, n \in N PROVE n + 1 \in N
  <2>1. st(n + 1) = ScanStep(s, st(n), n + 1)
    BY ScanIs
  <2>2. n \in Nat /\ n + 1 \in Nat /\ st(n) \in Scans /\ Scanned(s, n, st(n))
    BY <1>2
  <2> HIDE DEF st
  <2>3. Scanned(s, n + 1, ScanStep(s, st(n), n + 1))
    BY <2>2, ScanOpens, ScanCloses, ScanSkips
  <2>4. ScanStep(s, st(n), n + 1) \in Scans
    BY <2>2, ScanStepTyping
  <2> QED BY <2>1, <2>2, <2>3, <2>4
<1>3. L \in N
  <2> HIDE DEF N, L
  <2>1. L \in Nat /\ L \in 0 .. L
    BY DEF L
  <2>2. 0 .. L \subseteq N
    BY <1>1, <1>2, <2>1, CountingUp
  <2> QED BY <2>1, <2>2
<1>4. Scanned(s, L, st(L))
  BY <1>3
<1>5. BracketPairs(s) = st(L).pairs
  BY ScanIs
<1> QED BY <1>4, <1>5 DEF Scanned

\* A pair that is closed is a pair with nothing between its brackets left open,
\* and what it is for the reference.
LEMMA ClosedIsBalanced ==
  ASSUME NEW s, NEW i \in Nat, NEW j \in Nat, i < j, s[i] = "(", s[j] = ")"
  PROVE  Closed(s, i, j) <=> Balanced(s, i, j)
<1>1. \A k \in i .. j - 1 : Counted(s, "(", i, k) \in Nat /\ Counted(s, ")", i, k) \in Nat
  <2> TAKE k \in i .. j - 1
  <2>1. k \in Nat /\ i <= k
    OBVIOUS
  <2> QED BY <2>1, CountGrows
<1>2. Balanced(s, i, j) <=> /\ Counted(s, "(", i, j - 1) = Counted(s, ")", i, j - 1)
                            /\ \A k \in i + 1 .. j - 1 : Counted(s, "(", i, k) >= Counted(s, ")", i, k)
  BY Zenon DEF Balanced, Counted
<1>3. Depth(s, i, i) = 0
  <2>1. i <= i
    OBVIOUS
  <2> QED BY <2>1, DepthGrows, Zenon
<1>4. j - 1 \in i .. j - 1 /\ i .. j - 1 = {i} \cup (i + 1 .. j - 1)
  OBVIOUS
<1>5. \A k \in i .. j - 1 : /\ Depth(s, i, k) >= 0 <=> Counted(s, "(", i, k) >= Counted(s, ")", i, k)
                            /\ Depth(s, i, k) = 0 <=> Counted(s, "(", i, k) = Counted(s, ")", i, k)
  BY <1>1 DEF Depth
<1>6. Closed(s, i, j) <=> /\ Depth(s, i, j - 1) = 0
                          /\ \A k \in i .. j - 1 : Depth(s, i, k) >= 0
  BY DEF Closed, OpenAt
<1>7. (\A k \in i .. j - 1 : Depth(s, i, k) >= 0) <=> (\A k \in i + 1 .. j - 1 : Depth(s, i, k) >= 0)
  BY <1>3, <1>4
<1> QED BY <1>2, <1>4, <1>5, <1>6, <1>7

\* Of two pairs around one column, one is within the other.
LEMMA PairsNest ==
  ASSUME NEW s, NEW i \in Nat, NEW j \in Nat, Closed(s, i, j),
         NEW g \in Nat, NEW h \in Nat, Closed(s, g, h), i < g, g <= j
  PROVE  h < j
<1>1. /\ i < j /\ s[j] = ")" /\ s[i] = "(" /\ Depth(s, i, j - 1) = 0
      /\ \A k \in i .. j - 1 : Depth(s, i, k) >= 0
      /\ g < h /\ s[h] = ")" /\ s[g] = "(" /\ Depth(s, g, h - 1) = 0
      /\ \A k \in g .. h - 1 : Depth(s, g, k) >= 0
  BY DEF Closed, OpenAt
<1>2. g # j
  BY <1>1
<1>3. SUFFICES ASSUME j <= h PROVE FALSE
  OBVIOUS
<1>4. g - 1 \in Nat /\ i <= g - 1 /\ (g - 1) + 1 = g /\ j - 1 \in Nat /\ g <= j - 1 /\ (j - 1) + 1 = j
  BY <1>1, <1>2
\* Where the inner one begins the outer one is one deeper than just before.
<1>5. Depth(s, i, g) = Depth(s, i, g - 1) + 1 /\ Depth(s, i, g - 1) >= 0 /\ Depth(s, i, g - 1) \in Int
  <2>1. g - 1 \in i .. j - 1
    BY <1>4
  <2>2. \A k \in Nat : i <= k /\ s[k + 1] = "(" => Depth(s, i, k + 1) = Depth(s, i, k) + 1 /\ Depth(s, i, k) \in Int
    BY DepthGrows
  <2> QED BY <1>1, <1>4, <2>1, <2>2
<1>6. Depth(s, i, j - 1) = Depth(s, i, g) + Depth(s, g, j - 1) /\ Depth(s, g, j - 1) \in Int
  <2>1. i <= g
    OBVIOUS
  <2>2. Depth(s, i, j - 1) = Depth(s, i, g) + Depth(s, g, j - 1)
    BY <1>4, <2>1, DepthAdds
  <2>3. Depth(s, g, j - 1) \in Int
    BY <1>4, DepthGrows
  <2> QED BY <2>2, <2>3
<1>7. Depth(s, g, j - 1) >= 0
  <2>1. j - 1 \in g .. h - 1
    BY <1>3, <1>4
  <2> QED BY <1>1, <2>1
<1> QED BY <1>1, <1>5, <1>6, <1>7

\* A bracket is closed by one column only.
LEMMA PairIsOne ==
  ASSUME NEW s, NEW i \in Nat, NEW j \in Nat, Closed(s, i, j), NEW h \in Nat, Closed(s, i, h)
  PROVE  j = h
<1>1. ASSUME NEW a \in Nat, NEW b \in Nat, Closed(s, i, a), Closed(s, i, b), a < b PROVE FALSE
  <2>1. /\ i < a /\ s[a] = ")" /\ Depth(s, i, a - 1) = 0 /\ i < b
        /\ \A k \in i .. b - 1 : Depth(s, i, k) >= 0
    BY <1>1 DEF Closed, OpenAt
  <2>2. a - 1 \in Nat /\ i <= a - 1 /\ (a - 1) + 1 = a /\ a \in i .. b - 1
    BY <1>1, <2>1
  <2>3. \A k \in Nat : i <= k /\ s[k + 1] = ")" => Depth(s, i, k + 1) = Depth(s, i, k) - 1
    BY DepthGrows
  <2>4. Depth(s, i, a) = Depth(s, i, a - 1) - 1
    BY <2>1, <2>2, <2>3
  <2>5. Depth(s, i, a) >= 0
    BY <2>1, <2>2
  <2> QED BY <2>1, <2>4, <2>5
<1> QED BY <1>1

\* Of pairs around one column there is an innermost one.
LEMMA InnermostExists ==
  ASSUME NEW s, NEW n \in Nat, NEW c \in Int,
         NEW found, found \subseteq Pairs(s, n), found # {},
         \A q \in found : q[1] - 1 <= c /\ c <= q[2] - 1
  PROVE  \E q \in found : \A r \in found : r[1] <= q[1] /\ q[2] <= r[2]
<1> DEFINE firsts == {q[1] : q \in found}
<1>1. \A q \in found : /\ q[1] \in Nat /\ q[2] \in Nat /\ q[1] <= n /\ Closed(s, q[1], q[2])
                     /\ q[1] <= c + 1 /\ c + 1 <= q[2]
  BY DEF Pairs
<1>2. firsts \subseteq Int /\ firsts # {} /\ \A x \in firsts : x <= n
  BY <1>1
<1>3. Max(firsts) \in firsts /\ \A x \in firsts : x <= Max(firsts)
  <2> HIDE DEF firsts
  <2>1. n \in Int
    OBVIOUS
  <2> QED BY <1>2, <2>1, MaxIs
<1>4. PICK q \in found : \A r \in found : r[1] <= q[1]
  BY <1>3
<1>5. ASSUME NEW r \in found PROVE q[2] <= r[2]
  <2>1. /\ q[1] \in Nat /\ q[2] \in Nat /\ Closed(s, q[1], q[2]) /\ q[1] <= c + 1 /\ c + 1 <= q[2]
        /\ r[1] \in Nat /\ r[2] \in Nat /\ Closed(s, r[1], r[2]) /\ r[1] <= c + 1 /\ c + 1 <= r[2]
        /\ r[1] <= q[1]
    BY <1>1, <1>4
  <2>2. CASE r[1] < q[1]
    <3>1. q[1] <= r[2]
      BY <2>1
    <3>2. q[2] < r[2]
      BY <2>1, <2>2, <3>1, PairsNest
    <3> QED BY <2>1, <3>2
  <2>3. CASE r[1] = q[1]
    <3>1. q[2] = r[2]
      BY <2>1, <2>3, PairIsOne
    <3> QED BY <2>1, <3>1
  <2> QED BY <2>1, <2>2, <2>3
<1> QED BY <1>4, <1>5

\* The bracket object is the smallest balanced pair around the cursor, and there is
\* one whenever the cursor is inside a pair (BracketsInnermost; tobjBracket).
THEOREM BracketObjectIsInnermost == WalkSpec => []BracketsInnermost
<1>1. WalkInv => BracketsInnermost
  <2> DEFINE s == Text(buffer, at.line)
             n == Len(s)
             Here(q) == q[1] - 1 <= at.col /\ at.col <= q[2] - 1
             around == {q \in (DOMAIN s) \X (DOMAIN s) :
                          /\ q[1] < q[2] /\ s[q[1]] = "(" /\ s[q[2]] = ")"
                          /\ Balanced(s, q[1], q[2])
                          /\ q[1] - 1 <= at.col /\ at.col <= q[2] - 1}
             found == {q \in Pairs(s, n) : q[1] - 1 <= at.col /\ at.col <= q[2] - 1}
             best == CHOOSE q \in found : \A r \in found : r[1] <= q[1] /\ q[2] <= r[2]
             object == BracketObject(buffer, at, TRUE)
  <2> SUFFICES ASSUME WalkInv
               PROVE  /\ (object = NoSpan) = (around = {})
                      /\ around # {} => /\ <<object.start + 1, object.end>> \in around
                                        /\ \A q \in around : object.end - object.start <= q[2] - q[1] + 1
    BY Zenon DEF BracketsInnermost
  <2>1. /\ n \in Nat /\ DOMAIN s = 1 .. n /\ at.col \in Int
    <3>1. Buffer(buffer) /\ at.col \in Int
      BY CursorsAre DEF WalkInv, Places
    <3>2. s \in Seq(Characters)
      BY <3>1, TextTyping
    <3> QED BY <3>1, <3>2
  <2>2. around = found
    <3>1. ASSUME NEW q \in (1 .. n) \X (1 .. n)
          PROVE  Closed(s, q[1], q[2])
                   <=> q[1] < q[2] /\ s[q[1]] = "(" /\ s[q[2]] = ")" /\ Balanced(s, q[1], q[2])
      <4>1. q[1] \in Nat /\ q[2] \in Nat
        OBVIOUS
      <4>2. Closed(s, q[1], q[2]) => q[1] < q[2] /\ s[q[1]] = "(" /\ s[q[2]] = ")"
        BY DEF Closed, OpenAt
      <4> HIDE DEF s
      <4> QED BY <4>1, <4>2, ClosedIsBalanced
    <3> HIDE DEF s, n
    <3> QED BY <2>1, <3>1, Zenon DEF Pairs
  <2>3. object = IF found = {} THEN NoSpan ELSE Span(best[1] - 1, best[2])
    <3>1. BracketPairs(s) = Pairs(s, n)
      <4> HIDE DEF s
      <4> QED BY <2>1, BracketPairsAre
    <3> DEFINE Best(pairs) == CHOOSE q \in pairs : \A r \in pairs : r[1] <= q[1] /\ q[2] <= r[2]
               Near(pairs) == {q \in pairs : q[1] - 1 <= at.col /\ at.col <= q[2] - 1}
               near == Near(BracketPairs(s))
    <3>2. \A bg : BracketObject(buffer, at, bg)
                    = IF near = {} THEN NoSpan
                      ELSE IF bg THEN Span(Best(near)[1] - 1, Best(near)[2])
                           ELSE Span(Best(near)[1], Best(near)[2] - 1)
      BY Zenon DEF BracketObject
    <3>3. near = found
      BY <3>1, Zenon
    <3>4. best = Best(near)
      BY <3>3, Zenon
    <3> HIDE DEF near, found, best, Best, n
    <3>5. object = IF near = {} THEN NoSpan
                   ELSE IF TRUE THEN Span(Best(near)[1] - 1, Best(near)[2])
                        ELSE Span(Best(near)[1], Best(near)[2] - 1)
      BY <3>2, Zenon
    <3> HIDE DEF object
    <3> QED BY <3>3, <3>4, <3>5, Zenon
  <2> HIDE DEF around, object
  <2>4. CASE found = {}
    BY <2>2, <2>3, <2>4
  <2>5. CASE found # {}
    <3>1. best \in found /\ \A r \in found : r[1] <= best[1] /\ best[2] <= r[2]
      <4>1. \E q \in found : \A r \in found : r[1] <= q[1] /\ q[2] <= r[2]
        <5> HIDE DEF s, n
        <5>1. found \subseteq Pairs(s, n) /\ \A q \in found : q[1] - 1 <= at.col /\ at.col <= q[2] - 1
          OBVIOUS
        <5> HIDE DEF found
        <5> QED BY <2>1, <2>5, <5>1, InnermostExists
      <4> HIDE DEF found
      <4> QED BY <4>1, Zenon
    <3> HIDE DEF best
    <3>2. \A q \in found : q = <<q[1], q[2]>> /\ q[1] \in 1 .. n /\ q[2] \in 1 .. n
      <4> HIDE DEF s, n
      <4> QED BY DEF Pairs
    <3>3. best = <<best[1], best[2]>> /\ best[1] \in 1 .. n /\ best[2] \in 1 .. n
      BY <3>1, <3>2
    <3> HIDE DEF found, n
    <3>4. object.start = best[1] - 1 /\ object.end = best[2]
      BY <2>3, <2>5 DEF Span
    <3>5. object # NoSpan
      <4>1. NoSpan.end = 0
        BY DEF NoSpan, Span
      <4> QED BY <2>1, <3>3, <3>4, <4>1
    <3>6. <<object.start + 1, object.end>> = best
      <4>1. (best[1] - 1) + 1 = best[1]
        BY <2>1, <3>3
      <4> QED BY <3>3, <3>4, <4>1
    <3>7. ASSUME NEW q \in found PROVE object.end - object.start <= q[2] - q[1] + 1
      <4>1. q[1] \in Int /\ q[2] \in Int /\ best[1] \in Int /\ best[2] \in Int
        BY <2>1, <3>2, <3>3
      <4>2. q[1] <= best[1] /\ best[2] <= q[2]
        BY <3>1
      <4> QED BY <3>4, <4>1, <4>2
    <3> QED BY <2>2, <2>5, <3>1, <3>5, <3>6, <3>7
  <2> QED BY <2>4, <2>5
<1> QED BY <1>1, WalkHolds, PTL
=============================================================================
