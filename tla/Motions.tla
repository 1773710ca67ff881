------------------------------ MODULE Motions -------------------------------
(***************************************************************************)
(* The pure half of copy mode: words, finds, text objects, ranges and      *)
(* hard wrapping (internal/tui/panes/logpanel_motion.go,                   *)
(* logpanel_motion_ranges.go, logpanel_textobjects.go, logpanel_wrap.go).  *)
(*                                                                         *)
(* A buffer is a sequence of lines, a line a sequence of characters without*)
(* escape sequences.  Lines and columns count from 0, as in the code; a    *)
(* loop that walks to the first (or last) position with some property is   *)
(* the least (greatest) position of a set.                                 *)
(***************************************************************************)
EXTENDS Integers, FiniteSetsExt, SequencesExt

Pos(l, c) == [line |-> l, col |-> c]
Text(raw, l) == IF l \in 0 .. Len(raw) - 1 THEN raw[l + 1] ELSE <<>>
Width(raw, l) == Len(Text(raw, l))
LastLine(raw) == Len(raw) - 1

\* The characters of a buffer, and where a cursor may stand: past the last too.
CharAt(raw, p) == Text(raw, p.line)[p.col + 1]
Chars(raw) == UNION {{Pos(l, c) : c \in 0 .. Width(raw, l) - 1} : l \in 0 .. LastLine(raw)}
Cursors(raw) == UNION {{Pos(l, c) : c \in 0 .. Width(raw, l)} : l \in 0 .. LastLine(raw)}

Before(p, q) == p.line < q.line \/ (p.line = q.line /\ p.col < q.col)
Least(S) == CHOOSE p \in S : \A q \in S : ~Before(q, p)
Greatest(S) == CHOOSE p \in S : \A q \in S : ~Before(p, q)

Blank == {" ", "\t"}
WordChars == {"a", "b", "c", "_"}

\* classOf: 0 blank, 1 word, 2 punctuation; there is no punctuation in a WORD.
Class(ch, big) == CASE ch \in Blank -> 0
                    [] ch \notin Blank /\ (big \/ ch \in WordChars) -> 1
                    [] OTHER -> 2
ClassAt(raw, p, big) == Class(CharAt(raw, p), big)

\* The columns of the run of one class around p, in its line.
Run(raw, p, big) ==
  {c \in 0 .. Width(raw, p.line) - 1 :
     \A d \in (c .. p.col) \cup (p.col .. c) :
       ClassAt(raw, Pos(p.line, d), big) = ClassAt(raw, p, big)}

Solid(raw) == {p \in Chars(raw) : CharAt(raw, p) \notin Blank}
BufferEnd(raw) == Pos(LastLine(raw), Width(raw, LastLine(raw)))

-----------------------------------------------------------------------------
(* Words *)

\* From the end of a line, the run skipped is the first one of the next line.
WordForwardOnce(raw, p, big) ==
  LET atEnd == p.col >= Width(raw, p.line)
      q == IF atEnd THEN Pos(p.line + 1, 0) ELSE p
      r == IF q \in Solid(raw) THEN Pos(q.line, Max(Run(raw, q, big)) + 1) ELSE q
      ahead == {x \in Solid(raw) : ~Before(x, r)} IN
  IF (atEnd /\ p.line >= LastLine(raw)) \/ ahead = {} THEN BufferEnd(raw) ELSE Least(ahead)

\* One byte back, over the start of the line; at the very start, nowhere.
StepBack(raw, p) ==
  IF p.col > 0 THEN Pos(p.line, p.col - 1)
  ELSE Pos(p.line - 1, Max({0, Width(raw, p.line - 1) - 1}))

Home == Pos(0, 0)

WordBackwardOnce(raw, p, big) ==
  LET behind == {q \in Solid(raw) : ~Before(StepBack(raw, p), q)} IN
  IF p = Home \/ behind = {} THEN Home
  ELSE LET q == Greatest(behind) IN Pos(q.line, Min(Run(raw, q, big)))

\* Mutant: no step before the walk.
WordEndForwardOnceStays(raw, p, big) ==
  LET ahead == {x \in Solid(raw) : ~Before(x, p)} IN
  IF ahead = {} THEN Pos(LastLine(raw), Max({0, Width(raw, LastLine(raw)) - 1}))
  ELSE LET q == Least(ahead) IN Pos(q.line, Max(Run(raw, q, big)))

WordEndForwardOnce(raw, p, big) ==
  LET r == CASE p.col < Width(raw, p.line) -> Pos(p.line, p.col + 1)
             [] p.col >= Width(raw, p.line) /\ p.line < LastLine(raw) -> Pos(p.line + 1, 0)
             [] OTHER -> p
      ahead == {x \in Solid(raw) : ~Before(x, r)} IN
  IF ahead = {} THEN Pos(LastLine(raw), Max({0, Width(raw, LastLine(raw)) - 1}))
  ELSE LET q == Least(ahead) IN Pos(q.line, Max(Run(raw, q, big)))

\* ge: whatever is not blank is taken for an end.
WordEndBackwardOnce(raw, p, big) ==
  LET behind == {q \in Solid(raw) : ~Before(StepBack(raw, p), q)} IN
  IF p = Home \/ behind = {} THEN Home ELSE Greatest(behind)

\* A word motion, by its key, done n times.
Steps(key, raw, p, big, n) ==
  LET once(q) == CASE key = "w" -> WordForwardOnce(raw, q, big)
                   [] key = "b" -> WordBackwardOnce(raw, q, big)
                   [] key = "e" -> WordEndForwardOnce(raw, q, big)
                   [] key = "ge" -> WordEndBackwardOnce(raw, q, big)
      f[i \in 0 .. n] == IF i = 0 THEN p ELSE once(f[i - 1])
  IN f[n]

FirstNonBlank(raw, l) ==
  LET s == {p \in Solid(raw) : p.line = l} IN IF s = {} THEN Width(raw, l) ELSE Least(s).col

\* f, F, t, T: the nth such character of the line, or the last there is.
NoFind == -1

FindCol(raw, p, ch, forward, till, n) ==
  LET hits == {c \in 0 .. Width(raw, p.line) - 1 :
                 /\ Text(raw, p.line)[c + 1] = ch
                 /\ IF forward THEN c > p.col ELSE c < p.col}
      passed(c) == {d \in hits : IF forward THEN d <= c ELSE d >= c}
      nth == {c \in hits : Cardinality(passed(c)) = Min({n, Cardinality(hits)})}
      found == CHOOSE c \in nth : TRUE IN
  CASE hits = {} -> NoFind
    [] hits # {} /\ ~till -> found
    [] OTHER -> IF forward THEN found - 1 ELSE found + 1

-----------------------------------------------------------------------------
(* Text objects: the columns [start, end) of one line, or none *)

Span(s, e) == [start |-> s, end |-> e]
NoSpan == Span(0, 0)

\* iw, aw: the run under the cursor; aw takes the blanks after it, or else
\* those before it, and on blanks the word after them.
WordObject(raw, p, big, around) ==
  LET n == Width(raw, p.line)
      at == Pos(p.line, Min({p.col, n - 1}))
      run == Run(raw, at, big)
      after == Pos(p.line, Max(run) + 1)
      before == Pos(p.line, Min(run) - 1)
      blankAt(q) == q \in Chars(raw) /\ CharAt(raw, q) \in Blank
      solidAfter == {c \in after.col .. n : \A d \in after.col .. c - 1 : ~blankAt(Pos(p.line, d))} IN
  CASE n = 0 -> NoSpan
    [] n > 0 /\ ~around -> Span(Min(run), Max(run) + 1)
    [] n > 0 /\ around /\ blankAt(at) -> Span(Min(run), Max(solidAfter))
    [] OTHER -> IF blankAt(after) THEN Span(Min(run), Max(Run(raw, after, big)) + 1)
                ELSE IF blankAt(before) THEN Span(Min(Run(raw, before, big)), after.col)
                ELSE Span(Min(run), after.col)

\* i", a": quotes are paired from the left.
QuoteObject(raw, p, quote, around) ==
  LET cols == SetToSortSeq({c \in 0 .. Width(raw, p.line) - 1 : Text(raw, p.line)[c + 1] = quote}, <)
      pairs == {i \in DOMAIN cols : i % 2 = 1 /\ i < Len(cols)}
      hit == {i \in pairs : cols[i] <= p.col /\ p.col <= cols[i + 1]}
      blanks(c) == {e \in c .. Width(raw, p.line) :
                      \A d \in c .. e - 1 : Text(raw, p.line)[d + 1] \in Blank} IN
  IF Len(cols) < 2 THEN NoSpan
  ELSE IF hit # {}
  THEN LET i == CHOOSE j \in hit : TRUE IN
       IF around THEN Span(cols[i], Max(blanks(cols[i + 1] + 1)))
       ELSE Span(cols[i] + 1, cols[i + 1])
  ELSE IF p.col < cols[1]
  THEN IF around THEN Span(cols[1], cols[2] + 1) ELSE Span(cols[1] + 1, cols[2])
  ELSE NoSpan

\* Mutant: a close without an open takes the last open that was closed.
BracketPairsLoose(s) ==
  {q \in (DOMAIN s) \X (DOMAIN s) : q[1] < q[2] /\ s[q[1]] = "(" /\ s[q[2]] = ")"}

\* The pairs of the stack scan: a close takes the latest open that is left.
BracketPairs(s) ==
  LET scan[n \in 0 .. Len(s)] ==
        IF n = 0 THEN [open |-> <<>>, pairs |-> {}]
        ELSE LET was == scan[n - 1] IN
             CASE s[n] = "(" -> [was EXCEPT !.open = Append(@, n)]
               [] s[n] = ")" /\ was.open # <<>> ->
                    [open |-> Front(was.open), pairs |-> was.pairs \cup {<<Last(was.open), n>>}]
               [] OTHER -> was IN
  scan[Len(s)].pairs

\* i(, a(: the innermost pair around the cursor.
BracketObject(raw, p, around) ==
  LET hit == {q \in BracketPairs(Text(raw, p.line)) : q[1] - 1 <= p.col /\ p.col <= q[2] - 1}
      best == CHOOSE q \in hit : \A r \in hit : r[1] <= q[1] /\ q[2] <= r[2] IN
  IF hit = {} THEN NoSpan
  ELSE IF around THEN Span(best[1] - 1, best[2]) ELSE Span(best[1], best[2] - 1)

-----------------------------------------------------------------------------
(* Ranges, and wrapping *)

\* normaliseCharRange.
Ordered(p, q) == IF Before(q, p) THEN <<q, p>> ELSE <<p, q>>

\* sliceChar, and the charwise yankText: from one position to before another.
Slice(raw, p, q) == {c \in Chars(raw) : ~Before(c, p) /\ Before(c, q)}

Lines(raw, l, m) == {c \in Chars(raw) : l <= c.line /\ c.line <= m}

\* Mutant: the last, shorter row is lost.
WrapLineShort(n, width) ==
  IF n <= width THEN <<[from |-> 0, to |-> n]>>
  ELSE [k \in 1 .. n \div width |-> [from |-> (k - 1) * width, to |-> k * width]]

\* wrapLine: the rows of a line of n visible columns.
WrapLine(n, width) ==
  IF n <= width THEN <<[from |-> 0, to |-> n]>>
  ELSE [k \in 1 .. (n + width - 1) \div width |->
          [from |-> (k - 1) * width, to |-> Min({n, k * width})]]
=============================================================================
