----------------------------- MODULE CursorWalk -----------------------------
(***************************************************************************)
(* The copy-mode cursor walking a buffer by words: w, b, e and ge, and     *)
(* their WORD forms (resolveMotion, handlePendG in                         *)
(* internal/tui/panes/logpanel_motion*.go), with reference definitions of  *)
(* what each motion, text object, find and wrap should answer from every   *)
(* place the cursor can be in.                                             *)
(***************************************************************************)
EXTENDS Motions

CONSTANT Buffers   \* the buffers the cursor may walk
ASSUME BuffersAssumption == \A b \in Buffers : b \in Seq(Seq(STRING)) /\ b # <<>>

VARIABLES buffer, at, big
walkVars == <<buffer, at, big>>

WalkInit == /\ buffer \in Buffers
            /\ at \in Cursors(buffer)
            /\ big \in BOOLEAN

Walk(M(_, _, _)) == at' = M(buffer, at, big) /\ UNCHANGED <<buffer, big>>

KeyW == Walk(WordForwardOnce)
KeyB == Walk(WordBackwardOnce)
KeyE == Walk(WordEndForwardOnce)
KeyGE == Walk(WordEndBackwardOnce)

WalkNext == KeyW \/ KeyB \/ KeyE \/ KeyGE
WalkSpec == WalkInit /\ [][WalkNext]_walkVars

-----------------------------------------------------------------------------
(* References *)

\* Whether the character at p begins, or ends, a run that is not blank.
Begins(p) == /\ p \in Solid(buffer)
             /\ \/ p.col = 0
                \/ ClassAt(buffer, Pos(p.line, p.col - 1), big) # ClassAt(buffer, p, big)
Ends(p) == /\ p \in Solid(buffer)
           /\ \/ p.col = Width(buffer, p.line) - 1
              \/ ClassAt(buffer, Pos(p.line, p.col + 1), big) # ClassAt(buffer, p, big)

Starts == {p \in Chars(buffer) : Begins(p)}
Stops == {p \in Chars(buffer) : Ends(p)}

\* w on a character goes to the least word start after it, over blank lines,
\* and to the end of the buffer when there is none (wordForwardOnce).  From the
\* end of a line the code skips the first word of the next one.
WordsForward ==
  LET ahead == {p \in Starts : Before(at, p)} IN
  at.col < Width(buffer, at.line)
  => WordForwardOnce(buffer, at, big) = IF ahead = {} THEN BufferEnd(buffer) ELSE Least(ahead)

\* b goes to the greatest word start before the cursor (wordBackwardOnce).
WordsBackward ==
  LET behind == {p \in Starts : Before(p, at)} IN
  WordBackwardOnce(buffer, at, big) = IF behind = {} THEN Home ELSE Greatest(behind)

\* e goes to the least word end after the cursor (wordEndForwardOnce): pressed
\* again it always moves on, until there is no word left.
WordEnds ==
  LET ahead == {p \in Stops : Before(at, p)} IN
  ahead # {} => WordEndForwardOnce(buffer, at, big) = Least(ahead)

\* The three from every place the motions lead to, which is in the buffer: the
\* panel indexes its lines with the cursor's on every paint (logpanel.go:555).
WordMotions == at \in Cursors(buffer) /\ WordsForward /\ WordsBackward /\ WordEnds

\* The columns strictly between i and j hold no bracket without its partner.
Balanced(s, i, j) ==
  LET count(ch, k) == Cardinality({x \in i + 1 .. k : s[x] = ch}) IN
  /\ count("(", j - 1) = count(")", j - 1)
  /\ \A k \in i + 1 .. j - 1 : count("(", k) >= count(")", k)

\* yi( and ya(: the object is the smallest balanced pair around the cursor, and
\* there is one whenever the cursor is inside a pair (tobjBracket).
BracketsInnermost ==
  LET s == Text(buffer, at.line)
      around == {q \in (DOMAIN s) \X (DOMAIN s) :
                   /\ q[1] < q[2] /\ s[q[1]] = "(" /\ s[q[2]] = ")"
                   /\ Balanced(s, q[1], q[2])
                   /\ q[1] - 1 <= at.col /\ at.col <= q[2] - 1}
      object == BracketObject(buffer, at, TRUE) IN
  /\ (object = NoSpan) = (around = {})
  /\ around # {} => /\ <<object.start + 1, object.end>> \in around
                    /\ \A q \in around : object.end - object.start <= q[2] - q[1] + 1

\* A wrapped line loses no column and repeats none, and no row is wider than the
\* pane (wrapLine).
WrapKeepsAll ==
  \A width \in 1 .. 4 :
    LET n == Width(buffer, at.line)
        rows == WrapLine(n, width) IN
    /\ rows[1].from = 0 /\ rows[Len(rows)].to = n
    /\ \A k \in DOMAIN rows : rows[k].to - rows[k].from <= width
    /\ \A k \in 1 .. Len(rows) - 1 : rows[k].to = rows[k + 1].from /\ rows[k].from < rows[k].to
=============================================================================
