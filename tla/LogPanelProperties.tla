------------------------- MODULE LogPanelProperties -------------------------
(***************************************************************************)
(* What the log panel promises to whoever reads, clicks and copies in it.  *)
(***************************************************************************)
EXTENDS LogPanel

\* Every variable keeps to its kind, the offset to the rows that were painted, and
\* no step indexes a line that is not there (logpanel.go:555, logpanel_select.go:149).
TypeOK ==
  /\ json \in BOOLEAN /\ sticky \in BOOLEAN /\ paused \in BOOLEAN /\ wrap \in BOOLEAN
  /\ inCopy \in BOOLEAN /\ crashed \in BOOLEAN /\ copying \in BOOLEAN /\ op \in BOOLEAN
  /\ orig \in Logs \cup {<<>>} /\ size \in Sizes /\ filter \in Filters \cup {NoFilter}
  /\ sel.mode \in {"none", "char", "line"}
  /\ pend \in {"none", "g", "find", "i", "a"} /\ count \in 0 .. MaxCount
  /\ hit \in 0 .. Len(hits)
  /\ yoff \in 0 .. Len(rows)
  /\ ~crashed /\ inCopy => cur.line >= 0 /\ cur.col >= 0

\* What is highlighted is what a copy would take: yankText and overlaySelection
\* agree, and no step moves an end of the selection without painting it.
SelectionShown == HasSel(sel) => shown = YankText(raw, sel, cur)

\* A click on a character that is in sight puts the cursor on that character,
\* through the gutter, the offset and the wrapping (mouseToCursor), at the width
\* the rows were painted for.
ClickFinds(row, c) ==
  LET x == 1 + GutterWidth(inCopy, gutter) + c - row.from IN
  x > size.w - 3 \/ \A k \in DOMAIN rows :
    rows[k] = row /\ k - 1 \in yoff .. yoff + VpHeight(size) - 1
    => MouseToCursor(x, k - yoff) = Pos(row.line, c)
PaintedNow == paintedAt = ContentWidth(size, inCopy, gutter)
ClickRoundTrip ==
  PaintedNow => \A k \in DOMAIN rows :
    \A c \in rows[k].from .. rows[k].to - 1 :
      c < Width(raw, rows[k].line) => ClickFinds(rows[k], c)

\* The matches n and N walk are the lines of the buffer in sight that match the
\* filter, and the one jumped to is one of them, whatever replaced the buffer.
HitsAreMatches ==
  /\ TypeOK
  /\ \A l \in 0 .. LastLine(raw) :
       (\E i \in DOMAIN hits : hits[i] = l) = (filter # NoFilter /\ Contains(Text(raw, l), filter))
  /\ hit # 0 => hits[hit] <= LastLine(raw)

\* A motion leaves the first row of the cursor's line in the window, under any
\* wrapping and after any scrolling (ensureCursorVisible).
InWindow(rs, off, s, l) ==
  \E k \in off + 1 .. off + VpHeight(s) :
    k \in DOMAIN rs /\ rs[k].line = l /\ (k > 1 => rs[k - 1].line # l)
MotionShowsCursor ==
  [][inCopy /\ inCopy' /\ cur' # cur /\ drag = drag' /\ ~drag.pressed /\ ~crashed'
     => InWindow(rows', yoff', size', cur'.line)]_vars

\* What a drag or a visual yank copies is what was highlighted when it did.
CopiedWasShown ==
  [][HasSel(sel) /\ ~HasSel(sel)' /\ clip' # {} /\ ~crashed' => clip' = shown]_vars

\* "scrollToMatch positions the viewport so the current match line is visible"
\* (logpanel.go:679): n and N leave the line jumped to in the window.
MatchShown ==
  [][JumpMatch => InWindow(rows', yoff', size', hits[hit'])]_vars
=============================================================================
