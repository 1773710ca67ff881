------------------------------ MODULE LogPanel ------------------------------
(***************************************************************************)
(* The log panel (internal/tui/panes/logpanel*.go): the window that scrolls*)
(* over painted rows, hard wrapping, the filter's matches, mouse selection *)
(* and the vim-like copy mode with counts, operators and text objects.     *)
(*                                                                         *)
(* A row is a piece of a line: [line, from, to].  The escape sequences the *)
(* code paints with are the sets of cells they highlight.  Fewer than ten  *)
(* lines are shown, so a gutter takes four columns (GutterWidth).          *)
(***************************************************************************)
EXTENDS Motions

CONSTANTS
  Logs,      \* the ring snapshots the panel is given: sequences of lines
  Sizes,     \* outer sizes of the pane: [w, h]
  Clicks,    \* screen cells the mouse reports: <<x, y>>
  Keys,      \* keys pressed in copy mode
  Filters,   \* characters searched for
  MaxCount,  \* bound on a count prefix
  MaxTurns,  \* bound on new snapshots, settings and searches
  Shrinks    \* whether lines may go away under a cursor or a selection
ASSUME PanelAssumption ==
  /\ \A s \in Sizes : s.w \in Nat /\ s.h \in Nat \ {0, 1, 2}
  /\ \A lines \in Logs : lines \in Seq(Seq(STRING))
  /\ \A c \in Clicks : c[1] \in Int /\ c[2] \in Int
  /\ MaxCount \in Nat /\ MaxTurns \in Nat /\ Shrinks \in BOOLEAN

VARIABLES
  orig, json, raw,               \* the snapshot, pretty-printing, the lines shown
  rows, shown, paintedAt,        \* the last paint: its rows, its highlighted cells, its width
  crashed,                       \* an index out of range ended the program
  yoff, sticky, paused,          \* the window's offset and what follows the tail
  size, wrap, gutter,
  inCopy, cur, sel, drag,
  filter, hits, hit,             \* matching lines, and the one jumped to (0 none)
  pend, op, count, find, lastFind,
  turns,                         \* counts to MaxTurns
  clip, copying                  \* what this step copies; a clipboard write under way

docVars == <<orig, json, raw>>
paintVars == <<rows, shown, paintedAt, crashed>>
lookVars == <<size, wrap, gutter>>
findVars == <<filter, hits, hit>>
cmdVars == <<pend, op, count, find, lastFind>>
vars == <<docVars, paintVars, yoff, sticky, paused, lookVars, inCopy, cur, sel, drag,
          findVars, cmdVars, turns, clip, copying>>

NoSel == [mode |-> "none", anchor |-> Home]
NoDrag == [pressed |-> FALSE, at |-> Home]
NoFilter == ""
Seek(ch, forward, till) == [ch |-> ch, forward |-> forward, till |-> till]
NoSeek == Seek("", TRUE, FALSE)

HasSel(s) == s.mode # "none"

-----------------------------------------------------------------------------
(* Geometry *)

GutterWidth(copy, g) == IF copy \/ g THEN 4 ELSE 0
VpWidth(s, copy, g) == Max({1, s.w - 3 - GutterWidth(copy, g)})
ContentWidth(s, copy, g) == Max({1, VpWidth(s, copy, g) - GutterWidth(copy, g)})
VpHeight(s) == Max({1, s.h - 2})

\* The greatest offset of the window, and an offset brought into range.
Bottom(rs, s) == Max({0, Len(rs) - VpHeight(s)})
Within(n, rs, s) == Max({0, Min({n, Bottom(rs, s)})})

\* flattenJSONLines: a line that is an object is shown bracket, body, bracket.
Pretty(line) == IF Len(line) > 2 /\ Head(line) = "{"
                THEN <<<<"{">>, SubSeq(line, 2, Len(line) - 1), <<"}">>>> ELSE <<line>>
Display(lines, on) == IF on THEN FlattenSeq([i \in DOMAIN lines |-> Pretty(lines[i])]) ELSE lines

\* renderContent's loop: the index of each line that matches.
Matches(lines, ch) ==
  LET found[n \in 0 .. Len(lines)] ==
        IF n = 0 THEN <<>>
        ELSE IF ch # NoFilter /\ Contains(lines[n], ch) THEN Append(found[n - 1], n - 1)
        ELSE found[n - 1] IN
  found[Len(lines)]

-----------------------------------------------------------------------------
(* Selection *)

\* Mutant: the end of a charwise selection is left out.
OverlayShort(lines, s, c) ==
  LET ends == Ordered(s.anchor, c) IN
  IF s.mode = "line" THEN Lines(lines, ends[1].line, ends[2].line)
  ELSE {x \in Chars(lines) : HasSel(s) /\ ~Before(x, ends[1]) /\ Before(x, ends[2])}

\* overlaySelection: the cells painted in reverse, line by line.
Overlay(lines, s, c) ==
  LET ends == Ordered(s.anchor, c)
      fromCol(l) == IF s.mode = "char" /\ l = ends[1].line THEN ends[1].col ELSE 0
      toCol(l) == IF s.mode = "char" /\ l = ends[2].line THEN ends[2].col ELSE Width(lines, l) IN
  {x \in Chars(lines) : /\ HasSel(s)
                        /\ ends[1].line <= x.line /\ x.line <= ends[2].line
                        /\ fromCol(x.line) <= x.col /\ x.col <= toCol(x.line)}

\* yankText: the selection, or without one the line of the cursor.
YankText(lines, s, c) ==
  LET ends == Ordered(s.anchor, c) IN
  CASE s.mode = "none" -> Lines(lines, c.line, c.line)
    [] s.mode = "line" -> Lines(lines, ends[1].line, ends[2].line)
    [] s.mode = "char" -> Slice(lines, ends[1], Pos(ends[2].line, ends[2].col + 1))

\* rawLines is indexed with both ends.
YankPanics == /\ raw # <<>>
              /\ (IF HasSel(sel) THEN Ordered(sel.anchor, cur)[2] ELSE cur).line > LastLine(raw)

-----------------------------------------------------------------------------
(* Painting *)

\* overlayCursor adds a cell when the cursor is past the end.
CursorCell(l) == inCopy' /\ cur'.line = l /\ cur'.col >= Width(raw', l)

\* A line with an escape sequence; wrapLine ends one that fills its last row
\* with a row of nothing but escape sequences.
Styled(l) == \/ inCopy' /\ cur'.line = l
             \/ \E x \in shown' : x.line = l
             \/ \E i \in DOMAIN hits' : hits'[i] = l

RowsOf(l) ==
  LET cw == ContentWidth(size', inCopy', gutter')
      n == Width(raw', l) + (IF CursorCell(l) THEN 1 ELSE 0)
      pieces == IF wrap' THEN WrapLine(n, cw) ELSE <<[from |-> 0, to |-> n]>>
      empty == IF wrap' /\ Styled(l) /\ n > cw /\ n % cw = 0
               THEN <<[from |-> n, to |-> n]>> ELSE <<>> IN
  [k \in 1 .. Len(pieces) + Len(empty) |->
     LET p == (pieces \o empty)[k] IN [line |-> l, from |-> p.from, to |-> p.to]]

\* paintMatches, on the state the action has reached; a cursor beyond the lines
\* is an index out of range.
Paint ==
  /\ shown' = Overlay(raw', sel', cur')
  /\ rows' = FlattenSeq([i \in DOMAIN raw' |-> RowsOf(i - 1)])
  /\ paintedAt' = ContentWidth(size', inCopy', gutter')
  /\ crashed' = (inCopy' /\ raw' # <<>> /\ cur'.line \notin 0 .. LastLine(raw'))

\* Mutant: the match index stays the one of the buffer before.
RenderOldHits == UNCHANGED <<hits, hit>> /\ Paint

\* renderContent: the match index first.
Render == /\ hits' = Matches(raw', filter')
          /\ hit' = 0
          /\ Paint

\* SetRows keeps the offset, or brings it back into range.
KeepOffset == yoff' = Within(yoff, rows', size')

Init ==
  /\ orig = <<>> /\ json = FALSE /\ raw = <<>>
  /\ rows = <<>> /\ shown = {} /\ crashed = FALSE
  /\ size \in Sizes /\ wrap = TRUE /\ gutter = FALSE
  /\ paintedAt = ContentWidth(size, FALSE, FALSE)
  /\ yoff = 0 /\ sticky = TRUE /\ paused = FALSE
  /\ inCopy = FALSE /\ cur = Home /\ sel = NoSel /\ drag = NoDrag
  /\ filter = NoFilter /\ hits = <<>> /\ hit = 0
  /\ pend = "none" /\ op = FALSE /\ count = 0 /\ find = NoSeek /\ lastFind = NoSeek
  /\ clip = {} /\ copying = FALSE /\ turns = 0

NoYank == clip' = {} /\ UNCHANGED copying

\* Steps that count towards MaxTurns, and the others.
Turn == ~crashed /\ turns < MaxTurns /\ turns' = turns + 1
Stay == ~crashed /\ UNCHANGED turns

\* Lines may only go when nobody stands in them, unless Shrinks.
Held == inCopy \/ HasSel(sel) \/ drag.pressed
MayShow(lines) == Shrinks \/ ~Held \/ Len(lines) >= Len(raw)

-----------------------------------------------------------------------------
(* The log tick, commands and the window *)

SetLines(lines) ==
  /\ Turn
  /\ lines # orig
  /\ MayShow(Display(lines, json))
  /\ orig' = lines
  /\ raw' = Display(lines, json)
  /\ UNCHANGED <<json, lookVars, inCopy, cur, sel, drag, sticky, paused, filter, cmdVars>>
  /\ NoYank
  /\ Render
  /\ yoff' = IF sticky /\ ~paused /\ ~HasSel(sel) THEN Bottom(rows', size)
             ELSE Within(yoff, rows', size)

SetJSONPretty ==
  /\ Turn
  /\ ~inCopy
  /\ MayShow(Display(orig, ~json))
  /\ json' = ~json
  /\ raw' = Display(orig, json')
  /\ UNCHANGED <<orig, lookVars, inCopy, cur, sel, drag, sticky, paused, filter, cmdVars>>
  /\ NoYank
  /\ Render /\ KeepOffset

SetGutter ==
  /\ Turn
  /\ ~inCopy
  /\ gutter' = ~gutter
  /\ UNCHANGED <<docVars, size, wrap, inCopy, cur, sel, drag, sticky, paused, filter, cmdVars>>
  /\ NoYank
  /\ Render /\ KeepOffset

SetWrap ==
  /\ Turn
  /\ ~inCopy
  /\ wrap' = ~wrap
  /\ UNCHANGED <<docVars, size, gutter, inCopy, cur, sel, drag, sticky, paused, findVars, cmdVars>>
  /\ NoYank
  /\ Paint /\ KeepOffset

\* Nothing is painted until something else does.
SetSize(s) ==
  /\ Turn
  /\ s # size
  /\ size' = s
  /\ UNCHANGED <<docVars, paintVars, yoff, sticky, paused, wrap, gutter, inCopy, cur, sel, drag,
                 findVars, cmdVars>>
  /\ NoYank

\* Update's scroll keys, in normal mode: by n rows, or to an end.
ScrollTo(n, follow) ==
  /\ Stay
  /\ ~inCopy
  /\ yoff' = Within(n, rows, size)
  /\ sticky' = follow
  /\ UNCHANGED <<docVars, paintVars, paused, lookVars, inCopy, cur, sel, drag, findVars, cmdVars>>
  /\ NoYank
ScrollBack == \E n \in {yoff - VpHeight(size), yoff - 5, 0} : ScrollTo(n, FALSE)
ScrollOn == \E n \in {yoff + VpHeight(size), yoff + 5} :
               ScrollTo(n, sticky \/ Within(n, rows, size) >= Bottom(rows, size))
ScrollEnd == ScrollTo(Bottom(rows, size), TRUE)

\* scrollMouse: away from the bottom the tail is no longer followed.
Wheel ==
  \E n \in {yoff - 3, yoff + 3} :
    /\ Stay
    /\ yoff' = Within(n, rows, size)
    /\ sticky' = (sticky /\ yoff' >= Bottom(rows, size))
    /\ UNCHANGED <<docVars, paintVars, paused, lookVars, inCopy, cur, sel, drag, findVars, cmdVars>>
    /\ NoYank

-----------------------------------------------------------------------------
(* Matches *)

\* scrollToMatch: the line's number is taken for its row.
MatchOffset(l) == Max({0, l - VpHeight(size) \div 3})

\* FilterCommitMsg: the filter, and a jump to its first match.
SetFilter(ch) ==
  /\ Turn
  /\ ~inCopy
  /\ filter' = ch
  /\ UNCHANGED <<docVars, lookVars, inCopy, cur, sel, drag, paused, cmdVars>>
  /\ NoYank
  /\ hits' = Matches(raw, ch)
  /\ Paint
  /\ IF hits' = <<>>
     THEN hit' = 0 /\ KeepOffset /\ UNCHANGED sticky
     ELSE hit' = 1 /\ yoff' = Within(MatchOffset(hits'[1]), rows', size) /\ sticky' = FALSE

\* Mutant: only the last row is brought into the window.
CursorOffsetLast(rs, l, off) ==
  LET at == {k \in DOMAIN rs : rs[k].line = l}
      last == IF at = {} THEN l ELSE Max(at) - 1 IN
  IF last < off \/ last >= off + VpHeight(size)
  THEN Within(last - VpHeight(size) + 1, rs, size) ELSE off

\* The window of a cursor whose line has these rows: the first and, if that fits,
\* the last of them (ensureCursorVisible).
CursorOffset(rs, l, off) ==
  LET at == {k \in DOMAIN rs : rs[k].line = l}
      first == IF at = {} THEN l ELSE Min(at) - 1
      last == IF at = {} THEN l ELSE Max(at) - 1
      h == VpHeight(size) IN
  CASE first < off -> Within(first, rs, size)
    [] first >= off /\ last >= off + h -> Within(Min({first, last - h + 1}), rs, size)
    [] OTHER -> off

\* JumpNextMatch, JumpPrevMatch; in copy mode the cursor goes along.
NextHit == IF hit = Len(hits) THEN 1 ELSE hit + 1
PrevHit == CASE hit = 0 -> 1
             [] hit = 1 -> Len(hits)
             [] hit > 1 -> hit - 1
JumpMatch ==
  /\ Stay
  /\ hits # <<>>
  /\ hit' \in {NextHit, PrevHit}
  /\ sticky' = FALSE
  /\ cur' = IF inCopy THEN Pos(hits[hit'], 0) ELSE cur
  /\ UNCHANGED <<docVars, lookVars, inCopy, sel, drag, paused, filter, hits, cmdVars>>
  /\ NoYank
  /\ Paint
  /\ LET off == Within(MatchOffset(hits[hit']), rows', size) IN
     yoff' = IF inCopy THEN CursorOffset(rows', cur'.line, off) ELSE off

-----------------------------------------------------------------------------
(* Copy mode: entering, leaving, Esc *)

\* clampCol.
OnLine(p) == Pos(p.line, Max({0, Min({p.col, Width(raw, p.line)})}))

\* The cursor starts on the line of the window's first row; the gutter that
\* copy mode brings narrows the rows only then.
EnterCopy ==
  /\ Stay
  /\ ~inCopy
  /\ inCopy' = TRUE
  /\ sticky' = FALSE
  /\ LET top == IF yoff < Len(rows) THEN rows[yoff + 1].line ELSE yoff IN
     cur' = Pos(Min({top, Max({0, LastLine(raw)})}), 0)
  /\ UNCHANGED <<docVars, lookVars, sel, drag, paused, filter, cmdVars>>
  /\ NoYank
  /\ Render /\ KeepOffset

ClearTransient == pend' = "none" /\ op' = FALSE /\ count' = 0 /\ find' = NoSeek
Pending == pend # "none" \/ op \/ count > 0

\* Esc Esc with nothing pending and nothing selected.
LeaveCopy ==
  /\ Stay
  /\ inCopy /\ ~Pending /\ ~HasSel(sel)
  /\ inCopy' = FALSE
  /\ ClearTransient /\ lastFind' = NoSeek
  /\ sel' = NoSel
  /\ UNCHANGED <<docVars, lookVars, cur, drag, sticky, paused, filter>>
  /\ NoYank
  /\ Render /\ KeepOffset

ClearPending ==
  /\ Stay
  /\ inCopy /\ Pending
  /\ ClearTransient
  /\ UNCHANGED <<docVars, paintVars, yoff, sticky, paused, lookVars, inCopy, cur, sel, drag,
                 findVars, lastFind>>
  /\ NoYank

DropSelection ==
  /\ sel' = NoSel
  /\ UNCHANGED <<docVars, lookVars, inCopy, cur, drag, sticky, paused, findVars, cmdVars>>
  /\ clip' = {}
  /\ Paint /\ KeepOffset

ClearSelection == /\ Stay /\ inCopy /\ ~Pending /\ HasSel(sel)
                  /\ DropSelection
                  /\ UNCHANGED copying

\* CopiedMsg comes when the clipboard has been written, or CopyFailedMsg: only
\* the first drops the selection, whichever there is by then.
Copied ==
  /\ Stay
  /\ copying /\ copying' = FALSE
  /\ \/ HasSel(sel) /\ DropSelection
     \/ /\ clip' = {}
        /\ UNCHANGED <<docVars, paintVars, yoff, sticky, paused, lookVars, inCopy, cur, sel, drag,
                       findVars, cmdVars>>

TogglePaused ==
  /\ Turn
  /\ inCopy
  /\ paused' = ~paused
  /\ UNCHANGED <<docVars, paintVars, yoff, sticky, lookVars, inCopy, cur, sel, drag, findVars, cmdVars>>
  /\ NoYank

-----------------------------------------------------------------------------
(* Copy mode: keys *)

EffectiveCount == Max({1, count})

Go(p) == [to |-> p, linewise |-> FALSE, inclusive |-> FALSE]
GoOnto(p) == [to |-> p, linewise |-> FALSE, inclusive |-> TRUE]
GoLines(p) == [to |-> p, linewise |-> TRUE, inclusive |-> FALSE]
Down(n) == GoLines(OnLine(Pos(Max({0, Min({LastLine(raw), cur.line + n})}), cur.col)))
ToBlank(n) == LET l == Max({0, Min({LastLine(raw), cur.line + n})}) IN GoLines(Pos(l, FirstNonBlank(raw, l)))
Half == Max({1, VpHeight(size) \div 2})

MotionKeys == {"h", "l", "j", "k", "0", "^", "$", "+", "-", "G", "w", "b", "e",
             "ctrl+u", "ctrl+d", "ctrl+b", "ctrl+f", "H", "M", "L"}

\* resolveMotion: H, M and L take the window's row for a line, and H does not
\* look whether there is such a line.
Target(k, n) ==
  CASE k = "h" -> Go(Pos(cur.line, Max({0, cur.col - n})))
    [] k = "l" -> Go(OnLine(Pos(cur.line, cur.col + n)))
    [] k = "j" -> Down(n)
    [] k = "k" -> Down(-n)
    [] k = "0" -> Go(Pos(cur.line, 0))
    [] k = "^" -> Go(Pos(cur.line, FirstNonBlank(raw, cur.line)))
    [] k = "$" -> GoOnto(Pos(cur.line, Width(raw, cur.line)))
    [] k = "+" -> ToBlank(n)
    [] k = "-" -> ToBlank(-n)
    [] k = "G" -> GoLines(Pos(LastLine(raw), 0))
    [] k \in {"w", "b"} -> Go(Steps(k, raw, cur, FALSE, n))
    [] k = "e" -> GoOnto(Steps("e", raw, cur, FALSE, n))
    [] k = "ctrl+u" -> Down(-(Half * n))
    [] k = "ctrl+d" -> Down(Half * n)
    [] k = "ctrl+b" -> Down(-(VpHeight(size) * n))
    [] k = "ctrl+f" -> Down(VpHeight(size) * n)
    [] k = "H" -> GoLines(OnLine(Pos(yoff, cur.col)))
    [] k = "M" -> GoLines(OnLine(Pos(Min({LastLine(raw), yoff + VpHeight(size) \div 2}), cur.col)))
    [] k = "L" -> GoLines(OnLine(Pos(Min({LastLine(raw), yoff + VpHeight(size) - 1}), cur.col)))

\* extractRange, from the cursor, or from the start of a text object.
Extract(from, t) ==
  LET ends == Ordered(from, t.to) IN
  IF t.linewise THEN Lines(raw, ends[1].line, ends[2].line)
  ELSE Slice(raw, ends[1], Pos(ends[2].line, ends[2].col + (IF t.inclusive THEN 1 ELSE 0)))

Yank(cells) == clip' = cells /\ copying' = (copying \/ cells # {})

\* applyRange: the operator takes the range; without one the cursor goes to its
\* end and into the window.
ApplyRange(from, t) ==
  /\ ClearTransient
  /\ UNCHANGED <<docVars, lookVars, inCopy, sel, drag, sticky, paused, findVars>>
  /\ \/ /\ op
        /\ Yank(Extract(from, t))
        /\ UNCHANGED <<paintVars, yoff, cur>>
     \/ /\ ~op
        /\ cur' = OnLine(t.to)
        /\ NoYank
        /\ Paint
        /\ yoff' = CursorOffset(rows', cur'.line, Within(yoff, rows', size))

\* Only the command being typed changes.
Still == UNCHANGED <<docVars, paintVars, yoff, sticky, paused, lookVars, inCopy, cur, sel, drag, findVars>>
Drop == ClearTransient /\ Still /\ NoYank
Await(p) == pend' = p /\ Still /\ NoYank

\* HandleCopyKey: a selection key, else the rest of a started command, else a
\* digit, else a command.
Visual(k) == k \in {"v", "V", "Y"} \/ (k = "y" /\ HasSel(sel))
Digits == [d \in {"2", "3"} |-> IF d = "2" THEN 2 ELSE 3]
Typed == Stay /\ inCopy /\ raw # <<>>

\* handleVisual.
VisualKey(k) ==
  /\ Typed /\ Visual(k)
  /\ \/ /\ k \in {"v", "V"}
        /\ LET mode == IF k = "v" THEN "char" ELSE "line" IN
           sel' = IF sel.mode = mode THEN NoSel ELSE [mode |-> mode, anchor |-> cur]
        /\ UNCHANGED <<docVars, lookVars, inCopy, cur, drag, sticky, paused, findVars, cmdVars>>
        /\ NoYank
        /\ Paint /\ KeepOffset
     \/ /\ k = "y" /\ HasSel(sel)
        /\ sel' = NoSel
        /\ clip' = YankText(raw, sel, cur) /\ copying' = TRUE
        /\ crashed' = YankPanics
        /\ UNCHANGED <<docVars, rows, shown, paintedAt, yoff, sticky, paused, lookVars, inCopy, cur, drag,
                       findVars, cmdVars>>
     \/ /\ k = "Y"
        /\ ClearTransient
        /\ Yank(Lines(raw, cur.line, cur.line + EffectiveCount - 1))
        /\ Still /\ UNCHANGED lastFind

FindKey(ch, seek, from) ==
  LET c == FindCol(raw, from, ch, seek.forward, seek.till, EffectiveCount) IN
  IF c = NoFind THEN Drop
  ELSE ApplyRange(from, IF seek.forward THEN GoOnto(Pos(from.line, c)) ELSE Go(Pos(from.line, c)))

\* rangeTextObject: an empty object is none.
ObjectKey(k, around) ==
  LET o == CASE k = "w" -> WordObject(raw, cur, FALSE, around)
             [] k = "(" -> BracketObject(raw, cur, around)
             [] k = "'" -> QuoteObject(raw, cur, k, around)
             [] OTHER -> NoSpan IN
  /\ UNCHANGED lastFind
  /\ IF o.start >= o.end THEN Drop
     ELSE ApplyRange(Pos(cur.line, o.start), Go(Pos(cur.line, o.end)))

\* handlePendG, handlePendFind, handlePendTextObject.
PendingKey(k) ==
  /\ Typed /\ ~Visual(k)
  /\ \/ /\ pend = "g"
        /\ UNCHANGED lastFind
        /\ CASE k = "g" -> ApplyRange(cur, Go(Home))
             [] k = "e" -> ApplyRange(cur, GoOnto(Steps("ge", raw, cur, FALSE, EffectiveCount)))
             [] OTHER -> Drop
     \/ /\ pend = "find"
        /\ lastFind' = Seek(k, find.forward, find.till)
        /\ FindKey(k, find, cur)
     \/ pend = "i" /\ ObjectKey(k, FALSE)
     \/ pend = "a" /\ ObjectKey(k, TRUE)

CountKey(k) == /\ Typed /\ ~Visual(k) /\ pend = "none" /\ k \in DOMAIN Digits
               /\ count' = count * 10 + Digits[k]
               /\ count' <= MaxCount
               /\ Still /\ NoYank /\ UNCHANGED <<pend, op, find, lastFind>>

Seeks == [k \in {"f", "F", "t", "T"} |-> Seek("", k \in {"f", "t"}, k \in {"t", "T"})]

\* dispatchKey: yy takes whole lines; ; and , repeat the last find.
DispatchKey(k) ==
  /\ Typed /\ ~Visual(k) /\ pend = "none" /\ k \notin DOMAIN Digits
  /\ \/ /\ k = "y" /\ op
        /\ UNCHANGED lastFind
        /\ ApplyRange(Pos(cur.line, 0), GoLines(Pos(Min({LastLine(raw), cur.line + EffectiveCount - 1}), 0)))
     \/ k = "y" /\ ~op /\ op' = TRUE /\ Still /\ NoYank /\ UNCHANGED <<pend, count, find, lastFind>>
     \/ k \in {"i", "a"} /\ op /\ Await(k) /\ UNCHANGED <<op, count, find, lastFind>>
     \/ k = "g" /\ Await("g") /\ UNCHANGED <<op, count, find, lastFind>>
     \/ k \in DOMAIN Seeks /\ find' = Seeks[k] /\ Await("find") /\ UNCHANGED <<op, count, lastFind>>
     \/ /\ k = ";"
        /\ UNCHANGED lastFind
        /\ IF lastFind = NoSeek THEN Drop ELSE FindKey(lastFind.ch, lastFind, cur)
     \/ k \in MotionKeys /\ UNCHANGED lastFind /\ ApplyRange(cur, Target(k, EffectiveCount))
     \/ k \in {"i", "a", "("} /\ ~op /\ Drop /\ UNCHANGED lastFind

-----------------------------------------------------------------------------
(* The mouse *)

Nowhere == [line |-> -1, col |-> 0]

\* Mutant: the columns of earlier pieces of the line are not added.
ColForRenderedRowFirst(row, x) == Max({0, Min({x, Width(raw, rows[row + 1].line) - 1})})

\* colForRenderedRow: the pieces before this one are as wide as the pane is now.
ColForRenderedRow(row, x) ==
  LET line == rows[row + 1].line
      before == {k \in 1 .. row : \A j \in k .. row : rows[j].line = line}
      piece == IF wrap THEN Cardinality(before) ELSE 0 IN
  Max({0, Min({piece * ContentWidth(size, inCopy, gutter) + x, Width(raw, line) - 1})})

\* absToContent: the scrollbar is looked for a gutter's width from where it is.
InPane(x, y) == /\ x \in 1 .. size.w - 2 /\ y \in 1 .. size.h - 2
                /\ x - 1 < VpWidth(size, inCopy, gutter) + GutterWidth(inCopy, gutter)
ContentX(x) == Max({0, x - 1 - GutterWidth(inCopy, gutter)})

MouseToCursor(x, y) ==
  LET row == yoff + y - 1 IN
  IF ~InPane(x, y) \/ raw = <<>> THEN Nowhere
  ELSE IF row >= Len(rows) THEN Pos(LastLine(raw), 0)
  ELSE IF rows[row + 1].line > LastLine(raw) THEN Nowhere
  ELSE Pos(rows[row + 1].line, ColForRenderedRow(row, ContentX(x)))

\* clampToPane: the first or the last row in sight, or an end of the row at y.
LastCol(l) == Max({0, Width(raw, l) - 1})
ClampToPane(x, y) ==
  LET row == CASE y < 1 -> Min({yoff, Len(rows) - 1})
               [] y >= size.h - 1 -> Min({yoff + VpHeight(size) - 1, Len(rows) - 1})
               [] OTHER -> yoff + y - 1
      line == rows[row + 1].line IN
  IF raw = <<>> \/ row < 0 \/ row >= Len(rows) THEN drag.at
  ELSE IF y < 1 THEN Pos(line, 0)
  ELSE IF line > LastLine(raw) THEN drag.at
  ELSE Pos(line, IF y >= size.h - 1 \/ x >= size.w - 1 THEN LastCol(line) ELSE 0)

MousePress(x, y) ==
  /\ Stay
  /\ MouseToCursor(x, y) # Nowhere
  /\ cur' = MouseToCursor(x, y)
  /\ sel' = [mode |-> "char", anchor |-> cur']
  /\ drag' = [pressed |-> TRUE, at |-> cur']
  /\ sticky' = FALSE
  /\ UNCHANGED <<docVars, lookVars, inCopy, paused, findVars, cmdVars>>
  /\ NoYank
  /\ Paint /\ KeepOffset

\* Mutant: what the drag selects is not painted.
MouseMotionUnpainted(x, y) ==
  /\ Stay
  /\ drag.pressed
  /\ cur' = IF MouseToCursor(x, y) = Nowhere THEN ClampToPane(x, y) ELSE MouseToCursor(x, y)
  /\ UNCHANGED <<docVars, paintVars, yoff, lookVars, inCopy, sel, drag, sticky, paused, findVars, cmdVars>>
  /\ NoYank

MouseMotion(x, y) ==
  /\ Stay
  /\ drag.pressed
  /\ cur' = IF MouseToCursor(x, y) = Nowhere THEN ClampToPane(x, y) ELSE MouseToCursor(x, y)
  /\ UNCHANGED <<docVars, lookVars, inCopy, sel, drag, sticky, paused, findVars, cmdVars>>
  /\ NoYank
  /\ Paint /\ KeepOffset

\* A click without a drag only clears; a drag copies.  Where it began is not
\* read again.
MouseRelease ==
  /\ Stay
  /\ drag.pressed
  /\ drag' = NoDrag
  /\ sel' = NoSel
  /\ UNCHANGED <<docVars, lookVars, inCopy, cur, sticky, paused, findVars, cmdVars>>
  /\ IF cur = drag.at THEN NoYank ELSE Yank(YankText(raw, sel, cur))
  /\ IF cur # drag.at /\ YankPanics
     THEN crashed' = TRUE /\ UNCHANGED <<rows, shown, paintedAt, yoff>>
     ELSE Paint /\ KeepOffset

-----------------------------------------------------------------------------
Next ==
  \/ \E lines \in Logs : SetLines(lines)
  \/ SetJSONPretty \/ SetGutter \/ SetWrap \/ TogglePaused
  \/ \E s \in Sizes : SetSize(s)
  \/ \E ch \in Filters : SetFilter(ch)
  \/ ScrollBack \/ ScrollOn \/ ScrollEnd \/ Wheel \/ JumpMatch
  \/ EnterCopy \/ LeaveCopy \/ ClearPending \/ ClearSelection \/ Copied
  \/ \E k \in Keys : VisualKey(k) \/ PendingKey(k) \/ CountKey(k) \/ DispatchKey(k)
  \/ \E c \in Clicks : MousePress(c[1], c[2]) \/ MouseMotion(c[1], c[2])
  \/ MouseRelease

Spec == Init /\ [][Next]_vars
=============================================================================
