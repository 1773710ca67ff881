------------------------- MODULE LogEntryProperties -------------------------
(***************************************************************************)
(* What a project's log keeps, in memory and on disk.                      *)
(***************************************************************************)
EXTENDS LogEntry

\* The ring's fields and the goroutine's place keep to their kinds.
TypeOK ==
  /\ RingTypeOK
  /\ pos \in 0 .. Len(stream) /\ Len(part) <= MaxLineSize
  /\ next \in base + 1 .. base + Len(out) + 1
  /\ pc = "read" => next = base + Len(out) + 1
  /\ file \in {"open", "none", "dead"} /\ shift \in 0 .. Backups - 1 /\ unseen \in BOOLEAN

\* A line that was split for its length ends with a whole code point.
CodePointsWhole ==
  \A i \in DOMAIN out : out[i].partial /\ i < Len(out) => out[i + 1].bytes = <<>> \/ ~Continues(out[i + 1].bytes[1])

\* What was cut into lines is what the whole stream is cut into, wherever the
\* reads ended: in a line, in a code point, after a carriage return (Feed); and a code point is never cut in two.
Whole == Feed(<<>>, SubSeq(stream, 1, pos))
SplitAlike == out = Whole.lines /\ part = Whole.kept
ReadsDoNotMatter == (cut \/ SplitAlike) /\ CodePointsWhole

\* "CRLF collapses to a single line terminator" (linebuffer.go:17), so that where
\* a read ended never shows in the lines.
CrLfEndsLine == SplitAlike

\* The files, oldest backup first, are lines written, in order, whatever crash or
\* failure broke a rotation off (rotateLocked); unless a rotation has not seen a backup,
\* they are the last ones, with none missing in between; undisturbed, there is never less
\* than all backups hold: every line, or all files full but the one just emptied.
Held == UNION {Range(disk[i]) : i \in 0 .. Backups}
InOrder ==
  \A i, j \in 0 .. Backups : \A a \in DOMAIN disk[i], b \in DOMAIN disk[j] :
    i > j \/ (i = j /\ a < b) => disk[i][a] < disk[j][b]
NoneMissing == \A k, m \in DOMAIN saved : k < m /\ saved[k] \in Held => saved[m] \in Held
Plenty ==
  \/ Range(saved) \subseteq Held
  \/ \E gap \in 0 .. Backups : \A i \in 0 .. Backups \ {gap} : Len(disk[i]) >= MaxSize
DiskHasLatest ==
  /\ Held \subseteq Range(saved) /\ (\A k, m \in DOMAIN saved : k < m => saved[k] < saved[m])
  /\ InOrder /\ (NoneMissing \/ unseen)
  /\ intact => Plenty

\* A child that prints whole code points of at most four bytes, and room for one in a line.
WholePoints(s) ==
  \A i \in 1 .. Len(s) : Continues(s[i]) =>
    \E k \in 1 .. 3 : k < i /\ s[i - k] \notin {CR, LF, "c"} /\ \A j \in 1 .. k - 1 : Continues(s[i - j])
WellFed == MaxLineSize >= 4 /\ \A s \in Streams : WholePoints(s)
=============================================================================
