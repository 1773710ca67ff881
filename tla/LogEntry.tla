------------------------------ MODULE LogEntry ------------------------------
(***************************************************************************)
(* What becomes of a child's output (Registry.WriteRaw): its bytes are cut *)
(* into lines by the LineBuffer, each line is pushed to the ring and then  *)
(* written to a file that is rotated by size (internal/log).  The daemon   *)
(* may be killed between any two steps, a rotation's renames included, and *)
(* the file system may refuse any of them.  Lines are numbered in the      *)
(* order they are cut; what a file holds and its size are counted in lines *)
(* that were written to it, whole or in part.                              *)
(***************************************************************************)
EXTENDS RingBuffer, Functions

CONSTANTS
  Streams,      \* what a child may print: sequences of bytes
  MaxLineSize,  \* LineBuffer.MaxLineSize
  MaxSize,      \* Rotator.maxBytes
  Backups,      \* Rotator.maxBackups
  Faults,       \* TRUE: calls to the file system may fail
  MaxLives      \* bound: runs of the daemon
ASSUME EntryAssumption ==
  /\ \A s \in Streams : s \in Seq(Range(s)) /\ 1 .. MaxLives * Len(s) \subseteq Values
  /\ MaxLineSize \in Nat \ {0} /\ MaxSize \in Nat \ {0} /\ Backups \in Nat \ {0}
  /\ Faults \in BOOLEAN /\ MaxLives \in Nat \ {0}

VARIABLES
  stream, pos,   \* what the child prints, and how much of it was read
  cut,           \* whether a read ended between a carriage return and its newline
  part,          \* LineBuffer.buf
  out,           \* the lines cut in this life, with those WriteRaw has yet to store
  base, next,    \* the number of lines cut in earlier lives; the line to store next
  pc,            \* where the goroutine is
  file,          \* Rotator.f: open, "none", or a handle that cannot be written to
  disk,          \* the files: 0 the current one, i its i-th backup
  shift,         \* i of rotateLocked's loop
  saved,         \* every line that was written to a file
  intact,        \* whether no step of a rotation has failed and nothing crashed
  unseen,        \* whether a rotation has not seen a backup that was there
  life
feed == <<stream, pos, cut, part, out, base>>
store == <<file, disk, shift, saved, intact, unseen>>
vars == <<ring, feed, store, next, pc, life>>

CR == "\r"
LF == "\n"
Continues(b) == b = "c"   \* a byte within a code point
-----------------------------------------------------------------------------
(* The line buffer; indices start from 1.                                  *)

\* safeSplitOffset: back over at most three continuation bytes, but not to floor.
SafeSplit(c, cap, floor) ==
  LET back == {k \in 0 .. 3 : k <= cap - floor /\ \A j \in 0 .. k - 1 : Continues(c[cap - j])}
      off == cap - CHOOSE k \in back : \A j \in back : j <= k
  IN IF off = floor THEN cap ELSE off

Cut(c, s, end, from, partial) ==
  [start |-> from, lines |-> Append(s.lines, [bytes |-> SubSeq(c, s.start, end), partial |-> partial])]

FeedByteUnsplit(c, s, i) ==
  CASE c[i] = CR -> IF i < Len(c) /\ c[i + 1] = LF THEN Cut(c, s, i - 1, i + 2, FALSE)
                                                  ELSE [s EXCEPT !.start = i + 1]
    [] c[i] = LF -> IF i > 1 /\ c[i - 1] = CR THEN s ELSE Cut(c, s, i - 1, i + 1, FALSE)
    [] OTHER -> s
\* One byte of Feed's loop, c what was kept with the new chunk behind it.
FeedByte(c, s, i) ==
  CASE c[i] = CR -> IF i < Len(c) /\ c[i + 1] = LF THEN Cut(c, s, i - 1, i + 2, FALSE)
                                                  ELSE [s EXCEPT !.start = i + 1]
    [] c[i] = LF -> IF i > 1 /\ c[i - 1] = CR THEN s ELSE Cut(c, s, i - 1, i + 1, FALSE)
    [] OTHER -> IF i - s.start < MaxLineSize THEN s
                ELSE LET at == SafeSplit(c, s.start + MaxLineSize, s.start) IN Cut(c, s, at - 1, at, TRUE)

\* Feed: its loop, after each byte; the lines completed, and what is kept.
Loop(c) ==
  LET s[i \in 0 .. Len(c)] == IF i = 0 THEN [start |-> 1, lines |-> <<>>] ELSE FeedByte(c, s[i - 1], i)
  IN s
FeedAll(c) ==
  LET s == Loop(c)[Len(c)] IN [lines |-> s.lines, kept |-> SubSeq(c, s.start, Len(c))]
FeedChunkOnly(kept, chunk) == FeedAll(chunk)
Feed(kept, chunk) == FeedAll(kept \o chunk)
-----------------------------------------------------------------------------
Opened == {"open"} \cup (IF Faults THEN {"dead"} ELSE {})
Init ==
  /\ RingInit
  /\ stream \in Streams /\ pos = 0 /\ cut = FALSE /\ part = <<>> /\ out = <<>>
  /\ base = 0 /\ next = 1 /\ pc = "read" /\ life = 1
  /\ file \in Opened /\ disk = [i \in 0 .. Backups |-> <<>>] /\ shift = 0 /\ saved = <<>>
  /\ intact = TRUE /\ unseen = FALSE

\* A read of the terminal returns some of what the child printed.
Read ==
  /\ pc = "read"
  /\ \E n \in 1 .. Len(stream) - pos :
       LET fed == Feed(part, SubSeq(stream, pos + 1, pos + n)) IN
       /\ pos' = pos + n
       /\ cut' = (cut \/ (stream[pos + n] = CR /\ pos + n < Len(stream) /\ stream[pos + n + 1] = LF))
       /\ part' = fed.kept /\ out' = out \o fed.lines
       /\ pc' = IF fed.lines = <<>> THEN "read" ELSE "push"
  /\ UNCHANGED <<stream, base, ring, store, next, life>>

PushLine == pc = "push" /\ Push(next) /\ pc' = "write" /\ UNCHANGED <<feed, store, next, life>>

NextLine ==
  /\ next' = next + 1
  /\ pc' = IF next + 1 > base + Len(out) THEN "read" ELSE "push"
GoOn(p) == pc' = p /\ UNCHANGED next

\* Rotator.Write, which opens the file when a rotation left it closed.
WriteLine ==
  /\ pc = "write" /\ file # "dead"
  /\ file' = "open"
  /\ disk' = [disk EXCEPT ![0] = Append(@, next)] /\ saved' = Append(saved, next)
  /\ IF Len(disk'[0]) >= MaxSize THEN GoOn("close") ELSE NextLine
  /\ UNCHANGED <<ring, feed, shift, intact, unseen, life>>
\* The error comes after a part of the line is written, and before the size is looked at.
WriteTorn ==
  /\ pc = "write" /\ Faults /\ file # "dead"
  /\ file' = "open"
  /\ disk' = [disk EXCEPT ![0] = Append(@, next)] /\ saved' = Append(saved, next)
  /\ NextLine
  /\ UNCHANGED <<ring, feed, shift, intact, unseen, life>>
\* Nothing is written; a file that a rotation left closed may have been opened.
WriteFails ==
  /\ pc = "write" /\ (Faults \/ file = "dead") /\ NextLine
  /\ file' = file \/ (file = "none" /\ file' = "open")
  /\ UNCHANGED <<ring, feed, disk, shift, saved, intact, unseen, life>>

(* rotateLocked.                                                           *)
Close ==
  /\ pc = "close" /\ file' = "none" /\ GoOn("drop")
  /\ UNCHANGED <<ring, feed, disk, shift, saved, intact, unseen, life>>
CloseFails ==
  /\ pc = "close" /\ Faults /\ file' = "dead" /\ intact' = FALSE /\ NextLine
  /\ UNCHANGED <<ring, feed, disk, shift, saved, unseen, life>>
Rename(from, to) == IF disk[from] = <<>> THEN disk ELSE [disk EXCEPT ![to] = disk[from], ![from] = <<>>]
DropUnshifted ==
  /\ pc = "drop" /\ disk' = [disk EXCEPT ![Backups] = <<>>]
  /\ shift' = Backups - 1 /\ GoOn("main")
  /\ UNCHANGED <<ring, feed, file, intact, saved, unseen, life>>
Drop ==
  /\ pc = "drop" /\ disk' = [disk EXCEPT ![Backups] = <<>>]
  /\ shift' = Backups - 1 /\ GoOn(IF Backups > 1 THEN "shift" ELSE "main")
  /\ UNCHANGED <<ring, feed, file, saved, intact, unseen, life>>
Shift ==
  /\ pc = "shift" /\ disk' = Rename(shift, shift + 1)
  /\ shift' = shift - 1 /\ GoOn(IF shift > 1 THEN "shift" ELSE "main")
  /\ UNCHANGED <<ring, feed, file, saved, intact, unseen, life>>
MoveMain ==
  /\ pc = "main" /\ disk' = Rename(0, 1) /\ GoOn("open")
  /\ UNCHANGED <<ring, feed, file, shift, saved, intact, unseen, life>>
Reopen ==
  /\ pc = "open" /\ file' = "open" /\ NextLine
  /\ UNCHANGED <<ring, feed, disk, shift, saved, intact, unseen, life>>
\* os.Stat fails on a file that is there: it is passed over, and the next rename
\* overwrites it; the current file stays and is written to further.
PassOver ==
  /\ Faults /\ intact' = FALSE
  /\ \/ /\ pc = "drop" /\ disk[Backups] # <<>> /\ unseen' = TRUE
        /\ shift' = Backups - 1 /\ GoOn(IF Backups > 1 THEN "shift" ELSE "main")
     \/ /\ pc = "shift" /\ disk[shift] # <<>> /\ unseen' = TRUE
        /\ shift' = shift - 1 /\ GoOn(IF shift > 1 THEN "shift" ELSE "main")
     \/ pc = "main" /\ GoOn("open") /\ UNCHANGED <<shift, unseen>>
  /\ UNCHANGED <<ring, feed, file, disk, saved, life>>
\* A step of the rotation fails: the next Write opens the current file again.
RotationFails ==
  /\ pc \in {"drop", "shift", "main", "open"} /\ Faults /\ intact' = FALSE /\ NextLine
  /\ UNCHANGED <<ring, feed, file, disk, shift, saved, unseen, life>>

\* ClearBuffer, from the user interface of a single process.
ClearRing == Clear /\ UNCHANGED <<feed, store, next, pc, life>>

\* The daemon is killed and started again: what was in memory is gone.
Crash ==
  /\ life < MaxLives /\ life' = life + 1
  /\ buf' = [i \in Slots |-> Zero] /\ head' = 0 /\ count' = 0 /\ todo' = <<>>
  /\ stream' \in Streams /\ pos' = 0 /\ cut' = FALSE /\ part' = <<>> /\ out' = <<>>
  /\ base' = base + Len(out) /\ next' = base + Len(out) + 1 /\ pc' = "read"
  /\ file' \in Opened /\ shift' = 0 /\ intact' = FALSE
  /\ UNCHANGED <<disk, saved, unseen>>

Rotate == Close \/ CloseFails \/ Drop \/ Shift \/ MoveMain \/ Reopen \/ PassOver \/ RotationFails
Next == Read \/ PushLine \/ WriteLine \/ WriteTorn \/ WriteFails \/ Rotate \/ ClearRing \/ Crash
Spec == Init /\ [][Next]_vars
=============================================================================
