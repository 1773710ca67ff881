------------------------------- MODULE LogTail -------------------------------
(***************************************************************************)
(* What a project's log ring promises: the last Cap lines pushed since it  *)
(* was last cleared, oldest first.                                         *)
(***************************************************************************)
EXTENDS Naturals, Sequences

CONSTANTS Cap, Values, Batches
VARIABLE tail

\* The last n members of s, or all of it.
LastOf(s, n) == IF Len(s) <= n THEN s ELSE SubSeq(s, Len(s) - n + 1, Len(s))

TailInit == tail = <<>>
Add(v) == tail' = LastOf(Append(tail, v), Cap)
Replace(vs) == Len(vs) >= Cap /\ tail' = LastOf(vs, Cap)
Empty == tail' = <<>>

TailNext == (\E v \in Values : Add(v)) \/ (\E vs \in Batches : Replace(vs)) \/ Empty
TailSpec == TailInit /\ [][TailNext]_tail
=============================================================================
