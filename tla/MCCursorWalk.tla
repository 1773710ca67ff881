---------------------------- MODULE MCCursorWalk ----------------------------
(* Two lines of up to three characters, and one of up to five brackets. *)
EXTENDS CursorWalk

AllLines == BoundedSeq({"a", ".", " "}, 3)
MCBuffers == {<<l, m>> : l \in AllLines, m \in AllLines}
             \cup {<<l>> : l \in BoundedSeq({"(", ")", "a"}, 5)}
=============================================================================
