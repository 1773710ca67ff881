------------------------------ MODULE MCChild ------------------------------
(***************************************************************************)
(* Child on small instances.  The callers are interchangeable: they differ *)
(* only in the call they are making.                                       *)
(***************************************************************************)
EXTENDS ChildProperties, TLC

CONSTANTS c1, c2

OneCaller == {c1}
TwoCallers == {c1, c2}
CallerSymmetry == Permutations(Callers)
=============================================================================
