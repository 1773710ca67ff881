------------------------------ MODULE MCManager -----------------------------
(***************************************************************************)
(* Two projects; a configuration with both, one without b and with another *)
(* definition of a.                                                        *)
(***************************************************************************)
EXTENDS ManagerProperties, TLC

CONSTANTS a, b, g1, g2

Both == [projects |-> [p \in {a, b} |-> 1], group |-> <<a, b>>]
Edited == [projects |-> [p \in {a} |-> 2], group |-> <<a>>]
FileConfigs == {Both, Edited}
CmdSymmetry == Permutations(Cmds)
=============================================================================
