------------------------------ MODULE MCLaunch ------------------------------
(***************************************************************************)
(* Launch with one or two users.                                           *)
(***************************************************************************)
EXTENDS LaunchProperties, TLC

CONSTANTS u1, u2

UserSymmetry == Permutations(Users)
=============================================================================
