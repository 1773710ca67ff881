------------------------------ MODULE MCServer ------------------------------
(***************************************************************************)
(* The server with one or two projects of two states and two connections.  *)
(***************************************************************************)
EXTENDS ServerProperties, TLC

CONSTANTS p1, p2
=============================================================================
