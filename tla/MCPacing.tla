------------------------------ MODULE MCPacing ------------------------------
(***************************************************************************)
(* Instances of Pacing for TLC.                                            *)
(***************************************************************************)
EXTENDS Pacing
=============================================================================
