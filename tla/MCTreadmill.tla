---------------------------- MODULE MCTreadmill ----------------------------
(***************************************************************************)
(* Instances of Treadmill for TLC.                                         *)
(***************************************************************************)
EXTENDS Treadmill
=============================================================================
