-------------------------- MODULE MCTreadmillFB303 --------------------------
(***************************************************************************)
(* Instances of TreadmillFB303 for TLC.                                    *)
(***************************************************************************)
EXTENDS TreadmillFB303
=============================================================================
