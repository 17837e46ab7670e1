------------------------ MODULE MCMemcachedWorkload ------------------------
(***************************************************************************)
(* Instances of MemcachedWorkload for TLC.                                 *)
(***************************************************************************)
EXTENDS MemcachedWorkload
=============================================================================
