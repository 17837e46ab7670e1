----------------------------- MODULE MCScheduler -----------------------------
(***************************************************************************)
(* Instances of Scheduler for TLC.  Callers, phases and NoData are model   *)
(* values; the configurations choose how many.                             *)
(***************************************************************************)
EXTENDS Scheduler
=============================================================================
