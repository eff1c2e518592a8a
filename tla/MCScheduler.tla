---------------------------- MODULE MCScheduler ----------------------------
(* Instances of Scheduler small enough for TLC. *)
EXTENDS Scheduler
=============================================================================
