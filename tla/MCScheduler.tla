---------------------------- MODULE MCScheduler ----------------------------
(***************************************************************************)
(* Instances of Scheduler: the clients are model values, no definitions    *)
(* are needed.                                                             *)
(***************************************************************************)
EXTENDS Scheduler
=============================================================================
