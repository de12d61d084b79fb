---------------------------- MODULE MCScheduler ----------------------------
(***************************************************************************)
(* Small instances of Scheduler for TLC.                                   *)
(***************************************************************************)
EXTENDS Scheduler

\* A cfg file cannot write -1.
MCRepeats == {kForever, 1, 2}
=============================================================================
