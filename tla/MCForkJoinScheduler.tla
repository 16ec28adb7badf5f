-------------------------- MODULE MCForkJoinScheduler --------------------------
(* Model values for ForkJoinScheduler. *)
EXTENDS ForkJoinScheduler

CONSTANTS w1, w2, f1, f2, x1

MCWorkers == {w1, w2}
MCFrames == {f1, f2}
MCOutsiders == {x1}
=============================================================================
