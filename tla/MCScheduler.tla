---------------------------- MODULE MCScheduler ----------------------------
(* Instances of Scheduler for TLC.  MinCapacity is scaled down from the Vec's *)
(* 4, so that a spawn that fits and one that moves the Vec under the running  *)
(* task both need few tasks.                                                  *)
EXTENDS Scheduler

CONSTANT null
============================================================================
