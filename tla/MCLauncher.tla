----------------------------- MODULE MCLauncher -----------------------------
(* Instances of Launcher for TLC: init and up to three more tasks. *)
EXTENDS Launcher

CONSTANTS init, t1, t2, t3
=============================================================================
