----------------------------- MODULE MCScheduler -----------------------------
(* Instances of Scheduler for TLC: init, idle, one deamon and further tasks. *)
EXTENDS Scheduler

CONSTANTS d1, u1, u2

MCDeamons == <<d1>>
MCSymmetry == Permutations({u1, u2})
=============================================================================
