----------------------------- MODULE MCScheduler -----------------------------
(* Scheduler for TLC: the Task structures of user tasks are interchangeable.  *)
EXTENDS Scheduler, TLC

Symmetry == Permutations(Users)
=============================================================================
