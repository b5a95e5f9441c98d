----------------------------- MODULE MCJobQueue -----------------------------
(* JobQueue on one scene. *)
EXTENDS JobQueue, TLC

MCSymmetry == Permutations(Worker)
=============================================================================
