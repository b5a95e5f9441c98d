----------------------------- MODULE MCSceneDag -----------------------------
(* SceneDag with a few candidates. *)
EXTENDS SceneDag, TLC

\* Candidate ids are uuid4 values.
MCSymmetry == Permutations(Candidate) \cup Permutations(Worker)
=============================================================================
