-------------------------- MODULE MCReviewRepair ---------------------------
(* ReviewRepair with three candidates. *)
EXTENDS ReviewRepair

CandidateSymmetry == Permutations(Candidate)

\* Two tasks, two items, or one of each.
TwoAtWork == Len(tasks) + Len(items) <= 2
=============================================================================
