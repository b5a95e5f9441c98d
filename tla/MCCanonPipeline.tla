--------------------------- MODULE MCCanonPipeline ---------------------------
(* CanonPipeline on two candidates that contradict each other, or without any. *)
EXTENDS CanonPipeline, TLC

CONSTANTS c1, c2, v1, v2, lin, knows

MCStoryTime == {1, 2}

\* Two candidates on the same subject and predicate, with different values.
MCText ==
  [c \in Candidate |->
     [subject |-> lin, mentions |-> {lin}, predicate |-> knows,
      value |-> IF c = c1 THEN v1 ELSE v2, time |-> 1]]

MCSymmetry ==
  Permutations(FactId) \cup Permutations(EntityId) \cup Permutations(RunId)

\* What the ledger does with a second story time is explored without candidates.
LaterTimeAlone ==
  cands = EmptyTable
    \/ /\ \A f \in DOMAIN facts : facts[f].time = 1
       /\ \A s \in DOMAIN snapshots : snapshots[s].as_of # 2
=============================================================================
