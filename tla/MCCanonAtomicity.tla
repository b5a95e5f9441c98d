---------------------------- MODULE MCCanonAtomicity ---------------------------
(* CanonAtomicity on two candidates that contradict each other. *)
EXTENDS CanonAtomicity, TLC

CONSTANTS c1, c2, v1, v2, lin, knows

MCStoryTime == {1}

\* Two candidates on the same subject and predicate, with different values.
MCText ==
  [c \in Candidate |->
     [subject |-> lin, mentions |-> {lin}, predicate |-> knows,
      value |-> IF c = c1 THEN v1 ELSE v2, time |-> 1]]
=============================================================================
