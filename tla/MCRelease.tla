----------------------------- MODULE MCRelease -----------------------------
(* Release with two chapters of one scene each. *)
EXTENDS Release

CONSTANTS s1, s2, c1, c2

OneSceneEach == (s1 :> c1) @@ (s2 :> c2)

BookSymmetry == {[x \in {s1, s2, c1, c2} |-> x],
                 (s1 :> s2) @@ (s2 :> s1) @@ (c1 :> c2) @@ (c2 :> c1)}

\* The gates do not look at one another, and a cancellation looks at none of what
\* they read: a second draft, a second summary, the candidates, foreshadowing and
\* cancellations are explored one with one of each of the others.  Candidates are
\* explored once the safety check is on record and the drafts are styled.
Troubles ==
  <<Len(drafts) > 1, Len(digests) > 1, cands # <<>>, dues # <<>>,
    \E k \in DOMAIN checks : checks[k].cancels > 0 \/ checks[k].status = "cancelled">>

OneTrouble ==
  /\ Cardinality({i \in DOMAIN Troubles : Troubles[i]}) <= 1
  /\ cands # <<>> => safety /\ \A d \in DOMAIN drafts : drafts[d].styled
=============================================================================
