----------------------------- MODULE MCWriting -----------------------------
(* Writing with two scenes: three drafts of one, or a chapter of both. *)
EXTENDS Writing

SceneSymmetry == Permutations(Scene)

KindsAtWork == {requests[j].kind : j \in DOMAIN requests}

\* Plans and packs share nothing with each other or with what comes after the
\* first draft: they are made one at a time and before it.
PlansFirst ==
  /\ "plan" \in KindsAtWork =>
       KindsAtWork = {"plan"} /\ Len(requests) = 1 /\ packs = <<>> /\ drafts = <<>>
  /\ packs # <<>> =>
       Len(drafts) <= 1 /\ Cardinality(planned) = 1 /\ KindsAtWork \subseteq {"draft"}

\* Summaries only read drafts: either three drafts of one scene are explored, or
\* summaries, of up to two drafts that were pasted.
DraftsOrSummaries ==
  \/ /\ summaries = <<>>
     /\ Cardinality({drafts[d].scene : d \in DOMAIN drafts} \cup planned) <= 1
     /\ "summary" \notin KindsAtWork
     /\ \A d, e \in DOMAIN drafts : d # e => drafts[d].batches + drafts[e].batches <= 2
     /\ Len(drafts) = 3 => \A d \in DOMAIN drafts : drafts[d].batches <= 1
  \/ /\ KindsAtWork \subseteq {"summary", "digest"}
     /\ Len(drafts) <= 2
     /\ packs = <<>> /\ planned = {}
     /\ \A d \in DOMAIN drafts : drafts[d].batches = 0
=============================================================================
