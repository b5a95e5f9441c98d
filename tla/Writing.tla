------------------------------ MODULE Writing ------------------------------
(***************************************************************************)
(* What a scene is written with: context packs, the jobs that ask a model  *)
(* for a plan, a draft, candidate changes or a summary (scene_plan,        *)
(* scene_draft, candidate_change, summary), the gateway they ask through   *)
(* (llm/gateway.py), and the shuttle, by which the editor pastes what a    *)
(* model outside has answered.                                             *)
(*                                                                         *)
(* A job's request waits for the model, and others act meanwhile; every    *)
(* other request is one step, as is what a job writes when it ends.  The   *)
(* scenes are those of one chapter whose cards may be generated, and the   *)
(* project has a written Spec and a frozen snapshot: SceneCards, Authoring *)
(* and CanonLedger have the rest.  A finished job is kept if it has a key; *)
(* one without is never looked up again.                                   *)
(*                                                                         *)
(* An operator named X_Y is a mutant of X that the properties catch.       *)
(***************************************************************************)
EXTENDS Naturals, SequencesExt

CONSTANTS
  Scene,
  Chapter,
  Key,          \* idempotency keys in use
  MaxRetries,   \* RetryPolicy.max_retries
  MaxJobs,      \* bounds of the model: jobs kept,
  MaxDrafts,    \* drafts,
  MaxBatches,   \* extractions of one draft,
  MaxSummaries, \* summaries of scenes,
  MaxChapters,  \* summaries of the chapter,
  MaxPacks      \* and context packs

ASSUME WritingAssumption ==
  /\ {MaxRetries, MaxJobs, MaxDrafts, MaxBatches} \subseteq Nat
  /\ {MaxSummaries, MaxChapters, MaxPacks} \subseteq Nat
  /\ Chapter \notin Scene

VARIABLES
  planned,    \* the scenes that have a plan
  packs,      \* context packs, oldest first
  requests,   \* generation jobs, oldest first
  drafts,     \* scene drafts, oldest first
  summaries,  \* scene summaries, oldest first
  digests     \* chapter summaries, oldest first

writingVars == <<planned, packs, requests, drafts, summaries, digests>>

-----------------------------------------------------------------------------
(* Records *)

Kind == {"plan", "draft", "extract", "summary", "digest"}
CanRepair == {"plan", "extract"}

JobState == {"Running", "Repair", "Succeeded", "Failed", "Cancelled"}

\* As if only a job that has ended could stand for its key.
ReusableStates_Ended == {"Succeeded"}

ReusableStates == {"Running", "Succeeded"}

NoKey == "none"

\* from: what the job reads, which is a pack (unless it is one of those built in),
\* a draft, or the summaries of the scenes.
\* attempt: of the call that its thread waits for, 0 when the thread is gone.
\* stopped: the editor has cancelled it (its transitions tell).
Request ==
  [kind: Kind, scene: Scene \cup {Chapter}, from: SUBSET Nat, key: Key \cup {NoKey},
   state: JobState, stopped: BOOLEAN, repaired: BOOLEAN, attempt: 0 .. MaxRetries + 1]

DraftStatus == {"Generated", "Extracted", "Superseded"}
PackStatus == {"Assembled", "Frozen", "Failed", "Cancelled"}
SummaryStatus == {"Generated", "Superseded"}

Live == {"Generated", "Extracted"}

FrozenPacks == {p \in DOMAIN packs : packs[p].status = "Frozen"}

WritingTypeOK ==
  /\ planned \subseteq Scene
  /\ packs \in Seq([scene: Scene, status: PackStatus, draft: {0} \cup DOMAIN drafts])
  /\ requests \in Seq(Request)
  /\ \A j \in DOMAIN requests :
       requests[j].from \subseteq CASE requests[j].kind = "draft" -> FrozenPacks
                                   [] requests[j].kind = "digest" -> DOMAIN summaries
                                   [] OTHER -> DOMAIN drafts
  /\ drafts \in Seq([scene: Scene, pack: SUBSET FrozenPacks,
                     status: DraftStatus, batches: 0 .. MaxBatches])
  /\ summaries \in Seq([scene: Scene, status: SummaryStatus, draft: DOMAIN drafts])
  /\ digests \in Seq([of: SUBSET DOMAIN summaries, status: SummaryStatus])

WritingInit ==
  /\ planned = {}
  /\ packs = <<>>
  /\ requests = <<>>
  /\ drafts = <<>>
  /\ summaries = <<>>
  /\ digests = <<>>

-----------------------------------------------------------------------------
(* Context packs *)

DraftsOf(s) == {d \in DOMAIN drafts : drafts[d].scene = s}
LiveDrafts(s) == {d \in DraftsOf(s) : drafts[d].status \in Live}

Newest(S) == IF S = {} THEN 0 ELSE Max(S)

\* fails: the schema refuses the pack, which is kept as failed and empty.
Assemble(s, fails) ==
  /\ Len(packs) < MaxPacks
  /\ packs' = Append(packs,
       IF fails THEN [scene |-> s, status |-> "Failed", draft |-> 0]
       ELSE [scene |-> s, status |-> "Assembled", draft |-> Newest(LiveDrafts(s))])

Freeze(p) ==
  /\ packs[p].status = "Assembled"
  /\ packs' = [packs EXCEPT ![p].status = "Frozen"]

CancelPack(p) ==
  /\ packs[p].status = "Assembled"
  /\ packs' = [packs EXCEPT ![p].status = "Cancelled"]

Packs ==
  /\ \/ \E s \in Scene, fails \in BOOLEAN : Assemble(s, fails)
     \/ \E p \in DOMAIN packs : Freeze(p) \/ CancelPack(p)
  /\ UNCHANGED <<planned, requests, drafts, summaries, digests>>

-----------------------------------------------------------------------------
(* Jobs *)

SameKey(kind, s, from, key) ==
  {j \in DOMAIN requests :
     /\ key # NoKey
     /\ <<requests[j].kind, requests[j].scene, requests[j].key>> = <<kind, s, key>>
     /\ kind = "extract" => requests[j].from = from}

\* The newest job of the key, unless it has failed, was cancelled or is being
\* repaired, is returned instead of a new one.
Reused(kind, s, from, key) ==
  LET same == SameKey(kind, s, from, key)
  IN same # {} /\ requests[Max(same)].state \in ReusableStates

NewRequest(kind, s, from, key, state) ==
  [kind |-> kind, scene |-> s, from |-> from, key |-> key, state |-> state,
   stopped |-> FALSE, repaired |-> FALSE, attempt |-> IF state = "Running" THEN 1 ELSE 0]

\* The job is queued and calls the model at once.
Trigger(kind, s, from, key) ==
  /\ ~Reused(kind, s, from, key)
  /\ Len(requests) < MaxJobs
  /\ requests' = Append(requests, NewRequest(kind, s, from, key, "Running"))
  /\ UNCHANGED <<planned, packs, drafts, summaries, digests>>

CurrentSummary(s) ==
  Newest({n \in DOMAIN summaries : summaries[n].scene = s /\ summaries[n].status = "Generated"})

\* As if whatever summary a scene has ever had would do.
Sources_AnyEver ==
  {n \in DOMAIN summaries : \A m \in DOMAIN summaries :
     summaries[m].scene = summaries[n].scene => n <= m}

Sources == {CurrentSummary(s) : s \in Scene}

TriggerPlan(s) == Trigger("plan", s, {}, NoKey)

HasPlan(s) == s \in planned

\* P: a frozen pack, of whichever scene, or none for one built in.
TriggerDraft(s, P, key) ==
  /\ HasPlan(s)
  /\ P \subseteq FrozenPacks
  /\ Trigger("draft", s, P, key)

Extractable == {d \in DOMAIN drafts : drafts[d].status \in Live}

TriggerExtract(d, key) ==
  d \in Extractable /\ Trigger("extract", drafts[d].scene, {d}, key)

\* A draft that has been replaced may be summarised, and becomes the scene's summary.
Summarizable == {d \in DOMAIN drafts : drafts[d].status \in Live \cup {"Superseded"}}

TriggerSummary(d, key) ==
  d \in Summarizable /\ Trigger("summary", drafts[d].scene, {d}, key)

TriggerDigest(key) == 0 \notin Sources /\ Trigger("digest", Chapter, Sources, key)

\* Plan jobs have no cancel, nor has a job under repair.
CancelJob(j) ==
  /\ requests[j].kind # "plan"
  /\ requests[j].state = "Running"
  /\ requests' = [requests EXCEPT ![j].state = "Cancelled", ![j].stopped = TRUE]
  /\ UNCHANGED <<planned, packs, drafts, summaries, digests>>

-----------------------------------------------------------------------------
(* The model's answer *)

\* The provider times out or fails in passing, with tries left.
CallAgain(j) ==
  /\ requests[j].attempt \in 1 .. MaxRetries
  /\ requests' = [requests EXCEPT ![j].attempt = @ + 1]

\* The thread ends; what the job's state was by then is not looked at.
Settle(j, state) ==
  requests' = IF requests[j].key = NoKey THEN RemoveAt(requests, j)
              ELSE [requests EXCEPT ![j].state = state, ![j].attempt = 0]

\* No usable answer, for good or with no tries left: structured answers are asked
\* for once more in another form.
Unusable(j) ==
  /\ requests[j].attempt > 0
  /\ IF requests[j].kind \in CanRepair /\ ~requests[j].repaired
       THEN requests' = [requests EXCEPT ![j].state = "Repair", ![j].repaired = TRUE,
                                         ![j].attempt = 1]
       ELSE Settle(j, "Failed")

\* An exception that is none of the gateway's: nobody settles the job any more.
Dies(j) ==
  /\ requests[j].attempt > 0
  /\ requests' = [requests EXCEPT ![j].attempt = 0]

\* As if the oldest were found first.
AddDraft_Oldest(s, P, retired) ==
  LET old == {d \in DraftsOf(s) : drafts[d].status \in retired}
  IN /\ Len(drafts) < MaxDrafts
     /\ drafts' = Append([d \in DOMAIN drafts |->
                            IF old # {} /\ d = Min(old)
                              THEN [drafts[d] EXCEPT !.status = "Superseded"] ELSE drafts[d]],
                         [scene |-> s, pack |-> P, status |-> "Generated", batches |-> 0])

AddDraft(s, P, retired) ==
  LET old == {d \in DraftsOf(s) : drafts[d].status \in retired}
  IN /\ Len(drafts) < MaxDrafts
     /\ drafts' = Append([d \in DOMAIN drafts |->
                            IF d = Newest(old)
                              THEN [drafts[d] EXCEPT !.status = "Superseded"] ELSE drafts[d]],
                         [scene |-> s, pack |-> P, status |-> "Generated", batches |-> 0])

\* As if the draft were still what it was when the extraction began.
AddBatch_Always(d) ==
  /\ drafts[d].batches < MaxBatches
  /\ drafts' = [drafts EXCEPT ![d].batches = @ + 1, ![d].status = "Extracted"]

AddBatch(d) ==
  /\ drafts[d].batches < MaxBatches
  /\ drafts' = [drafts EXCEPT ![d].batches = @ + 1,
                              ![d].status = IF @ = "Generated" THEN "Extracted" ELSE @]

AddSummary(d) ==
  LET s == drafts[d].scene
  IN /\ Len(summaries) < MaxSummaries
     /\ summaries' = Append([n \in DOMAIN summaries |->
                               IF n = CurrentSummary(s)
                                 THEN [summaries[n] EXCEPT !.status = "Superseded"]
                                 ELSE summaries[n]],
                            [scene |-> s, status |-> "Generated", draft |-> d])

AddDigest(S) ==
  /\ Len(digests) < MaxChapters
  /\ digests' = Append([n \in DOMAIN digests |-> [digests[n] EXCEPT !.status = "Superseded"]],
                       [of |-> S, status |-> "Generated"])

DraftOf(j) == CHOOSE d \in requests[j].from : TRUE

SucceedPlan(j) ==
  /\ requests[j].kind = "plan"
  /\ planned' = planned \cup {requests[j].scene}
  /\ UNCHANGED <<packs, drafts, summaries, digests>>

SucceedDraft(j) ==
  /\ requests[j].kind = "draft"
  /\ AddDraft(requests[j].scene, requests[j].from, {"Generated"})
  /\ UNCHANGED <<planned, packs, summaries, digests>>

SucceedExtract(j) ==
  /\ requests[j].kind = "extract"
  /\ AddBatch(DraftOf(j))
  /\ UNCHANGED <<planned, packs, summaries, digests>>

SucceedSummary(j) ==
  /\ requests[j].kind = "summary"
  /\ AddSummary(DraftOf(j))
  /\ UNCHANGED <<planned, packs, drafts, digests>>

SucceedDigest(j) ==
  /\ requests[j].kind = "digest"
  /\ AddDigest(requests[j].from)
  /\ UNCHANGED <<planned, packs, drafts, summaries>>

Succeed(j) ==
  /\ requests[j].attempt > 0
  /\ Settle(j, "Succeeded")
  /\ \/ SucceedPlan(j) \/ SucceedDraft(j) \/ SucceedExtract(j)
     \/ SucceedSummary(j) \/ SucceedDigest(j)

AnyKey == Key \cup {NoKey}

PlanRequests == \E s \in Scene : TriggerPlan(s)

DraftRequests ==
  \E s \in Scene, P \in {{}} \cup {{p} : p \in DOMAIN packs}, key \in AnyKey :
    TriggerDraft(s, P, key)

ExtractRequests == \E d \in DOMAIN drafts, key \in AnyKey : TriggerExtract(d, key)

SummaryRequests ==
  \E key \in AnyKey : TriggerDigest(key) \/ \E d \in DOMAIN drafts : TriggerSummary(d, key)

\* What befalls the jobs there are.
Running ==
  \E j \in DOMAIN requests :
    \/ CancelJob(j)
    \/ Succeed(j)
    \/ /\ CallAgain(j) \/ Unusable(j) \/ Dies(j)
       /\ UNCHANGED <<planned, packs, drafts, summaries, digests>>

-----------------------------------------------------------------------------
(* Shuttle: the editor pastes an answer, recorded as a job that succeeded. *)

Record(kind, s, from, key) ==
  /\ ~Reused(kind, s, from, key)
  /\ \/ /\ key = NoKey
        /\ UNCHANGED requests
     \/ /\ key # NoKey
        /\ Len(requests) < MaxJobs
        /\ requests' = Append(requests, NewRequest(kind, s, from, key, "Succeeded"))

\* A pasted draft replaces the newest live one, also one already extracted.
ImportDraft(s, key) ==
  /\ Record("draft", s, {}, key)
  /\ AddDraft(s, {}, Live)
  /\ UNCHANGED <<planned, packs, summaries, digests>>

\* Any draft will do, whatever its status.  The items the candidates get in the
\* review queue are Enqueue of ReviewRepair.
ImportExtract(d, key) ==
  /\ Record("extract", drafts[d].scene, {d}, key)
  /\ AddBatch(d)
  /\ UNCHANGED <<planned, packs, summaries, digests>>

ImportSummary(d, key) ==
  /\ d \in Summarizable
  /\ Record("summary", drafts[d].scene, {d}, key)
  /\ AddSummary(d)
  /\ UNCHANGED <<planned, packs, drafts, digests>>

\* The summaries cited must be the current ones.
ImportDigest(key) ==
  /\ 0 \notin Sources
  /\ Record("digest", Chapter, Sources, key)
  /\ AddDigest(Sources)
  /\ UNCHANGED <<planned, packs, drafts, summaries>>

Shuttle ==
  \E key \in AnyKey :
    \/ \E s \in Scene : ImportDraft(s, key)
    \/ \E d \in DOMAIN drafts : ImportExtract(d, key) \/ ImportSummary(d, key)
    \/ ImportDigest(key)

-----------------------------------------------------------------------------

WritingNext ==
  \/ Packs
  \/ PlanRequests \/ DraftRequests \/ ExtractRequests \/ SummaryRequests
  \/ Running
  \/ Shuttle

WritingSpec == WritingInit /\ [][WritingNext]_writingVars

-----------------------------------------------------------------------------
(* Properties *)

\* Whoever writes last, model or editor, and however jobs overlap: the newest
\* draft of a scene is a live one and no older draft awaits extraction beside
\* it, a draft counts as extracted once candidates were taken from it, and the
\* newest summary is the only current one.
OneCurrentEach ==
  /\ \A s \in Scene : DraftsOf(s) # {} => Max(DraftsOf(s)) \in LiveDrafts(s)
  /\ \A d \in DOMAIN drafts :
       /\ drafts[d].status = "Generated" =>
            d = Max(DraftsOf(drafts[d].scene)) /\ drafts[d].batches = 0
       /\ drafts[d].status = "Extracted" => drafts[d].batches > 0
  /\ \A n \in DOMAIN summaries :
       summaries[n].status = "Generated" <=>
         ~\E m \in DOMAIN summaries : m > n /\ summaries[m].scene = summaries[n].scene
  /\ \A n \in DOMAIN digests : digests[n].status = "Generated" <=> n = Len(digests)

\* A draft replaced while a model reads it stays replaced: an answer that comes
\* late adds its candidates and nothing brings the draft back.
SupersededForGood ==
  [][\A d \in DOMAIN drafts :
       /\ drafts[d].status = "Superseded" => drafts'[d].status = "Superseded"
       /\ drafts[d].status = "Extracted" => drafts'[d].status # "Generated"]_writingVars

\* One key yields one result, however often it is sent, by the editor or to a
\* model: only a job that the editor cancelled, or asked for again while its
\* answer was being repaired, lets a second one in.
KeyPaysOnce ==
  \A j, k \in DOMAIN requests :
    /\ j < k
    /\ k \in SameKey(requests[j].kind, requests[j].scene, requests[j].from, requests[j].key)
    /\ {requests[j].state, requests[k].state} = {"Succeeded"}
    => requests[j].stopped \/ requests[j].repaired

\* A chapter is summarised from what was current at one moment: it has a summary
\* of every scene, and none had been replaced when another was written.
SourcesOfOneMoment ==
  \A c \in DOMAIN digests :
    /\ {summaries[n].scene : n \in digests[c].of} = Scene
    /\ \A n, m \in digests[c].of, newer \in DOMAIN summaries :
         n < newer /\ summaries[newer].scene = summaries[n].scene => m < newer

\* A cancelled job is done with for good.
CancelIsFinal ==
  [][\A j \in DOMAIN requests :
       requests[j].state = "Cancelled" /\ Len(requests') = Len(requests) =>
         requests'[j].state = "Cancelled"]_writingVars
=============================================================================
