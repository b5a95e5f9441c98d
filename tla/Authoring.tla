----------------------------- MODULE Authoring -----------------------------
(***************************************************************************)
(* The documents the editor writes before a scene is generated: the Story  *)
(* Spec (story/service.py), the outline (outline/service.py), the style    *)
(* guides and samples (style/service.py), and the style validation of a    *)
(* scene draft (style_validation/service.py).                              *)
(*                                                                         *)
(* All but the Spec are rows of one table here: a revision has a kind, a   *)
(* lineage and a status, and coming into force it retires the one before.  *)
(* A text is abstracted to whether it is written in full.  One draft of    *)
(* one scene is validated; a validation waits for the model, so others act *)
(* between its trigger and its end, while every other request is one step. *)
(*                                                                         *)
(* An operator named X_Y is a mutant of X that the properties catch.       *)
(***************************************************************************)
EXTENDS Naturals, Sequences, FiniteSetsExt

CONSTANTS
  MaxRevs,      \* bound of the model: revisions of all kinds together
  MaxVersions,  \* bound of the model: versions of the Story Spec
  MaxChecks     \* bound of the model: style validations

ASSUME AuthoringAssumption == {MaxRevs, MaxVersions, MaxChecks} \subseteq Nat

VARIABLES
  spec,     \* the versions of the project's Story Spec, the current one last
  revs,     \* the revisions of outline, guides and samples, oldest first
  styled,   \* the guide and the samples the draft is associated with
  checks    \* the style validations of the draft, oldest first

docVars == <<spec, revs, styled, checks>>

-----------------------------------------------------------------------------
(* Rows *)

Text == {"part", "full"}

SpecStatus == {"Draft", "Written", "Effective"}

OutlineStatus == {"Drafting", "Proposed", "Confirmed", "Revising", "Failed",
                  "Cancelled", "Rework", "Superseded"}
GuideStatus == {"Draft", "Approved", "Superseded", "Failed", "Cancelled"}
SampleStatus == {"Draft", "Authorized", "Superseded", "Failed", "Cancelled"}

Revision ==
  UNION {[kind: {"outline"}, status: OutlineStatus],
         [kind: {"guide"}, status: GuideStatus],
         [kind: {"sample"}, status: SampleStatus]}

InForce == {"Confirmed", "Approved", "Authorized"}
OutlineInFlight == {"Drafting", "Proposed", "Revising", "Rework"}
OutlineEditable == {"Drafting", "Revising"}

NoDoc == 0
NewRev(kind, lineage, status, text) ==
  [kind |-> kind, status |-> status, lineage |-> lineage, text |-> text, by |-> NoDoc]

CheckStatus == {"Running", "Succeeded", "Failed", "Cancelled"}

AuthoringTypeOK ==
  /\ spec \in Seq([status: SpecStatus, text: Text])
  /\ Len(spec) <= MaxVersions
  /\ Len(revs) <= MaxRevs
  /\ \A r \in DOMAIN revs :
       /\ [kind |-> revs[r].kind, status |-> revs[r].status] \in Revision
       /\ revs[r].text \in Text
       /\ revs[r].lineage \in 1 .. r
       /\ revs[r].by \in {NoDoc} \cup DOMAIN revs
  /\ styled.guide \in {NoDoc} \cup {r \in DOMAIN revs : revs[r].kind = "guide"}
  /\ styled.samples \subseteq {r \in DOMAIN revs : revs[r].kind = "sample"}
  /\ checks \in Seq([guide: {NoDoc} \cup DOMAIN revs, samples: SUBSET DOMAIN revs,
                     status: CheckStatus, busy: BOOLEAN])
  /\ Len(checks) <= MaxChecks

AuthoringInit ==
  /\ spec = <<>>
  /\ revs = <<>>
  /\ styled = [guide |-> NoDoc, samples |-> {}]
  /\ checks = <<>>

-----------------------------------------------------------------------------
(* Story Spec *)

Current == spec[Len(spec)]

CreateSpecDraft(text) ==
  /\ spec = <<>>
  /\ MaxVersions > 0
  /\ spec' = <<[status |-> "Draft", text |-> text]>>

\* The version is replaced by the edited one, under the same number.
PatchSpec(text) ==
  /\ spec # <<>>
  /\ Current.status = "Draft"
  /\ spec' = [spec EXCEPT ![Len(spec)].text = text]

SubmitSpec ==
  /\ spec # <<>>
  /\ Current.status = "Draft"
  /\ spec' = [spec EXCEPT ![Len(spec)].status = "Written"]

ApproveSpec ==
  /\ spec # <<>>
  /\ Current.status = "Written"
  /\ spec' = [spec EXCEPT ![Len(spec)].status = "Effective"]

CreateNextDraft(text) ==
  /\ spec # <<>>
  /\ Current.status = "Effective"
  /\ Len(spec) < MaxVersions
  /\ spec' = Append(spec, [status |-> "Draft", text |-> text])

StorySpec ==
  /\ \/ \E text \in Text : CreateSpecDraft(text) \/ PatchSpec(text) \/ CreateNextDraft(text)
     \/ SubmitSpec
     \/ ApproveSpec
  /\ UNCHANGED <<revs, styled, checks>>

-----------------------------------------------------------------------------
(* What revisions have in common *)

Of(kind) == {r \in DOMAIN revs : revs[r].kind = kind}
Lineage(r) == {q \in DOMAIN revs : revs[q].lineage = revs[r].lineage}

Add(rev) == Len(revs) < MaxRevs /\ revs' = Append(revs, rev)
SetStatus(r, status) == revs' = [revs EXCEPT ![r].status = status]

\* As if the revision replaced were never saved.
Enact_OldKept(r, status) == SetStatus(r, status)

\* r comes into force; what was in force in its lineage is linked to it.
Enact(r, status) ==
  LET previous == {q \in Lineage(r) \ {r} : revs[q].status = status}
  IN revs' = [q \in DOMAIN revs |->
       IF q = r THEN [revs[q] EXCEPT !.status = status]
       ELSE IF q \in previous THEN [revs[q] EXCEPT !.status = "Superseded", !.by = r]
       ELSE revs[q]]

-----------------------------------------------------------------------------
(* Outline.  fails: saving fails. *)

\* A project has one outline: every revision is of the first one's lineage.
CreateOutline(text, fails) ==
  /\ \A r \in Of("outline") : revs[r].status \notin OutlineInFlight \cup {"Confirmed"}
  /\ Add(NewRev("outline", Min({Len(revs) + 1} \cup Of("outline")),
                IF fails THEN "Failed" ELSE "Drafting", text))

PatchOutline_Confirmed(r, text, fails) ==
  /\ revs[r].status \in OutlineEditable \cup {"Confirmed"}
  /\ IF fails THEN SetStatus(r, "Failed") ELSE revs' = [revs EXCEPT ![r].text = text]

PatchOutline(r, text, fails) ==
  /\ revs[r].status \in OutlineEditable
  /\ IF fails THEN SetStatus(r, "Failed") ELSE revs' = [revs EXCEPT ![r].text = text]

Propose(r) ==
  /\ revs[r].status \in OutlineEditable
  /\ revs[r].text = "full"
  /\ SetStatus(r, "Proposed")

Confirm(r) ==
  /\ revs[r].status = "Proposed"
  /\ revs[r].text = "full"
  /\ Enact(r, "Confirmed")

\* text: the new nodes, or those of the source copied.
ReviseOutline(r, text) ==
  /\ revs[r].status = "Confirmed"
  /\ \A q \in Lineage(r) : revs[q].status \notin OutlineInFlight
  /\ Add(NewRev("outline", revs[r].lineage, "Revising", text))

CancelOutline(r) ==
  /\ revs[r].status \in OutlineInFlight \cup {"Failed"}
  /\ SetStatus(r, "Cancelled")

FailOutline(r) ==
  /\ revs[r].status \in OutlineEditable
  /\ SetStatus(r, "Failed")

\* Nobody looks whether another revision has been started in the meantime.
Rework(r) ==
  /\ revs[r].status \in {"Proposed", "Failed", "Cancelled"}
  /\ SetStatus(r, "Rework")

Resume(r) ==
  /\ revs[r].status = "Rework"
  /\ SetStatus(r, IF \E q \in Lineage(r) \ {r} : revs[q].status = "Confirmed"
                    THEN "Revising" ELSE "Drafting")

Outline ==
  /\ \/ \E text \in Text, fails \in BOOLEAN : CreateOutline(text, fails)
     \/ \E r \in Of("outline") :
          \/ \E text \in Text, fails \in BOOLEAN : PatchOutline(r, text, fails)
          \/ \E text \in Text : ReviseOutline(r, text)
          \/ Propose(r) \/ Confirm(r) \/ CancelOutline(r)
          \/ FailOutline(r) \/ Rework(r) \/ Resume(r)
  /\ UNCHANGED <<spec, styled, checks>>

-----------------------------------------------------------------------------
(* Style guides and samples *)

\* Every one created starts a lineage of its own.
CreateStyle(kind, text, fails) ==
  Add(NewRev(kind, Len(revs) + 1, IF fails THEN "Failed" ELSE "Draft", text))

PatchStyle(r, text, fails) ==
  /\ revs[r].status = "Draft"
  /\ IF fails THEN SetStatus(r, "Failed") ELSE revs' = [revs EXCEPT ![r].text = text]

EnactStyle(r, status) ==
  /\ revs[r].status = "Draft"
  /\ revs[r].text = "full"
  /\ Enact(r, status)

ReviseStyle(r, status, text) ==
  /\ revs[r].status = status
  /\ \A q \in Lineage(r) : revs[q].status # "Draft"
  /\ Add(NewRev(revs[r].kind, revs[r].lineage, "Draft", text))

CancelStyle(r) == revs[r].status \in {"Draft", "Failed"} /\ SetStatus(r, "Cancelled")

FailStyle(r) == revs[r].status = "Draft" /\ SetStatus(r, "Failed")

CreateGuide(text, fails) == CreateStyle("guide", text, fails)
PatchGuide(r, text, fails) == PatchStyle(r, text, fails)
ApproveGuide(r) == EnactStyle(r, "Approved")
ReviseGuide(r, text) == ReviseStyle(r, "Approved", text)
CancelGuide(r) == CancelStyle(r)
FailGuide(r) == FailStyle(r)

CreateSample(text, fails) == CreateStyle("sample", text, fails)
PatchSample(r, text, fails) == PatchStyle(r, text, fails)
AuthorizeSample(r) == EnactStyle(r, "Authorized")
ReviseSample(r, text) == ReviseStyle(r, "Authorized", text)
CancelSample(r) == CancelStyle(r)
FailSample(r) == FailStyle(r)

Guides ==
  /\ \/ \E text \in Text, fails \in BOOLEAN :
          CreateGuide(text, fails) \/ \E r \in Of("guide") : PatchGuide(r, text, fails)
     \/ \E r \in Of("guide") :
          \/ \E text \in Text : ReviseGuide(r, text)
          \/ ApproveGuide(r) \/ CancelGuide(r) \/ FailGuide(r)
  /\ UNCHANGED <<spec, styled, checks>>

Samples ==
  /\ \/ \E text \in Text, fails \in BOOLEAN :
          CreateSample(text, fails) \/ \E r \in Of("sample") : PatchSample(r, text, fails)
     \/ \E r \in Of("sample") :
          \/ \E text \in Text : ReviseSample(r, text)
          \/ AuthorizeSample(r) \/ CancelSample(r) \/ FailSample(r)
  /\ UNCHANGED <<spec, styled, checks>>

-----------------------------------------------------------------------------
(* Style of a draft *)

UsableGuide(g) == revs[g].status = "Approved"
UsableSample(s) == revs[s].status = "Authorized"

AssociateOnDraft(g, S) ==
  /\ g # NoDoc => UsableGuide(g)
  /\ \A s \in S : UsableSample(s)
  /\ styled' = [guide |-> g, samples |-> S]
  /\ UNCHANGED <<spec, revs, checks>>

ApprovedGuides == {g \in Of("guide") : UsableGuide(g)}

\* Guides are listed by their number in the lineage, the highest first, and of
\* one number the oldest first.
RevisionNo(r) == Cardinality({q \in Lineage(r) : q <= r})
Newest(S) == {g \in S : \A h \in S : RevisionNo(h) <= RevisionNo(g)}
FirstApproved == Min(Newest(ApprovedGuides))

\* As if the draft's own guide were taken whatever has become of it.
GuideFor_Kept(g) ==
  CASE g # NoDoc -> g
    [] g = NoDoc /\ styled.guide # NoDoc -> styled.guide
    [] g = NoDoc /\ styled.guide = NoDoc /\ ApprovedGuides # {} -> FirstApproved
    [] OTHER -> NoDoc

\* The guide asked for, the draft's own while it is in force, or the first listed in force.
GuideFor(g) ==
  CASE g # NoDoc -> g
    [] g = NoDoc /\ styled.guide \in ApprovedGuides -> styled.guide
    [] g = NoDoc /\ styled.guide \notin ApprovedGuides /\ ApprovedGuides # {} ->
         FirstApproved
    [] OTHER -> NoDoc

TriggerCheck(g, S) ==
  /\ g # NoDoc => UsableGuide(g)
  /\ \A s \in S : UsableSample(s)
  /\ Len(checks) < MaxChecks
  /\ checks' = Append(checks,
       [guide |-> GuideFor(g), samples |-> S, status |-> "Running", busy |-> TRUE])
  /\ UNCHANGED <<spec, revs, styled>>

\* The thread ends and writes its status, also over Cancelled.
EndCheck(c, status) ==
  /\ checks[c].busy
  /\ checks' = [checks EXCEPT ![c].status = status, ![c].busy = FALSE]
  /\ UNCHANGED <<spec, revs, styled>>

CancelCheck(c) ==
  /\ checks[c].status = "Running"
  /\ checks' = [checks EXCEPT ![c].status = "Cancelled"]
  /\ UNCHANGED <<spec, revs, styled>>

Style ==
  \/ \E g \in {NoDoc} \cup Of("guide"), S \in SUBSET Of("sample") :
       AssociateOnDraft(g, S) \/ TriggerCheck(g, S)
  \/ \E c \in DOMAIN checks :
       \/ \E status \in {"Succeeded", "Failed"} : EndCheck(c, status)
       \/ CancelCheck(c)

-----------------------------------------------------------------------------

AuthoringNext == StorySpec \/ Outline \/ Guides \/ Samples \/ Style

AuthoringSpec == AuthoringInit /\ [][AuthoringNext]_docVars

-----------------------------------------------------------------------------
(* Properties *)

\* A lineage that ever had a revision in force has exactly one, the replaced
\* ones lead to it through their links, and a guide or sample has at most one
\* draft at a time: revisions failed, cancelled, reworked and confirmed out of
\* turn never leave the project without the text in force, or with two.
LineageSound ==
  \A r \in DOMAIN revs :
    LET inForce == {q \in Lineage(r) : revs[q].status \in InForce}
    IN /\ Cardinality(inForce) <= 1
       /\ revs[r].status = "Superseded" =>
            /\ inForce # {}
            /\ revs[r].by \in {q \in Lineage(r) : revs[q].status \in InForce \cup {"Superseded"}}
       /\ revs[r].kind # "outline" =>
            Cardinality({q \in Lineage(r) : revs[q].status = "Draft"}) <= 1

\* What was once in force keeps its text for good, and leaves force only by
\* being replaced: revision of the outline, the style and the Spec is never
\* done in place.
NeverEditedInForce ==
  [][/\ \A r \in DOMAIN revs :
          revs[r].status \in InForce \cup {"Superseded"} =>
            /\ revs'[r].text = revs[r].text
            /\ revs'[r].status \in {revs[r].status, "Superseded"}
     /\ \A v \in DOMAIN spec :
          spec[v].status = "Effective" => spec'[v] = spec[v]]_docVars

\* A draft is judged by a guide in force when the validation is asked for, and
\* goes without one only if the project has none, also when the guide it was
\* associated with has been replaced since.
JudgedByGuideInForce ==
  [][\A c \in DOMAIN checks' \ DOMAIN checks :
       IF checks'[c].guide = NoDoc THEN ApprovedGuides = {}
       ELSE checks'[c].guide \in ApprovedGuides]_docVars

\* The outline in force is the newest ever confirmed: state-machines.md has it
\* replaced when a newer revision is confirmed.  No run checks this, as the code
\* does not keep it: a cancelled revision that is reworked and confirmed later
\* replaces a newer one.
NewestOutlineInForce ==
  \A r, q \in Of("outline") :
    revs[q].status = "Superseded" /\ revs[r].status = "Confirmed" => q < r
=============================================================================
