----------------------------- MODULE ReleaseProofs -----------------------------
(***************************************************************************)
(* What a release check promises of any number of drafts, candidates,      *)
(* repairs, checks and exports.  What the gates read is moved while they   *)
(* read it and after; the promise rests on what never goes back (Onward):  *)
(* an approved draft stays approved, a candidate does not fail a second    *)
(* time, a repair that is over stays over, a manifest stays as it is.      *)
(***************************************************************************)
EXTENDS Release, SequenceTheorems, TLAPS

-----------------------------------------------------------------------------
(* The inductive invariant *)

\* What failed its validation had a violation that blocks.
FailedBlocks ==
  \A i \in DOMAIN cands : cands[i].status = "FailedValidation" => cands[i].blocking

\* A check that has its outcome has nothing left to do, also if a cancellation was
\* written over it.
HasOutcome(check) == check.status \in {"passed", "failed"} \/ check.manifest # NoManifest

OutcomeIsLast ==
  \A k \in DOMAIN checks : HasOutcome(checks[k]) => checks[k].step = "nothing"

\* What a check has listed of drafts is one of each of its scenes at most.
OneDraftEach(k) ==
  \A d \in checks[k].drafts :
    /\ drafts[d].scene \in checks[k].scenes
    /\ \A e \in checks[k].drafts : drafts[e].scene = drafts[d].scene => e = d

\* What a check that has passed says of its drafts and of the last reports.
PassedStands(k) ==
  checks[k].manifest # NoManifest =>
    /\ checks[k].manifest.drafts = checks[k].drafts
    /\ checks[k].drafts # {}
    /\ \A d \in checks[k].drafts : drafts[d].approved /\ drafts[d].styled
    /\ \A i \in LatestReports(k) : cands[i].status = "FailedValidation" =>
         \E t \in DOMAIN repairs : repairs[t].report = i /\ repairs[t].state = "RecheckPassed"

ExportStands(e) ==
  /\ checks[exports[e].check].manifest # NoManifest
  /\ exports[e].drafts = checks[exports[e].check].manifest.drafts

ReleaseInv ==
  /\ ReleaseTypeOK
  /\ FailedBlocks
  /\ OutcomeIsLast
  /\ \A k \in DOMAIN checks : OneDraftEach(k) /\ PassedStands(k)
  /\ \A e \in DOMAIN exports : ExportStands(e)

-----------------------------------------------------------------------------
(* Lists of rows *)

LEMMA RowOf ==
  ASSUME NEW T, NEW rows \in Seq(T), NEW i \in DOMAIN rows
  PROVE  rows[i] \in T
  BY LenProperties, ElementOfSeq

LEMMA RowsAreSeq ==
  ASSUME NEW T, NEW n \in Nat, NEW rows \in [1 .. n -> T]
  PROVE  rows \in Seq(T) /\ Len(rows) = n
<1>1. rows \in Seq(T)
  BY SeqDef
<1> QED BY <1>1, LenProperties

LEMMA AppendRow ==
  ASSUME NEW T, NEW rows \in Seq(T), NEW row \in T
  PROVE  /\ Append(rows, row) \in Seq(T)
         /\ Len(Append(rows, row)) = Len(rows) + 1
         /\ DOMAIN Append(rows, row) = DOMAIN rows \cup {Len(rows) + 1}
         /\ Len(rows) + 1 \notin DOMAIN rows
         /\ Append(rows, row)[Len(rows) + 1] = row
         /\ \A i \in DOMAIN rows : Append(rows, row)[i] = rows[i]
<1>1. Len(rows) \in Nat /\ DOMAIN rows = 1 .. Len(rows)
  BY LenProperties
<1>2. /\ Append(rows, row) \in Seq(T)
      /\ Len(Append(rows, row)) = Len(rows) + 1
      /\ Append(rows, row)[Len(rows) + 1] = row
      /\ \A i \in 1 .. Len(rows) : Append(rows, row)[i] = rows[i]
  BY AppendProperties
<1>3. DOMAIN Append(rows, row) = 1 .. Len(rows) + 1
  BY <1>2, LenProperties
<1> QED BY <1>1, <1>2, <1>3

LEMMA SetRow ==
  ASSUME NEW T, NEW rows \in Seq(T), NEW i \in DOMAIN rows, NEW row \in T
  PROVE  /\ [rows EXCEPT ![i] = row] \in Seq(T)
         /\ Len([rows EXCEPT ![i] = row]) = Len(rows)
         /\ DOMAIN [rows EXCEPT ![i] = row] = DOMAIN rows
         /\ [rows EXCEPT ![i] = row][i] = row
         /\ \A j \in DOMAIN rows : j # i => [rows EXCEPT ![i] = row][j] = rows[j]
<1>1. DOMAIN rows = 1 .. Len(rows)
  BY LenProperties
<1> QED BY <1>1, ExceptSeq

-----------------------------------------------------------------------------
(* What never goes back *)

DraftRow == [scene: Scene, live: BOOLEAN, approved: BOOLEAN, styled: BOOLEAN]
CandRow == [scene: Scene, blocking: BOOLEAN, status: CandStatus]
DigestRow == [chapter: Chapter, live: BOOLEAN]

DraftsOnward ==
  /\ drafts' \in Seq(DraftRow)
  /\ DOMAIN drafts \subseteq DOMAIN drafts'
  /\ \A d \in DOMAIN drafts :
       /\ drafts'[d].scene = drafts[d].scene
       /\ drafts[d].approved => drafts'[d].approved
       /\ drafts[d].styled => drafts'[d].styled

CandsOnward ==
  /\ cands' \in Seq(CandRow)
  /\ Len(cands) <= Len(cands')
  /\ \A i \in DOMAIN cands :
       /\ cands'[i].scene = cands[i].scene
       /\ cands'[i].status = "FailedValidation" => cands[i].status = "FailedValidation"
  /\ FailedBlocks'

RepairsOnward ==
  /\ repairs' \in Seq([report: DOMAIN cands', state: RepairState])
  /\ Len(repairs) <= Len(repairs')
  /\ \A t \in DOMAIN repairs :
       /\ repairs'[t].report = repairs[t].report
       /\ repairs[t].state # "Open" => repairs'[t].state = repairs[t].state

Onward == DraftsOnward /\ CandsOnward /\ RepairsOnward /\ digests' \in Seq(DigestRow)

LEMMA SameDrafts ==
  ASSUME ReleaseTypeOK, UNCHANGED drafts
  PROVE  DraftsOnward
  BY DEF ReleaseTypeOK, DraftsOnward, DraftRow

LEMMA SameCands ==
  ASSUME ReleaseTypeOK, FailedBlocks, UNCHANGED cands
  PROVE  CandsOnward
<1>1. Len(cands) \in Nat
  BY LenProperties DEF ReleaseTypeOK
<1> QED BY <1>1 DEF ReleaseTypeOK, CandsOnward, CandRow, FailedBlocks

LEMMA SameRepairs ==
  ASSUME ReleaseTypeOK, CandsOnward, UNCHANGED repairs
  PROVE  RepairsOnward
<1>1. DOMAIN cands \subseteq DOMAIN cands'
  <2>1. /\ DOMAIN cands = 1 .. Len(cands) /\ Len(cands) \in Nat
        /\ DOMAIN cands' = 1 .. Len(cands') /\ Len(cands') \in Nat
    BY LenProperties DEF ReleaseTypeOK, CandsOnward
  <2> QED BY <2>1 DEF CandsOnward
<1>2. repairs' \in Seq([report: DOMAIN cands', state: RepairState])
  <2> DEFINE rows == [report: DOMAIN cands, state: RepairState]
             more == [report: DOMAIN cands', state: RepairState]
  <2>1. rows \subseteq more
    BY <1>1
  <2>2. repairs \in Seq(rows)
    BY DEF ReleaseTypeOK
  <2> HIDE DEF rows, more
  <2>3. repairs \in Seq(more)
    BY <2>1, <2>2, SeqMonotonic
  <2> QED BY <2>3 DEF more
<1>3. Len(repairs) \in Nat
  BY LenProperties DEF ReleaseTypeOK
<1> QED BY <1>2, <1>3 DEF RepairsOnward

LEMMA NewDraftOnward ==
  ASSUME ReleaseTypeOK, NEW s \in Scene, NEW extracted \in BOOLEAN, NewDraft(s, extracted)
  PROVE  DraftsOnward
<1> DEFINE old == [d \in DOMAIN drafts |->
                     [drafts[d] EXCEPT !.live = @ /\ (d \in CurrentDrafts({s}) => extracted)]]
           row == [scene |-> s, live |-> TRUE, approved |-> FALSE, styled |-> FALSE]
<1>1. drafts \in Seq(DraftRow) /\ Len(drafts) \in Nat /\ DOMAIN drafts = 1 .. Len(drafts)
  BY LenProperties DEF ReleaseTypeOK, DraftRow
<1>2. ASSUME NEW d \in DOMAIN drafts
      PROVE  /\ old[d] \in DraftRow
             /\ old[d].scene = drafts[d].scene
             /\ old[d].approved = drafts[d].approved
             /\ old[d].styled = drafts[d].styled
  <2>1. drafts[d] \in DraftRow
    BY <1>1, RowOf
  <2> QED BY <2>1 DEF DraftRow
<1>3. row \in DraftRow
  BY DEF DraftRow
<1>4. drafts' = Append(old, row)
  BY DEF NewDraft
<1>5. DOMAIN old = 1 .. Len(drafts)
  BY <1>1
<1> HIDE DEF old, row
<1>6. old \in Seq(DraftRow) /\ Len(old) = Len(drafts)
  <2>1. old \in [1 .. Len(drafts) -> DraftRow]
    BY <1>1, <1>2, <1>5 DEF old
  <2> QED BY <1>1, <2>1, RowsAreSeq
<1>7. /\ drafts' \in Seq(DraftRow)
      /\ DOMAIN drafts' = DOMAIN old \cup {Len(old) + 1}
      /\ \A d \in DOMAIN old : drafts'[d] = old[d]
  BY <1>3, <1>4, <1>6, AppendRow
<1> QED BY <1>1, <1>2, <1>5, <1>7 DEF DraftsOnward

LEMMA DraftMarked ==
  ASSUME ReleaseTypeOK, NEW d \in DOMAIN drafts, ApproveDraft(d) \/ StyleDraft(d)
  PROVE  DraftsOnward
<1>1. drafts \in Seq(DraftRow)
  BY DEF ReleaseTypeOK, DraftRow
<1>2. drafts[d] \in DraftRow
  BY <1>1, RowOf
<1>3. PICK row \in DraftRow :
        /\ drafts' = [drafts EXCEPT ![d] = row]
        /\ row.scene = drafts[d].scene
        /\ drafts[d].approved => row.approved
        /\ drafts[d].styled => row.styled
  <2>1. CASE ApproveDraft(d)
    <3>1. PICK row \in DraftRow : row = [drafts[d] EXCEPT !.approved = TRUE]
      BY <1>2 DEF DraftRow
    <3>2. drafts' = [drafts EXCEPT ![d] = row]
      BY <1>1, <2>1, <3>1 DEF ApproveDraft
    <3> QED BY <1>2, <3>1, <3>2 DEF DraftRow
  <2>2. CASE StyleDraft(d)
    <3>1. PICK row \in DraftRow : row = [drafts[d] EXCEPT !.styled = TRUE]
      BY <1>2 DEF DraftRow
    <3>2. drafts' = [drafts EXCEPT ![d] = row]
      BY <1>1, <2>2, <3>1 DEF StyleDraft
    <3> QED BY <1>2, <3>1, <3>2 DEF DraftRow
  <2> QED BY <2>1, <2>2
<1>4. /\ drafts' \in Seq(DraftRow)
      /\ DOMAIN drafts' = DOMAIN drafts
      /\ drafts'[d] = row
      /\ \A e \in DOMAIN drafts : e # d => drafts'[e] = drafts[e]
  BY <1>1, <1>3, SetRow
<1> QED BY <1>3, <1>4 DEF DraftsOnward

LEMMA NewDigestOnward ==
  ASSUME ReleaseTypeOK, NEW c \in Chapter, NewDigest(c)
  PROVE  digests' \in Seq(DigestRow)
<1> DEFINE old == [g \in DOMAIN digests |->
                     [digests[g] EXCEPT !.live = @ /\ digests[g].chapter # c]]
           row == [chapter |-> c, live |-> TRUE]
<1>1. /\ digests \in Seq(DigestRow) /\ Len(digests) \in Nat
      /\ DOMAIN digests = 1 .. Len(digests)
  BY LenProperties DEF ReleaseTypeOK, DigestRow
<1>2. ASSUME NEW g \in DOMAIN digests
      PROVE  old[g] \in DigestRow
  <2>1. digests[g] \in DigestRow
    BY <1>1, RowOf
  <2> QED BY <2>1 DEF DigestRow
<1>3. row \in DigestRow
  BY DEF DigestRow
<1>4. digests' = Append(old, row)
  BY DEF NewDigest
<1>5. old \in [1 .. Len(digests) -> DigestRow]
  BY <1>1, <1>2
<1> HIDE DEF old, row
<1>6. old \in Seq(DigestRow)
  BY <1>1, <1>5, RowsAreSeq
<1> QED BY <1>3, <1>4, <1>6, AppendRow

LEMMA ValidateOnward ==
  ASSUME ReleaseTypeOK, FailedBlocks, NEW s \in Scene,
         NEW outcome \in {"FailedValidation", "Failed", "AwaitingVerdict"}, Validate(s, outcome)
  PROVE  CandsOnward
<1> DEFINE row == [scene |-> s, blocking |-> outcome = "FailedValidation", status |-> outcome]
<1>1. /\ cands \in Seq(CandRow) /\ Len(cands) \in Nat
      /\ cands' = Append(cands, row)
  BY LenProperties DEF ReleaseTypeOK, CandRow, Validate
<1>2. row \in CandRow /\ (row.status = "FailedValidation" => row.blocking)
  BY DEF CandRow, CandStatus
<1> HIDE DEF row
<1>3. /\ cands' \in Seq(CandRow)
      /\ Len(cands') = Len(cands) + 1
      /\ DOMAIN cands' = DOMAIN cands \cup {Len(cands) + 1}
      /\ cands'[Len(cands) + 1] = row
      /\ \A i \in DOMAIN cands : cands'[i] = cands[i]
  BY <1>1, <1>2, AppendRow
<1> QED BY <1>1, <1>2, <1>3 DEF CandsOnward, FailedBlocks

\* Verdicts and rejections leave a candidate anywhere but where it failed.
LEMMA CandMovedOnward ==
  ASSUME ReleaseTypeOK, FailedBlocks, NEW i \in DOMAIN cands,
         NEW st \in CandStatus \ {"FailedValidation"},
         cands' = [cands EXCEPT ![i].status = st]
  PROVE  CandsOnward /\ Len(cands') = Len(cands) /\ DOMAIN cands' = DOMAIN cands
<1>1. cands \in Seq(CandRow) /\ Len(cands) \in Nat
  BY LenProperties DEF ReleaseTypeOK, CandRow
<1>2. cands[i] \in CandRow
  BY <1>1, RowOf
<1>3. PICK row \in CandRow : row = [cands[i] EXCEPT !.status = st]
  BY <1>2 DEF CandRow
<1>4. row.scene = cands[i].scene /\ row.status = st
  BY <1>2, <1>3 DEF CandRow
<1> DEFINE new == [cands EXCEPT ![i] = row]
<1>5. cands' = new
  BY <1>1, <1>3
<1>6. /\ new \in Seq(CandRow)
      /\ Len(new) = Len(cands)
      /\ DOMAIN new = DOMAIN cands
      /\ new[i] = row
      /\ \A j \in DOMAIN cands : j # i => new[j] = cands[j]
  BY <1>1, SetRow
<1> HIDE DEF new
<1>7. /\ cands' \in Seq(CandRow)
      /\ Len(cands') = Len(cands)
      /\ DOMAIN cands' = DOMAIN cands
      /\ cands'[i] = row
      /\ \A j \in DOMAIN cands : j # i => cands'[j] = cands[j]
  BY <1>5, <1>6
<1> QED BY <1>1, <1>4, <1>7 DEF CandsOnward, FailedBlocks

LEMMA OpenRepairOnward ==
  ASSUME ReleaseTypeOK, NEW i \in DOMAIN cands, OpenRepair(i)
  PROVE  RepairsOnward
<1> DEFINE T == [report: DOMAIN cands, state: RepairState]
           row == [report |-> i, state |-> "Open"]
<1>1. /\ repairs \in Seq(T) /\ Len(repairs) \in Nat
      /\ repairs' = Append(repairs, row) /\ UNCHANGED cands
  BY LenProperties DEF ReleaseTypeOK, OpenRepair
<1>2. row \in T
  BY DEF RepairState
<1> HIDE DEF T, row
<1>3. /\ repairs' \in Seq(T)
      /\ Len(repairs') = Len(repairs) + 1
      /\ \A t \in DOMAIN repairs : repairs'[t] = repairs[t]
  BY <1>1, <1>2, AppendRow
<1> QED BY <1>1, <1>3 DEF RepairsOnward, T

LEMMA EndRepairOnward ==
  ASSUME ReleaseTypeOK, FailedBlocks, NEW t \in DOMAIN repairs, NEW st \in RepairState,
         EndRepair(t, st)
  PROVE  CandsOnward /\ RepairsOnward
<1> DEFINE T == [report: DOMAIN cands, state: RepairState]
<1>1. /\ repairs \in Seq(T) /\ Len(repairs) \in Nat
      /\ repairs' = [repairs EXCEPT ![t].state = st]
      /\ repairs[t].state = "Open"
  BY LenProperties DEF ReleaseTypeOK, EndRepair
<1> HIDE DEF T
<1>2. repairs[t] \in T
  BY <1>1, RowOf
<1>3. PICK row \in T : row = [repairs[t] EXCEPT !.state = st]
  BY <1>2 DEF T
<1>4. row.report = repairs[t].report
  BY <1>2, <1>3 DEF T
<1>5. repairs' = [repairs EXCEPT ![t] = row]
  BY <1>1, <1>3
<1>6. /\ repairs' \in Seq(T)
      /\ Len(repairs') = Len(repairs)
      /\ repairs'[t] = row
      /\ \A u \in DOMAIN repairs : u # t => repairs'[u] = repairs[u]
  BY <1>1, <1>5, SetRow
<1>7. repairs[t].report \in DOMAIN cands
  BY <1>2 DEF T
<1>8. CandsOnward /\ DOMAIN cands' = DOMAIN cands
  <2>1. CASE UNCHANGED cands
    BY <2>1, SameCands
  <2>2. CASE cands' = [cands EXCEPT ![repairs[t].report].status = "Rejected"]
    <3>1. PICK i \in DOMAIN cands : i = repairs[t].report
      BY <1>7
    <3>2. cands' = [cands EXCEPT ![i].status = "Rejected"]
      BY <2>2, <3>1
    <3> QED BY <3>2, CandMovedOnward DEF CandStatus
  <2> QED BY <2>1, <2>2 DEF EndRepair
<1> QED BY <1>1, <1>4, <1>6, <1>8 DEF RepairsOnward, T

LEMMA StepOnward ==
  ASSUME ReleaseTypeOK, FailedBlocks, ReleaseNext
  PROVE  Onward
<1>1. digests \in Seq(DigestRow)
  BY DEF ReleaseTypeOK, DigestRow
<1>2. CASE UNCHANGED sources
  BY <1>1, <1>2, SameDrafts, SameCands, SameRepairs DEF sources, Onward
<1>3. ASSUME NEW s \in Scene
      PROVE  /\ \A b \in BOOLEAN : NewDraft(s, b) => Onward
             /\ \A st \in {"FailedValidation", "Failed", "AwaitingVerdict"} :
                  Validate(s, st) => Onward
  <2>1. ASSUME NEW b \in BOOLEAN, NewDraft(s, b)
        PROVE  Onward
    BY <1>1, <2>1, NewDraftOnward, SameCands, SameRepairs DEF NewDraft, Onward
  <2>2. ASSUME NEW st \in {"FailedValidation", "Failed", "AwaitingVerdict"}, Validate(s, st)
        PROVE  Onward
    BY <1>1, <2>2, ValidateOnward, SameDrafts, SameRepairs DEF Validate, Onward
  <2> QED BY <2>1, <2>2
<1>4. ASSUME NEW d \in DOMAIN drafts, ApproveDraft(d) \/ StyleDraft(d)
      PROVE  Onward
  BY <1>1, <1>4, DraftMarked, SameCands, SameRepairs DEF ApproveDraft, StyleDraft, Onward
<1>5. ASSUME NEW c \in Chapter, NewDigest(c)
      PROVE  Onward
  BY <1>5, NewDigestOnward, SameDrafts, SameCands, SameRepairs DEF NewDigest, Onward
<1>6. ASSUME NEW i \in DOMAIN cands, NEW st \in CandStatus, OpenRepair(i) \/ Verdict(i, st)
      PROVE  Onward
  <2>1. CASE OpenRepair(i)
    BY <1>1, <2>1, OpenRepairOnward, SameDrafts, SameCands DEF OpenRepair, Onward
  <2>2. CASE Verdict(i, st)
    <3>1. st \in CandStatus \ {"FailedValidation"} /\ cands' = [cands EXCEPT ![i].status = st]
      BY <2>2 DEF Verdict
    <3>2. CandsOnward
      BY <3>1, CandMovedOnward
    <3> QED BY <1>1, <2>2, <3>2, SameDrafts, SameRepairs DEF Verdict, Onward
  <2> QED BY <1>6, <2>1, <2>2
<1>7. ASSUME NEW t \in DOMAIN repairs, NEW st \in RepairState, EndRepair(t, st)
      PROVE  Onward
  BY <1>1, <1>7, EndRepairOnward, SameDrafts DEF EndRepair, Onward
<1>8. CASE SourcesMove
  <2>1. CASE \/ \E s \in Scene, b \in BOOLEAN : NewDraft(s, b)
             \/ \E s \in Scene, st \in {"FailedValidation", "Failed", "AwaitingVerdict"} :
                  Validate(s, st)
    BY <1>3, <2>1
  <2>2. CASE \E i \in DOMAIN cands : OpenRepair(i) \/ \E st \in CandStatus : Verdict(i, st)
    <3>1. "Approved" \in CandStatus
      BY DEF CandStatus
    <3> QED BY <1>6, <2>2, <3>1
  <2> QED BY <1>4, <1>5, <1>7, <1>8, <2>1, <2>2 DEF SourcesMove
<1> QED BY <1>2, <1>8 DEF ReleaseNext, Editor, ReleaseRequests

-----------------------------------------------------------------------------
(* Checks *)

\* All that is said of one check.
CheckOK(k) ==
  /\ checks[k].drafts \subseteq DOMAIN drafts
  /\ checks[k].reports <= Len(cands) /\ checks[k].repairs <= Len(repairs)
  /\ checks[k].status = "passed" => checks[k].manifest # NoManifest
  /\ checks[k].manifest # NoManifest => checks[k].status \in {"passed", "cancelled"}
  /\ HasOutcome(checks[k]) => checks[k].step = "nothing"
  /\ OneDraftEach(k)
  /\ PassedStands(k)

LEMMA ReportsStay ==
  ASSUME ReleaseTypeOK, Onward, NEW k \in DOMAIN checks,
         checks[k].reports <= Len(cands),
         checks'[k].reports = checks[k].reports, checks'[k].scenes = checks[k].scenes
  PROVE  /\ Reports(k) \subseteq DOMAIN cands
         /\ LatestReports(k)' = LatestReports(k)
<1>1. checks[k] \in Check
  BY RowOf DEF ReleaseTypeOK
<1>2. /\ DOMAIN cands = 1 .. Len(cands) /\ Len(cands) \in Nat
      /\ checks[k].reports \in Nat
  BY <1>1, LenProperties DEF ReleaseTypeOK, Check
<1>3. \A i \in 1 .. checks[k].reports : i \in DOMAIN cands /\ cands'[i].scene = cands[i].scene
  BY <1>2 DEF Onward, CandsOnward
<1>4. Reports(k)' = Reports(k)
  BY <1>3 DEF Reports
<1>5. \A i \in Reports(k) : i \in DOMAIN cands /\ cands'[i].scene = cands[i].scene
  BY <1>3 DEF Reports
<1> QED BY <1>4, <1>5 DEF LatestReports

\* What moves while a check runs, or after it, does not belie what it says.
LEMMA CheckStays ==
  ASSUME ReleaseTypeOK, Onward, NEW k \in DOMAIN checks, CheckOK(k),
         checks'[k].scenes = checks[k].scenes, checks'[k].drafts = checks[k].drafts,
         checks'[k].reports = checks[k].reports, checks'[k].repairs = checks[k].repairs,
         checks'[k].manifest = checks[k].manifest,
         checks'[k].status \in {checks[k].status, "cancelled"},
         \/ checks'[k].step \in {checks[k].step, "nothing"}
         \/ ~HasOutcome(checks[k]) /\ checks'[k].status = checks[k].status
  PROVE  CheckOK(k)'
<1>1. checks[k] \in Check
  BY RowOf DEF ReleaseTypeOK
<1>2. /\ Len(cands) \in Nat /\ Len(cands') \in Nat
      /\ Len(repairs) \in Nat /\ Len(repairs') \in Nat
  BY LenProperties DEF ReleaseTypeOK, Onward, CandsOnward, RepairsOnward
<1>3. /\ Len(cands) <= Len(cands') /\ Len(repairs) <= Len(repairs')
      /\ checks[k].reports \in Nat /\ checks[k].repairs \in Nat
  BY <1>1 DEF Onward, CandsOnward, RepairsOnward, Check
<1>4. checks'[k].reports <= Len(cands') /\ checks'[k].repairs <= Len(repairs')
  BY <1>2, <1>3 DEF CheckOK
<1>5. OneDraftEach(k)'
  BY DEF CheckOK, OneDraftEach, Onward, DraftsOnward
<1>6. PassedStands(k)'
  <2> SUFFICES ASSUME checks[k].manifest # NoManifest
               PROVE  PassedStands(k)'
    BY DEF PassedStands
  <2>1. \A d \in checks[k].drafts : drafts'[d].approved /\ drafts'[d].styled
    BY DEF CheckOK, PassedStands, Onward, DraftsOnward
  <2>2. /\ Reports(k) \subseteq DOMAIN cands
        /\ LatestReports(k)' = LatestReports(k)
    BY ReportsStay DEF CheckOK
  <2>3. ASSUME NEW i \in LatestReports(k), cands'[i].status = "FailedValidation"
        PROVE  \E t \in DOMAIN repairs' :
                 repairs'[t].report = i /\ repairs'[t].state = "RecheckPassed"
    <3>1. i \in DOMAIN cands
      BY <2>2 DEF LatestReports
    <3>2. cands[i].status = "FailedValidation"
      BY <2>3, <3>1 DEF Onward, CandsOnward
    <3>3. PICK t \in DOMAIN repairs : repairs[t].report = i /\ repairs[t].state = "RecheckPassed"
      BY <2>3, <3>2 DEF CheckOK, PassedStands
    <3>4. DOMAIN repairs \subseteq DOMAIN repairs'
      <4>1. DOMAIN repairs = 1 .. Len(repairs) /\ DOMAIN repairs' = 1 .. Len(repairs')
        BY LenProperties DEF ReleaseTypeOK, Onward, RepairsOnward
      <4> QED BY <1>2, <1>3, <4>1
    <3> QED BY <3>3, <3>4 DEF Onward, RepairsOnward
  <2> QED BY <2>1, <2>2, <2>3 DEF CheckOK, PassedStands
<1>7. checks'[k].drafts \subseteq DOMAIN drafts'
  BY DEF CheckOK, Onward, DraftsOnward
<1>8. HasOutcome(checks'[k]) => checks'[k].step = "nothing"
  BY DEF CheckOK, HasOutcome
<1> QED BY <1>4, <1>5, <1>6, <1>7, <1>8 DEF CheckOK

LEMMA CheckStaysSame ==
  ASSUME ReleaseTypeOK, Onward, NEW k \in DOMAIN checks, CheckOK(k), checks'[k] = checks[k]
  PROVE  CheckOK(k)'
  BY CheckStays DEF CheckOK

\* The check that a handler has written, beside all the others.
LEMMA OneCheckSet ==
  ASSUME ReleaseTypeOK, Onward, \A j \in DOMAIN checks : CheckOK(j),
         NEW k \in DOMAIN checks, NEW row \in Check, checks' = [checks EXCEPT ![k] = row],
         checks'[k] = row => CheckOK(k)'
  PROVE  checks' \in Seq(Check) /\ \A j \in DOMAIN checks' : CheckOK(j)'
<1>1. /\ checks' \in Seq(Check)
      /\ DOMAIN checks' = DOMAIN checks
      /\ checks'[k] = row
      /\ \A j \in DOMAIN checks : j # k => checks'[j] = checks[j]
  BY SetRow DEF ReleaseTypeOK
<1>2. ASSUME NEW j \in DOMAIN checks, j # k
      PROVE  CheckOK(j)'
  BY <1>1, <1>2, CheckStaysSame
<1> QED BY <1>1, <1>2

\* What the gates have said is left alone, but for a cancellation that was under
\* way.
OutcomeKept(old, new) ==
  /\ old.status \in {"passed", "failed"} =>
       /\ new.status = old.status \/ (new.status = "cancelled" /\ old.cancels > 0)
       /\ new.drafts = old.drafts
  /\ HasOutcome(old) => new.manifest = old.manifest

ChecksKept ==
  /\ checks' \in Seq(Check)
  /\ \A k \in DOMAIN checks' : CheckOK(k)'
  /\ DOMAIN checks \subseteq DOMAIN checks'
  /\ \A k \in DOMAIN checks : OutcomeKept(checks[k], checks'[k])

LEMMA SameChecks ==
  ASSUME ReleaseTypeOK, Onward, \A j \in DOMAIN checks : CheckOK(j), UNCHANGED checks
  PROVE  ChecksKept
<1>1. \A k \in DOMAIN checks : CheckOK(k)'
  BY CheckStaysSame
<1> QED BY <1>1 DEF ChecksKept, OutcomeKept, ReleaseTypeOK

LEMMA OneCheckKept ==
  ASSUME ReleaseTypeOK, Onward, \A j \in DOMAIN checks : CheckOK(j),
         NEW k \in DOMAIN checks, NEW row \in Check, OutcomeKept(checks[k], row),
         checks' = [checks EXCEPT ![k] = row],
         checks'[k] = row => CheckOK(k)'
  PROVE  ChecksKept
<1>1. checks' \in Seq(Check) /\ \A j \in DOMAIN checks' : CheckOK(j)'
  BY OneCheckSet
<1>2. /\ DOMAIN checks' = DOMAIN checks
      /\ checks'[k] = row
      /\ \A j \in DOMAIN checks : j # k => checks'[j] = checks[j]
  BY SetRow DEF ReleaseTypeOK
<1>3. \A j \in DOMAIN checks : OutcomeKept(checks[j], checks[j])
  BY DEF OutcomeKept
<1>4. \A j \in DOMAIN checks : OutcomeKept(checks[j], checks'[j])
  BY <1>2, <1>3
<1> QED BY <1>1, <1>2, <1>4 DEF ChecksKept

\* A check whose thread is at work has no outcome yet.
LEMMA NoOutcomeYet ==
  ASSUME NEW k \in DOMAIN checks, CheckOK(k), checks[k].step # "nothing", NEW row
  PROVE  /\ ~HasOutcome(checks[k])
         /\ OutcomeKept(checks[k], row)
  BY DEF CheckOK, OutcomeKept, HasOutcome

LEMMA StartKeepsChecks ==
  ASSUME ReleaseTypeOK, Onward, \A j \in DOMAIN checks : CheckOK(j),
         NEW S \in SUBSET Scene, NEW C \in SUBSET Chapter, StartCheck(S, C)
  PROVE  ChecksKept
<1> DEFINE row ==
       [status |-> "running", step |-> "list",
        scenes |-> TargetScenes(S, C), chapters |-> TargetChapters(S, C),
        drafts |-> {}, reports |-> 0, repairs |-> 0,
        digests |-> {}, dues |-> 0, safety |-> FALSE,
        cancels |-> 0, manifest |-> NoManifest]
<1>1. TargetScenes(S, C) \in SUBSET Scene
  BY DEF TargetScenes
<1>2. TargetChapters(S, C) \in SUBSET Chapter
  BY <1>1, ReleaseAssumption DEF TargetChapters
<1>3. row \in Check
  BY <1>1, <1>2 DEF Check, CheckStatus, Step, NoManifest, Listing
<1>4. /\ row.status = "running" /\ row.drafts = {} /\ row.reports = 0 /\ row.repairs = 0
      /\ row.manifest = NoManifest
  OBVIOUS
<1>5. checks' = Append(checks, row) /\ checks \in Seq(Check)
  BY DEF StartCheck, ReleaseTypeOK
<1> HIDE DEF row
<1>0. PICK n : n = Len(checks) + 1
  OBVIOUS
<1>6. /\ checks' \in Seq(Check)
      /\ DOMAIN checks' = DOMAIN checks \cup {n}
      /\ checks'[n] = row
      /\ \A k \in DOMAIN checks : checks'[k] = checks[k]
  BY <1>0, <1>3, <1>5, AppendRow
<1>7. \A k \in DOMAIN checks : CheckOK(k)' /\ OutcomeKept(checks[k], checks'[k])
  BY <1>6, CheckStaysSame DEF OutcomeKept
<1>8. CheckOK(n)'
  <2>1. 0 <= Len(cands') /\ 0 <= Len(repairs')
    BY LenProperties DEF Onward, CandsOnward, RepairsOnward
  <2>2. OneDraftEach(n)'
    BY <1>4, <1>6 DEF OneDraftEach
  <2>3. PassedStands(n)'
    BY <1>4, <1>6 DEF PassedStands
  <2> QED BY <1>4, <1>6, <2>1, <2>2, <2>3 DEF CheckOK, HasOutcome
<1> QED BY <1>6, <1>7, <1>8 DEF ChecksKept

\* The list holds the newest draft of each scene, so one of each at most.
LEMMA ListedOnceEach ==
  ASSUME drafts \in Seq(DraftRow), NEW S
  PROVE  /\ CurrentDrafts(S) \subseteq DOMAIN drafts
         /\ \A d, e \in CurrentDrafts(S) :
              drafts[d].scene \in S /\ (drafts[e].scene = drafts[d].scene => e = d)
<1>1. DOMAIN drafts \subseteq Nat
  BY LenProperties
<1>2. \A d, e \in CurrentDrafts(S) : drafts[e].scene = drafts[d].scene => e <= d /\ d <= e
  BY DEF CurrentDrafts
<1>3. CurrentDrafts(S) \subseteq Nat
  BY <1>1 DEF CurrentDrafts
<1>4. \A d, e \in Nat : e <= d /\ d <= e => e = d
  OBVIOUS
<1> QED BY <1>2, <1>3, <1>4 DEF CurrentDrafts

LEMMA DigestsListed ==
  ASSUME ReleaseTypeOK, NEW C
  PROVE  CurrentDigests(C) \in SUBSET Nat
  BY LenProperties DEF ReleaseTypeOK, CurrentDigests

LEMMA ListKeepsChecks ==
  ASSUME ReleaseTypeOK, Onward, \A j \in DOMAIN checks : CheckOK(j), UNCHANGED sources,
         NEW k \in DOMAIN checks, ListTargets(k)
  PROVE  ChecksKept
<1> DEFINE listed == CurrentDrafts(checks[k].scenes)
           current == CurrentDigests(checks[k].chapters)
           heard == safety
<1>1. checks[k] \in Check /\ CheckOK(k) /\ checks[k].step = "list"
  BY RowOf DEF ReleaseTypeOK, ListTargets
<1>2. ~HasOutcome(checks[k]) /\ \A row : OutcomeKept(checks[k], row)
  BY <1>1, NoOutcomeYet
<1>3. /\ drafts \in Seq(DraftRow) /\ Len(cands) \in Nat /\ Len(repairs) \in Nat
      /\ Len(dues) \in Nat /\ heard \in BOOLEAN
  BY LenProperties DEF ReleaseTypeOK, DraftRow
<1>4. listed \subseteq DOMAIN drafts
  BY <1>3, ListedOnceEach
<1>5. listed \in SUBSET Nat /\ current \in SUBSET Nat
  BY <1>3, <1>4, LenProperties, DigestsListed
<1>6. checks' = [checks EXCEPT ![k] =
                   [checks[k] EXCEPT !.step = "gate", !.drafts = listed,
                      !.reports = Len(cands), !.repairs = Len(repairs),
                      !.digests = current, !.dues = Len(dues), !.safety = heard]]
  BY <1>1 DEF ListTargets
<1> HIDE DEF heard, current, listed
<1>7. PICK row \in Check :
        row = [checks[k] EXCEPT !.step = "gate", !.drafts = listed,
                 !.reports = Len(cands), !.repairs = Len(repairs),
                 !.digests = current, !.dues = Len(dues), !.safety = heard]
  BY <1>1, <1>3, <1>5 DEF Check, Step
<1>8. /\ row.step = "gate" /\ row.drafts = listed
      /\ row.reports = Len(cands) /\ row.repairs = Len(repairs)
      /\ row.scenes = checks[k].scenes /\ row.status = checks[k].status
      /\ row.manifest = checks[k].manifest
  BY <1>1, <1>7 DEF Check
<1>9. checks' = [checks EXCEPT ![k] = row]
  BY <1>6, <1>7
<1>10. ASSUME checks'[k] = row
       PROVE  CheckOK(k)'
  <2>1. OneDraftEach(k)'
    BY <1>3, <1>8, <1>10, ListedOnceEach DEF OneDraftEach, sources, listed
  <2>2. PassedStands(k)'
    BY <1>2, <1>8, <1>10 DEF PassedStands, HasOutcome
  <2> QED BY <1>1, <1>2, <1>3, <1>4, <1>8, <1>10, <2>1, <2>2 DEF CheckOK, HasOutcome, sources
<1> QED BY <1>2, <1>9, <1>10, OneCheckKept

\* The gates look at the rows as they are when the outcome is written.
LEMMA GatesSuffice ==
  ASSUME ReleaseInv, NEW k \in DOMAIN checks, NEW openBlocker \in BOOLEAN,
         NEW frozen \in BOOLEAN, AllGates(k, openBlocker, frozen)
  PROVE  /\ checks[k].drafts # {}
         /\ \A d \in checks[k].drafts : drafts[d].approved /\ drafts[d].styled
         /\ \A i \in LatestReports(k) : cands[i].status = "FailedValidation" =>
              \E t \in DOMAIN repairs : repairs[t].report = i /\ repairs[t].state = "RecheckPassed"
<1>1. checks[k] \in Check
  BY RowOf DEF ReleaseInv, ReleaseTypeOK
<1>2. /\ Reports(k) \subseteq DOMAIN cands
      /\ Repairs(k) \subseteq DOMAIN repairs
  <2>1. /\ DOMAIN cands = 1 .. Len(cands) /\ Len(cands) \in Nat
        /\ DOMAIN repairs = 1 .. Len(repairs) /\ Len(repairs) \in Nat
    BY LenProperties DEF ReleaseInv, ReleaseTypeOK
  <2>2. /\ checks[k].reports \in Nat /\ checks[k].repairs \in Nat
        /\ checks[k].reports <= Len(cands) /\ checks[k].repairs <= Len(repairs)
    BY <1>1 DEF Check, ReleaseInv, ReleaseTypeOK
  <2> QED BY <2>1, <2>2 DEF Reports, Repairs
<1>3. \A d \in checks[k].drafts : drafts[d].approved /\ drafts[d].styled
  BY DEF AllGates, DraftsHumanApproved, StyleAndSafety
<1>4. ASSUME NEW i \in LatestReports(k), cands[i].status = "FailedValidation"
      PROVE  \E t \in DOMAIN repairs : repairs[t].report = i /\ repairs[t].state = "RecheckPassed"
  <2>1. cands[i].blocking
    BY <1>2, <1>4 DEF LatestReports, ReleaseInv, FailedBlocks
  <2>2. ViolationsHandled(k, i)
    BY <2>1 DEF AllGates, NoUnhandledBlockers
  <2> QED BY <1>2, <1>4, <2>2 DEF ViolationsHandled
<1> QED BY <1>3, <1>4 DEF AllGates, DraftsHumanApproved

\* What is left of a check when its thread is done.
LEMMA EndedRow ==
  ASSUME ReleaseTypeOK, NEW k \in DOMAIN checks
  PROVE  /\ Ended(k) \in Check
         /\ Ended(k).step = "nothing"
         /\ Ended(k).status = checks[k].status /\ Ended(k).manifest = checks[k].manifest
         /\ Ended(k).drafts = checks[k].drafts /\ Ended(k).scenes = checks[k].scenes
         /\ Ended(k).reports = checks[k].reports /\ Ended(k).repairs = checks[k].repairs
<1> DEFINE no == FALSE
<1>1. checks[k] \in Check /\ no \in BOOLEAN
  BY RowOf DEF ReleaseTypeOK
<1>2. Ended(k) = [checks[k] EXCEPT !.step = "nothing", !.digests = {}, !.dues = 0, !.safety = no]
  BY DEF Ended
<1> HIDE DEF no
<1>3. PICK row \in Check :
        row = [checks[k] EXCEPT !.step = "nothing", !.digests = {}, !.dues = 0, !.safety = no]
  BY <1>1 DEF Check, Step
<1>4. /\ row.step = "nothing"
      /\ row.status = checks[k].status /\ row.manifest = checks[k].manifest
      /\ row.drafts = checks[k].drafts /\ row.scenes = checks[k].scenes
      /\ row.reports = checks[k].reports /\ row.repairs = checks[k].repairs
  BY <1>1, <1>3 DEF Check
<1> QED BY <1>2, <1>3, <1>4

LEMMA FinishKeepsChecks ==
  ASSUME ReleaseInv, Onward, \A j \in DOMAIN checks : CheckOK(j), UNCHANGED sources,
         NEW k \in DOMAIN checks, NEW openBlocker \in BOOLEAN, NEW frozen \in BOOLEAN,
         FinishCheck(k, openBlocker, frozen)
  PROVE  ChecksKept
<1> DEFINE all == AllGates(k, openBlocker, frozen)
           status == IF all THEN "passed" ELSE "failed"
           manifest == IF all THEN Manifest(k) ELSE NoManifest
<1>0. ReleaseTypeOK
  BY DEF ReleaseInv
<1>1. checks[k] \in Check /\ CheckOK(k) /\ checks[k].step = "gate"
  BY <1>0, RowOf DEF ReleaseTypeOK, FinishCheck
<1>2. /\ checks[k].manifest = NoManifest
      /\ \A row : OutcomeKept(checks[k], row)
  BY <1>1, NoOutcomeYet DEF HasOutcome
<1>3. Manifest(k) \in Listing /\ Manifest(k).drafts = checks[k].drafts
  BY <1>1 DEF Manifest, Listing, Check
<1>4. /\ manifest \in Listing /\ NoManifest \in Listing
      /\ status \in {"passed", "failed"} /\ (status = "passed" <=> all)
  BY <1>3 DEF NoManifest, Listing
<1>5. all => /\ checks[k].drafts # {}
             /\ \A d \in checks[k].drafts : drafts[d].approved /\ drafts[d].styled
             /\ \A i \in LatestReports(k) : cands[i].status = "FailedValidation" =>
                  \E t \in DOMAIN repairs :
                    repairs[t].report = i /\ repairs[t].state = "RecheckPassed"
  BY GatesSuffice
<1>6. all => manifest.drafts = checks[k].drafts /\ manifest # NoManifest
  BY <1>3, <1>5 DEF NoManifest
<1>7. ~all => manifest = NoManifest
  OBVIOUS
<1>8. PICK row \in Check :
        /\ checks' = [checks EXCEPT ![k] = row]
        /\ row.step = "nothing" /\ row.status = status /\ row.manifest = manifest
        /\ row.drafts = checks[k].drafts /\ row.scenes = checks[k].scenes
        /\ row.reports = checks[k].reports /\ row.repairs = checks[k].repairs
  <2> DEFINE end == Ended(k)
             passed == [end EXCEPT !.status = "passed", !.manifest = Manifest(k)]
             failed == [end EXCEPT !.status = "failed"]
  <2>1. /\ end \in Check /\ end.step = "nothing" /\ end.manifest = checks[k].manifest
        /\ end.drafts = checks[k].drafts /\ end.scenes = checks[k].scenes
        /\ end.reports = checks[k].reports /\ end.repairs = checks[k].repairs
    BY <1>0, EndedRow
  <2>2. /\ all => checks' = [checks EXCEPT ![k] = passed]
        /\ ~all => checks' = [checks EXCEPT ![k] = failed]
    BY DEF FinishCheck
  <2> HIDE DEF end, all
  <2>3. /\ passed \in Check /\ passed.step = "nothing" /\ passed.status = "passed"
        /\ passed.manifest = Manifest(k)
        /\ passed.drafts = checks[k].drafts /\ passed.scenes = checks[k].scenes
        /\ passed.reports = checks[k].reports /\ passed.repairs = checks[k].repairs
    BY <1>3, <2>1 DEF Check, CheckStatus
  <2>4. /\ failed \in Check /\ failed.step = "nothing" /\ failed.status = "failed"
        /\ failed.manifest = NoManifest
        /\ failed.drafts = checks[k].drafts /\ failed.scenes = checks[k].scenes
        /\ failed.reports = checks[k].reports /\ failed.repairs = checks[k].repairs
    BY <1>2, <2>1 DEF Check, CheckStatus
  <2> HIDE DEF passed, failed
  <2> QED BY <2>2, <2>3, <2>4
<1> HIDE DEF all, status, manifest
<1>9. ASSUME checks'[k] = row
      PROVE  CheckOK(k)'
  <2>1. OneDraftEach(k)'
    BY <1>1, <1>8, <1>9 DEF CheckOK, OneDraftEach, sources
  <2>2. LatestReports(k)' = LatestReports(k)
    BY <1>0, <1>1, <1>8, <1>9, ReportsStay DEF CheckOK
  <2>3. PassedStands(k)'
    BY <1>4, <1>5, <1>6, <1>7, <1>8, <1>9, <2>2 DEF PassedStands, sources
  <2> QED BY <1>1, <1>4, <1>6, <1>7, <1>8, <1>9, <2>1, <2>3 DEF CheckOK, sources
<1> QED BY <1>0, <1>2, <1>8, <1>9, OneCheckKept

LEMMA EndKeepsChecks ==
  ASSUME ReleaseTypeOK, Onward, \A j \in DOMAIN checks : CheckOK(j),
         NEW k \in DOMAIN checks, CheckDies(k) \/ ReadCancel(k) \/ WriteCancel(k)
  PROVE  ChecksKept
<1>1. checks[k] \in Check /\ CheckOK(k)
  BY RowOf DEF ReleaseTypeOK
<1>2. PICK row \in Check :
        /\ checks' = [checks EXCEPT ![k] = row]
        /\ row.manifest = checks[k].manifest
        /\ row.drafts = checks[k].drafts /\ row.scenes = checks[k].scenes
        /\ row.reports = checks[k].reports /\ row.repairs = checks[k].repairs
        /\ row.step \in {checks[k].step, "nothing"}
        /\ row.status = checks[k].status \/ (row.status = "cancelled" /\ checks[k].cancels > 0)
  <2>1. CASE CheckDies(k)
    BY <2>1, EndedRow DEF CheckDies
  <2>2. CASE ReadCancel(k)
    <3> DEFINE more == checks[k].cancels + 1
    <3>1. more \in Nat
      BY <1>1 DEF Check
    <3>2. checks' = [checks EXCEPT ![k] = [checks[k] EXCEPT !.cancels = more]]
      BY <2>2 DEF ReadCancel
    <3> HIDE DEF more
    <3>3. PICK row \in Check : row = [checks[k] EXCEPT !.cancels = more]
      BY <1>1, <3>1 DEF Check
    <3> QED BY <1>1, <3>2, <3>3 DEF Check
  <2>3. CASE WriteCancel(k)
    <3> DEFINE fewer == checks[k].cancels - 1
    <3>1. checks[k].cancels > 0 /\ fewer \in Nat
      BY <1>1, <2>3 DEF Check, WriteCancel
    <3>2. checks' = [checks EXCEPT ![k] = [checks[k] EXCEPT !.cancels = fewer,
                                                            !.status = "cancelled"]]
      BY <2>3 DEF WriteCancel
    <3> HIDE DEF fewer
    <3>3. PICK row \in Check :
            row = [checks[k] EXCEPT !.cancels = fewer, !.status = "cancelled"]
      BY <1>1, <3>1 DEF Check, CheckStatus
    <3> QED BY <1>1, <3>1, <3>2, <3>3 DEF Check
  <2> QED BY <2>1, <2>2, <2>3
<1>3. OutcomeKept(checks[k], row)
  BY <1>2 DEF OutcomeKept
<1>4. ASSUME checks'[k] = row
      PROVE  CheckOK(k)'
  BY <1>1, <1>2, <1>4, CheckStays
<1> QED BY <1>2, <1>3, <1>4, OneCheckKept

LEMMA ChecksStep ==
  ASSUME ReleaseInv, ReleaseNext
  PROVE  Onward /\ ChecksKept
<1>1. /\ ReleaseTypeOK /\ Onward
      /\ \A k \in DOMAIN checks : CheckOK(k)
  BY StepOnward DEF ReleaseInv, ReleaseTypeOK, OutcomeIsLast, CheckOK
<1>2. CASE UNCHANGED checks
  BY <1>1, <1>2, SameChecks
<1>3. CASE ReleaseRequests
  <2>1. UNCHANGED sources
    BY <1>3 DEF ReleaseRequests
  <2>2. ASSUME NEW S \in SUBSET Scene, NEW C \in SUBSET Chapter, StartCheck(S, C)
        PROVE  ChecksKept
    BY <1>1, <2>2, StartKeepsChecks
  <2>3. ASSUME NEW k \in DOMAIN checks, ListTargets(k)
        PROVE  ChecksKept
    BY <1>1, <2>1, <2>3, ListKeepsChecks
  <2>4. ASSUME NEW k \in DOMAIN checks, CheckDies(k) \/ ReadCancel(k) \/ WriteCancel(k)
        PROVE  ChecksKept
    BY <1>1, <2>4, EndKeepsChecks
  <2>5. ASSUME NEW k \in DOMAIN checks, NEW openBlocker \in BOOLEAN, NEW frozen \in BOOLEAN,
               FinishCheck(k, openBlocker, frozen)
        PROVE  ChecksKept
    BY <1>1, <2>1, <2>5, FinishKeepsChecks
  <2>6. ASSUME NEW k \in DOMAIN checks, Export(k)
        PROVE  ChecksKept
    BY <1>2, <2>6 DEF Export
  <2>7. CASE \E k \in DOMAIN checks, openBlocker, frozen \in BOOLEAN :
               FinishCheck(k, openBlocker, frozen)
    BY <1>1, <2>5, <2>7
  <2>8. CASE \E k \in DOMAIN checks :
               ListTargets(k) \/ CheckDies(k) \/ ReadCancel(k) \/ WriteCancel(k) \/ Export(k)
    BY <1>1, <2>3, <2>4, <2>6, <2>8
  <2>9. CASE \E S \in SUBSET Scene, C \in SUBSET Chapter : StartCheck(S, C)
    BY <1>1, <2>2, <2>9
  <2> QED BY <1>3, <2>7, <2>8, <2>9 DEF ReleaseRequests
<1> QED BY <1>1, <1>2, <1>3 DEF ReleaseNext, SourcesMove, Editor

-----------------------------------------------------------------------------
(* Exports *)

Exported == [check: Nat, drafts: SUBSET Nat, digests: SUBSET Nat]

LEMMA ExportsStep ==
  ASSUME ReleaseInv, ReleaseNext, ChecksKept
  PROVE  /\ exports' \in Seq(Exported)
         /\ \A e \in DOMAIN exports' : exports'[e].check \in DOMAIN checks' /\ ExportStands(e)'
<1>1. exports \in Seq(Exported)
  BY DEF ReleaseInv, ReleaseTypeOK, Exported
<1>2. ASSUME NEW e \in DOMAIN exports, exports'[e] = exports[e]
      PROVE  exports'[e].check \in DOMAIN checks' /\ ExportStands(e)'
  <2>1. exports[e].check \in DOMAIN checks /\ ExportStands(e)
    BY DEF ReleaseInv, ReleaseTypeOK
  <2>2. checks'[exports[e].check].manifest = checks[exports[e].check].manifest
    BY <2>1 DEF ExportStands, ChecksKept, OutcomeKept, HasOutcome
  <2> QED BY <1>2, <2>1, <2>2 DEF ExportStands, ChecksKept
<1>3. CASE UNCHANGED exports
  BY <1>1, <1>2, <1>3
<1>4. ASSUME NEW k \in DOMAIN checks, Export(k)
      PROVE  /\ exports' \in Seq(Exported)
             /\ \A e \in DOMAIN exports' :
                  exports'[e].check \in DOMAIN checks' /\ ExportStands(e)'
  <2> DEFINE row == [check |-> k, drafts |-> ExportedDrafts(k),
                     digests |-> CurrentDigests(checks[k].chapters)]
  <2>1. checks[k] \in Check /\ k \in Nat /\ checks[k].status = "passed" /\ UNCHANGED checks
    BY <1>4, RowOf, LenProperties DEF ReleaseInv, ReleaseTypeOK, Export
  <2>2. CurrentDigests(checks[k].chapters) \in SUBSET Nat
    BY LenProperties DEF ReleaseInv, ReleaseTypeOK, CurrentDigests
  <2>3. row \in Exported /\ row.check = k /\ row.drafts = checks[k].drafts
    BY <2>1, <2>2 DEF Exported, ExportedDrafts, Check
  <2>4. exports' = Append(exports, row)
    BY <1>4 DEF Export
  <2> HIDE DEF row
  <2>5. PICK n : n = Len(exports) + 1
    OBVIOUS
  <2>6. /\ exports' \in Seq(Exported)
        /\ DOMAIN exports' = DOMAIN exports \cup {n}
        /\ exports'[n] = row
        /\ \A e \in DOMAIN exports : exports'[e] = exports[e]
    BY <1>1, <2>3, <2>4, <2>5, AppendRow
  <2>7. checks[k].manifest # NoManifest /\ checks[k].manifest.drafts = checks[k].drafts
    BY <2>1 DEF ReleaseInv, ReleaseTypeOK, PassedStands
  <2>8. exports'[n].check \in DOMAIN checks' /\ ExportStands(n)'
    BY <2>1, <2>3, <2>6, <2>7 DEF ExportStands
  <2> QED BY <1>2, <2>6, <2>8
<1> QED BY <1>3, <1>4
        DEF ReleaseNext, SourcesMove, Editor, ReleaseRequests, StartCheck, ListTargets,
            CheckDies, ReadCancel, WriteCancel, FinishCheck

-----------------------------------------------------------------------------
(* Theorems *)

LEMMA ReleaseInitInv == ReleaseInit => ReleaseInv
<1> SUFFICES ASSUME ReleaseInit PROVE ReleaseInv
  OBVIOUS
<1>1. \A T : <<>> \in Seq(T)
  OBVIOUS
<1>2. DOMAIN drafts = {} /\ DOMAIN cands = {} /\ DOMAIN checks = {} /\ DOMAIN exports = {}
  BY DEF ReleaseInit
<1>3. ReleaseTypeOK
  BY <1>1, <1>2 DEF ReleaseInit, ReleaseTypeOK
<1> QED BY <1>2, <1>3 DEF ReleaseInv, FailedBlocks, OutcomeIsLast

LEMMA DuesStep ==
  ASSUME ReleaseTypeOK, ReleaseNext
  PROVE  /\ dues' \in Seq([scope: {"book"} \cup Scene \cup Chapter, status: DueStatus])
         /\ safety' \in BOOLEAN
<1> DEFINE T == [scope: {"book"} \cup Scene \cup Chapter, status: DueStatus]
<1>1. dues \in Seq(T) /\ safety \in BOOLEAN
  BY DEF ReleaseTypeOK
<1>2. ASSUME NEW scope \in {"book"} \cup Scene \cup Chapter, CreateDueItem(scope)
      PROVE  dues' \in Seq(T)
  <2>1. [scope |-> scope, status |-> "due"] \in T
    BY DEF DueStatus
  <2> HIDE DEF T
  <2> QED BY <1>1, <1>2, <2>1, AppendProperties DEF CreateDueItem
<1>3. ASSUME NEW i \in DOMAIN dues, NEW st \in {"handled", "waived"},
             dues' = [dues EXCEPT ![i].status = st]
      PROVE  dues' \in Seq(T)
  <2>1. dues[i] \in T
    BY <1>1, RowOf
  <2>2. PICK row \in T : row = [dues[i] EXCEPT !.status = st]
    BY <2>1 DEF DueStatus
  <2>3. dues' = [dues EXCEPT ![i] = row]
    BY <1>1, <1>3, <2>2
  <2> HIDE DEF T
  <2> QED BY <1>1, <2>3, SetRow
<1> HIDE DEF T
<1>4. dues' \in Seq(T) /\ safety' \in BOOLEAN
  <2>1. CASE SourcesMove \/ ReleaseRequests
    BY <1>1, <2>1 DEF SourcesMove, ReleaseRequests
  <2>2. CASE \E scope \in {"book"} \cup Scene \cup Chapter : CreateDueItem(scope)
    BY <1>1, <1>2, <2>2 DEF CreateDueItem
  <2>3. CASE \E i \in DOMAIN dues : HandleDueItem(i) \/ WaiveDueItem(i)
    <3>1. PICK i \in DOMAIN dues, st \in {"handled", "waived"} :
            dues' = [dues EXCEPT ![i].status = st] /\ safety' = safety
      BY <2>3 DEF HandleDueItem, WaiveDueItem
    <3> QED BY <1>1, <1>3, <3>1
  <2>4. CASE RecordSafetyCheck
    BY <1>1, <2>4 DEF RecordSafetyCheck
  <2> QED BY <2>1, <2>2, <2>3, <2>4 DEF ReleaseNext, Editor
<1> QED BY <1>4 DEF T

LEMMA ReleaseStepInv == ReleaseInv /\ [ReleaseNext]_releaseVars => ReleaseInv'
<1> SUFFICES ASSUME ReleaseInv, [ReleaseNext]_releaseVars
             PROVE  ReleaseInv'
  OBVIOUS
<1>1. CASE ReleaseNext
  <2>1. Onward /\ ChecksKept
    BY <1>1, ChecksStep
  <2>2. /\ exports' \in Seq(Exported)
        /\ \A e \in DOMAIN exports' : exports'[e].check \in DOMAIN checks' /\ ExportStands(e)'
    BY <1>1, <2>1, ExportsStep
  <2>3. /\ dues' \in Seq([scope: {"book"} \cup Scene \cup Chapter, status: DueStatus])
        /\ safety' \in BOOLEAN
    BY <1>1, DuesStep DEF ReleaseInv
  <2>4. ReleaseTypeOK'
    <3>1. /\ drafts' \in Seq(DraftRow) /\ digests' \in Seq(DigestRow) /\ cands' \in Seq(CandRow)
          /\ repairs' \in Seq([report: DOMAIN cands', state: RepairState])
      BY <2>1 DEF Onward, DraftsOnward, CandsOnward, RepairsOnward
    <3>2. /\ checks' \in Seq(Check)
          /\ \A k \in DOMAIN checks' :
               /\ checks'[k].drafts \subseteq DOMAIN drafts'
               /\ checks'[k].reports <= Len(cands') /\ checks'[k].repairs <= Len(repairs')
               /\ checks'[k].status = "passed" => checks'[k].manifest # NoManifest
               /\ checks'[k].manifest # NoManifest =>
                    checks'[k].status \in {"passed", "cancelled"}
      BY <2>1 DEF ChecksKept, CheckOK
    <3> QED BY <2>2, <2>3, <3>1, <3>2
            DEF ReleaseTypeOK, DraftRow, DigestRow, CandRow, Exported
  <2>5. FailedBlocks'
    BY <2>1 DEF Onward, CandsOnward
  <2>6. /\ OutcomeIsLast'
        /\ \A k \in DOMAIN checks' : OneDraftEach(k)' /\ PassedStands(k)'
    BY <2>1 DEF ChecksKept, CheckOK, OutcomeIsLast
  <2> QED BY <2>2, <2>4, <2>5, <2>6 DEF ReleaseInv
<1>2. CASE UNCHANGED releaseVars
  <2> USE <1>2 DEF releaseVars
  <2>1. ReleaseTypeOK' /\ FailedBlocks' /\ OutcomeIsLast'
    BY DEF ReleaseInv, ReleaseTypeOK, FailedBlocks, OutcomeIsLast
  <2>2. \A k \in DOMAIN checks' : OneDraftEach(k)' /\ PassedStands(k)'
    BY DEF ReleaseInv, OneDraftEach, PassedStands, LatestReports, Reports
  <2>3. \A e \in DOMAIN exports' : ExportStands(e)'
    BY DEF ReleaseInv, ExportStands
  <2> QED BY <2>1, <2>2, <2>3 DEF ReleaseInv
<1> QED BY <1>1, <1>2

LEMMA ReleaseInvariant == ReleaseSpec => []ReleaseInv
BY ReleaseInitInv, ReleaseStepInv, PTL DEF ReleaseSpec

\* The rows are of their kind, and those that a check or an export names exist.
THEOREM ReleaseTypeCorrect == ReleaseSpec => []ReleaseTypeOK
<1>1. ReleaseInv => ReleaseTypeOK
  BY DEF ReleaseInv
<1> QED BY <1>1, ReleaseInvariant, PTL

\* Of any number of checks that overlap with new drafts, reports and repairs, the
\* ones that pass, and their exports, hold approved drafts only, one of a scene
\* at most, and leave no failure of the last validation unhandled.
THEOREM OnlyApprovedIsReleased == ReleaseSpec => []ReleasedIsApproved
<1>1. ReleaseInv => ReleasedIsApproved
  <2> SUFFICES ASSUME ReleaseInv
               PROVE  ReleasedIsApproved
    OBVIOUS
  <2>1. ASSUME NEW k \in DOMAIN checks, checks[k].manifest # NoManifest
        PROVE  /\ checks[k].manifest.drafts # {}
               /\ \A d \in checks[k].manifest.drafts :
                    /\ drafts[d].scene \in checks[k].scenes
                    /\ drafts[d].approved /\ drafts[d].styled
                    /\ \A e \in checks[k].manifest.drafts :
                         drafts[e].scene = drafts[d].scene => e = d
    BY <2>1 DEF ReleaseInv, PassedStands, OneDraftEach
  <2>2. ASSUME NEW k \in DOMAIN checks, checks[k].manifest # NoManifest,
               NEW i \in LatestReports(k), cands[i].status = "FailedValidation"
        PROVE  \E t \in DOMAIN repairs : repairs[t] = [report |-> i, state |-> "RecheckPassed"]
    <3>1. PICK t \in DOMAIN repairs : repairs[t].report = i /\ repairs[t].state = "RecheckPassed"
      BY <2>2 DEF ReleaseInv, PassedStands
    <3>2. repairs[t] \in [report: DOMAIN cands, state: RepairState]
      BY RowOf DEF ReleaseInv, ReleaseTypeOK
    <3>3. repairs[t] = [report |-> i, state |-> "RecheckPassed"]
      BY <3>1, <3>2
    <3> QED BY <3>3
  <2>3. \A e \in DOMAIN exports : ExportStands(e)
    BY DEF ReleaseInv
  <2> QED BY <2>1, <2>2, <2>3 DEF ReleasedIsApproved, ExportStands
<1> QED BY <1>1, ReleaseInvariant, PTL

\* The gates speak once: a check that has passed or failed, and its manifest, stay
\* as they are for any number of threads that still list, judge, export or cancel
\* checks, but for a cancellation that had read the status before.
THEOREM OutcomesStay == ReleaseSpec => OutcomeStands
<1>1. ReleaseInv /\ [ReleaseNext]_releaseVars
        => [\A k \in DOMAIN checks : checks[k].status \in {"passed", "failed"} =>
              /\ \/ checks'[k].status = checks[k].status
                 \/ checks'[k].status = "cancelled" /\ checks[k].cancels > 0
              /\ checks'[k].manifest = checks[k].manifest
              /\ checks'[k].drafts = checks[k].drafts]_releaseVars
  BY ChecksStep DEF ChecksKept, OutcomeKept, HasOutcome
<1> QED BY <1>1, ReleaseInvariant, PTL DEF ReleaseSpec, OutcomeStands

=============================================================================
