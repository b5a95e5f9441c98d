---------------------------- MODULE WritingProofs ----------------------------
(***************************************************************************)
(* What Writing keeps for any number of scenes, drafts, summaries, keys    *)
(* and jobs.  WritingInv says which draft and which summary of a scene is  *)
(* the current one, what a job may read, and that of the jobs of one key   *)
(* all but the newest are settled or have been given up.                   *)
(***************************************************************************)
EXTENDS Writing, FiniteSetTheorems, SequenceTheorems, TLAPS

-----------------------------------------------------------------------------
(* The inductive invariant *)

PackRow == [scene: Scene, status: PackStatus, draft: {0} \cup DOMAIN drafts]
DraftRow == [scene: Scene, pack: SUBSET FrozenPacks, status: DraftStatus, batches: 0 .. MaxBatches]
SummaryRow == [scene: Scene, status: SummaryStatus, draft: DOMAIN drafts]
DigestRow == [of: SUBSET DOMAIN summaries, status: SummaryStatus]

NewestDraft(d) == \A e \in DOMAIN drafts : drafts[e].scene = drafts[d].scene => e <= d

\* Only the newest draft of a scene may await extraction, and it is live.
DraftStands(d) ==
  /\ NewestDraft(d) => drafts[d].status \in Live
  /\ drafts[d].status = "Generated" => NewestDraft(d) /\ drafts[d].batches = 0
  /\ drafts[d].status = "Extracted" => drafts[d].batches > 0

SummaryStands(n) ==
  summaries[n].status = "Generated" <=>
    ~\E m \in DOMAIN summaries : m > n /\ summaries[m].scene = summaries[n].scene

DigestStands(c) == digests[c].status = "Generated" <=> c = Len(digests)

\* Summaries of all scenes, none of them replaced when another was written.
OfOneMoment(S) ==
  /\ S \subseteq DOMAIN summaries
  /\ {summaries[n].scene : n \in S} = Scene
  /\ \A n, m \in S, newer \in DOMAIN summaries :
       n < newer /\ summaries[newer].scene = summaries[n].scene => m < newer

\* What a job says of itself, and what it reads.
RequestStands(row) ==
  /\ row.state = "Failed" => row.attempt = 0
  /\ row.state = "Cancelled" => row.stopped
  /\ row.state = "Repair" => row.repaired
  /\ row.kind = "plan" => row.from = {}
  /\ row.kind = "digest" \/ row.scene \in Scene
  /\ row.kind = "draft" => row.from \subseteq FrozenPacks
  /\ row.kind \in {"extract", "summary"} => \E d \in DOMAIN drafts : row.from = {d}
  /\ row.kind = "digest" => OfOneMoment(row.from)

\* A job that another of its key may follow.
GivenUp(row) == row.stopped \/ row.repaired \/ (row.state = "Failed" /\ row.attempt = 0)

SameJob(row, other) ==
  /\ row.key # NoKey
  /\ <<row.kind, row.scene, row.key>> = <<other.kind, other.scene, other.key>>
  /\ row.kind = "extract" => row.from = other.from

OnlyNewestCounts ==
  \A j, k \in DOMAIN requests :
    j < k /\ SameJob(requests[j], requests[k]) => GivenUp(requests[j])

WritingInv ==
  /\ WritingTypeOK
  /\ \A d \in DOMAIN drafts : DraftStands(d)
  /\ \A n \in DOMAIN summaries : SummaryStands(n)
  /\ \A c \in DOMAIN digests : DigestStands(c) /\ OfOneMoment(digests[c].of)
  /\ \A j \in DOMAIN requests : RequestStands(requests[j])
  /\ OnlyNewestCounts

-----------------------------------------------------------------------------
(* Lists of rows *)

LEMMA RowOf ==
  ASSUME NEW T, NEW rows \in Seq(T), NEW i \in DOMAIN rows
  PROVE  rows[i] \in T
  BY LenProperties, ElementOfSeq

LEMMA RowsAreSeq ==
  ASSUME NEW T, NEW n \in Nat, NEW rows \in [1 .. n -> T]
  PROVE  rows \in Seq(T) /\ Len(rows) = n
<1>1. rows \in Seq(T)
  BY SeqDef
<1> QED BY <1>1, LenProperties

LEMMA AppendRow ==
  ASSUME NEW T, NEW rows \in Seq(T), NEW row \in T
  PROVE  /\ Append(rows, row) \in Seq(T)
         /\ Len(Append(rows, row)) = Len(rows) + 1
         /\ DOMAIN Append(rows, row) = DOMAIN rows \cup {Len(rows) + 1}
         /\ Len(rows) + 1 \notin DOMAIN rows
         /\ Append(rows, row)[Len(rows) + 1] = row
         /\ \A i \in DOMAIN rows : Append(rows, row)[i] = rows[i]
<1>1. Len(rows) \in Nat /\ DOMAIN rows = 1 .. Len(rows)
  BY LenProperties
<1>2. /\ Append(rows, row) \in Seq(T)
      /\ Len(Append(rows, row)) = Len(rows) + 1
      /\ Append(rows, row)[Len(rows) + 1] = row
      /\ \A i \in 1 .. Len(rows) : Append(rows, row)[i] = rows[i]
  BY AppendProperties
<1>3. DOMAIN Append(rows, row) = 1 .. Len(rows) + 1
  BY <1>2, LenProperties
<1> QED BY <1>1, <1>2, <1>3

LEMMA SetRow ==
  ASSUME NEW T, NEW rows \in Seq(T), NEW i \in DOMAIN rows, NEW row \in T
  PROVE  /\ [rows EXCEPT ![i] = row] \in Seq(T)
         /\ Len([rows EXCEPT ![i] = row]) = Len(rows)
         /\ DOMAIN [rows EXCEPT ![i] = row] = DOMAIN rows
         /\ [rows EXCEPT ![i] = row][i] = row
         /\ \A j \in DOMAIN rows : j # i => [rows EXCEPT ![i] = row][j] = rows[j]
<1>1. DOMAIN rows = 1 .. Len(rows)
  BY LenProperties
<1> QED BY <1>1, ExceptSeq

\* The places of the rows that are left keep their order.
Shifted(i, k) == IF k < i THEN k ELSE k + 1

LEMMA RemoveRow ==
  ASSUME NEW T, NEW rows \in Seq(T), NEW i \in DOMAIN rows
  PROVE  /\ RemoveAt(rows, i) \in Seq(T)
         /\ \A k \in DOMAIN RemoveAt(rows, i) :
              /\ Shifted(i, k) \in DOMAIN rows
              /\ RemoveAt(rows, i)[k] = rows[Shifted(i, k)]
<1>1. Len(rows) \in Nat /\ DOMAIN rows = 1 .. Len(rows) /\ \A k \in 1 .. Len(rows) : rows[k] \in T
  BY LenProperties, ElementOfSeq
<1>2. i \in 1 .. Len(rows) /\ i - 1 \in Int /\ i + 1 \in Int /\ 1 \in Int /\ Len(rows) \in Int
  BY <1>1
<1> DEFINE left == SubSeq(rows, 1, i - 1)
           right == SubSeq(rows, i + 1, Len(rows))
<1>3. /\ left \in Seq(T) /\ Len(left) = i - 1
      /\ \A k \in 1 .. i - 1 : left[k] = rows[k]
  <2>1. \A k \in 1 .. i - 1 : rows[k] \in T
    BY <1>1, <1>2
  <2>2. /\ left \in Seq(T)
        /\ Len(left) = IF 1 <= i - 1 THEN (i - 1) - 1 + 1 ELSE 0
        /\ \A k \in 1 .. (i - 1) - 1 + 1 : left[k] = rows[1 + k - 1]
    BY <1>2, <2>1, SubSeqProperties
  <2> HIDE DEF left
  <2> QED BY <1>2, <2>2
<1>4. /\ right \in Seq(T) /\ Len(right) = Len(rows) - i
      /\ \A k \in 1 .. Len(rows) - i : right[k] = rows[i + k]
  <2>1. \A k \in i + 1 .. Len(rows) : rows[k] \in T
    BY <1>1, <1>2
  <2>2. /\ right \in Seq(T)
        /\ Len(right) = IF i + 1 <= Len(rows) THEN Len(rows) - (i + 1) + 1 ELSE 0
        /\ \A k \in 1 .. Len(rows) - (i + 1) + 1 : right[k] = rows[i + 1 + k - 1]
    BY <1>2, <2>1, SubSeqProperties
  <2> HIDE DEF right
  <2> QED BY <1>2, <2>2
<1> HIDE DEF left, right
<1>5. /\ left \o right \in Seq(T)
      /\ Len(left \o right) = Len(left) + Len(right)
      /\ \A k \in 1 .. Len(left) + Len(right) :
           (left \o right)[k] = IF k <= Len(left) THEN left[k] ELSE right[k - Len(left)]
  BY <1>3, <1>4, ConcatProperties
<1>6. Len(left) + Len(right) = Len(rows) - 1
  BY <1>2, <1>3, <1>4
<1>7. DOMAIN (left \o right) = 1 .. Len(rows) - 1
  BY <1>5, <1>6, LenProperties
<1>8. ASSUME NEW k \in 1 .. Len(rows) - 1
      PROVE  Shifted(i, k) \in DOMAIN rows /\ (left \o right)[k] = rows[Shifted(i, k)]
  <2>1. CASE k < i
    <3>1. k \in 1 .. i - 1 /\ k <= i - 1 /\ k \in 1 .. Len(rows)
      BY <1>2, <2>1
    <3>2. (left \o right)[k] = left[k]
      BY <1>3, <1>5, <1>6, <3>1
    <3> QED BY <1>1, <1>3, <2>1, <3>1, <3>2 DEF Shifted
  <2>2. CASE ~(k < i)
    <3>1. /\ k - (i - 1) \in 1 .. Len(rows) - i
          /\ i + (k - (i - 1)) = k + 1
          /\ ~(k <= i - 1)
      BY <1>2, <2>2
    <3>2. (left \o right)[k] = right[k - (i - 1)]
      BY <1>3, <1>5, <1>6, <3>1
    <3>3. right[k - (i - 1)] = rows[k + 1]
      BY <1>4, <3>1
    <3> QED BY <1>1, <1>2, <2>2, <3>2, <3>3 DEF Shifted
  <2> QED BY <2>1, <2>2
<1> QED BY <1>5, <1>7, <1>8 DEF RemoveAt, left, right

-----------------------------------------------------------------------------
(* The newest of a set.  The sets 0 .. n are finite and strict inclusion of     *)
(* finite sets is well-founded, so every set of numbers has a least one.        *)

LEMMA LeastNat ==
  ASSUME NEW T, T \subseteq Nat, T # {}
  PROVE  \E x \in T : \A y \in T : x <= y
<1> DEFINE Upto == {0 .. n : n \in T}
<1>1. IsWellFoundedOn(StrictSubsetOrdering(Nat), FiniteSubsetsOf(Nat))
  BY FS_StrictSubsetOrderingWellFounded
<1>2. \A n \in T : 0 .. n \in FiniteSubsetsOf(Nat)
  BY FS_Interval DEF FiniteSubsetsOf
<1>3. Upto \subseteq FiniteSubsetsOf(Nat) /\ Upto # {}
  BY <1>2
<1>4. PICK X \in Upto : \A Y \in Upto : ~(<<Y, X>> \in StrictSubsetOrdering(Nat))
  BY <1>1, <1>3, WFMin
<1>5. PICK x \in T : X = 0 .. x
  BY <1>4
<1>6. ASSUME NEW y \in T
      PROVE  x <= y
  <2>1. 0 .. y \in SUBSET Nat /\ 0 .. x \in SUBSET Nat /\ 0 .. y \in Upto
    OBVIOUS
  <2>2. ~(0 .. y \subseteq 0 .. x /\ 0 .. y # 0 .. x)
    BY <1>4, <1>5, <2>1 DEF StrictSubsetOrdering
  <2>3. CASE y < x
    <3>1. x \in Nat /\ y \in Nat /\ x \notin 0 .. y /\ x \in 0 .. x /\ 0 .. y \subseteq 0 .. x
      BY <2>3
    <3> QED BY <2>2, <3>1
  <2> QED BY <2>3
<1> QED BY <1>6

LEMMA MaxIsGreatest ==
  ASSUME NEW n \in Nat, NEW S, S \subseteq 1 .. n, S # {}
  PROVE  Max(S) \in S /\ \A x \in S : x <= Max(S)
<1> DEFINE T == {n - x : x \in S}
<1>1. T \subseteq Nat /\ T # {}
  <2>1. \A x \in S : n - x \in Nat
    OBVIOUS
  <2> QED BY <2>1
<1>2. PICK t \in T : \A y \in T : t <= y
  <2> HIDE DEF T
  <2> QED BY <1>1, LeastNat
<1>3. PICK m \in S : t = n - m
  BY <1>2
<1>4. \A x \in S : n - x \in T /\ m >= x
  BY <1>2, <1>3
<1>5. \E x \in S : \A y \in S : x >= y
  BY <1>4
<1>6. Max(S) \in S /\ \A x \in S : Max(S) >= x
  BY <1>5 DEF Max
<1>7. \A x \in S : x \in Int
  OBVIOUS
<1> QED BY <1>6, <1>7

LEMMA NewestIsGreatest ==
  ASSUME NEW n \in Nat, NEW S, S \subseteq 1 .. n
  PROVE  /\ S = {} => Newest(S) = 0
         /\ S # {} => Newest(S) \in S /\ \A x \in S : x <= Newest(S)
BY MaxIsGreatest DEF Newest

-----------------------------------------------------------------------------
(* What a step does to each of the lists *)

LEMMA Places ==
  ASSUME WritingTypeOK
  PROVE  /\ Len(drafts) \in Nat /\ DOMAIN drafts = 1 .. Len(drafts)
         /\ Len(summaries) \in Nat /\ DOMAIN summaries = 1 .. Len(summaries)
         /\ Len(digests) \in Nat /\ DOMAIN digests = 1 .. Len(digests)
         /\ Len(requests) \in Nat /\ DOMAIN requests = 1 .. Len(requests)
         /\ \A d \in DOMAIN drafts : drafts[d] \in DraftRow
         /\ \A n \in DOMAIN summaries : summaries[n] \in SummaryRow
         /\ \A c \in DOMAIN digests : digests[c] \in DigestRow
         /\ \A j \in DOMAIN requests : requests[j] \in Request
         /\ \A p \in DOMAIN packs : packs[p] \in PackRow
<1>1. /\ drafts \in Seq(DraftRow) /\ summaries \in Seq(SummaryRow) /\ digests \in Seq(DigestRow)
      /\ requests \in Seq(Request) /\ packs \in Seq(PackRow)
  BY DEF WritingTypeOK, DraftRow, SummaryRow, DigestRow, PackRow
<1> QED BY <1>1, LenProperties, RowOf

LEMMA ReadsOneDraft ==
  ASSUME WritingInv, NEW j \in DOMAIN requests, requests[j].kind \in {"extract", "summary"}
  PROVE  DraftOf(j) \in DOMAIN drafts
<1>1. PICK d \in DOMAIN drafts : requests[j].from = {d}
  BY DEF WritingInv, RequestStands
<1>2. DraftOf(j) \in requests[j].from
  BY <1>1 DEF DraftOf
<1> QED BY <1>1, <1>2

\* The summaries taken when a digest is asked for are the current ones.
LEMMA SourcesAreCurrent ==
  ASSUME WritingInv, 0 \notin Sources
  PROVE  OfOneMoment(Sources)
<1> DEFINE Of(s) == {n \in DOMAIN summaries :
                       summaries[n].scene = s /\ summaries[n].status = "Generated"}
<1>1. ASSUME NEW s \in Scene
      PROVE  CurrentSummary(s) \in Of(s)
  <2>1. Of(s) \subseteq 1 .. Len(summaries) /\ Len(summaries) \in Nat
    BY Places DEF WritingInv
  <2>2. CurrentSummary(s) = Newest(Of(s)) /\ CurrentSummary(s) # 0
    BY DEF CurrentSummary, Sources
  <2> HIDE DEF Of
  <2> QED BY <2>1, <2>2, NewestIsGreatest
<1>2. ASSUME NEW n \in Sources
      PROVE  /\ n \in DOMAIN summaries /\ summaries[n].scene \in Scene
             /\ ~\E m \in DOMAIN summaries : m > n /\ summaries[m].scene = summaries[n].scene
  <2>1. PICK s \in Scene : n = CurrentSummary(s)
    BY DEF Sources
  <2>2. n \in Of(s)
    BY <1>1, <2>1
  <2> QED BY <2>2 DEF WritingInv, SummaryStands
<1>3. \A s \in Scene : CurrentSummary(s) \in Sources /\ summaries[CurrentSummary(s)].scene = s
  BY <1>1 DEF Sources
<1>4. ASSUME NEW n \in Sources, NEW newer \in DOMAIN summaries,
             n < newer, summaries[newer].scene = summaries[n].scene
      PROVE  FALSE
  <2>1. n \in Int /\ newer \in Int
    BY <1>2, Places DEF WritingInv
  <2> QED BY <1>2, <1>4, <2>1
<1> QED BY <1>2, <1>3, <1>4 DEF OfOneMoment

LEMMA RequestsOnly ==
  ASSUME PlanRequests \/ DraftRequests \/ ExtractRequests \/ SummaryRequests
  PROVE  UNCHANGED <<planned, packs, drafts, summaries, digests>>
BY DEF PlanRequests, DraftRequests, ExtractRequests, SummaryRequests, TriggerPlan, TriggerDraft,
       TriggerExtract, TriggerSummary, TriggerDigest, Trigger

\* A running job writes only when it succeeds.
LEMMA RunningWrites ==
  ASSUME Running
  PROVE  \/ UNCHANGED <<planned, packs, drafts, summaries, digests>>
         \/ \E j \in DOMAIN requests : Succeed(j)
BY DEF Running, CancelJob

LEMMA DraftsMove ==
  ASSUME WritingInv, WritingNext
  PROVE  \/ UNCHANGED drafts
         \/ \E s \in Scene, P \in SUBSET FrozenPacks, retired \in {{"Generated"}, Live} :
              AddDraft(s, P, retired)
         \/ \E d \in DOMAIN drafts : AddBatch(d)
<1>1. CASE Packs \/ PlanRequests \/ DraftRequests \/ ExtractRequests \/ SummaryRequests
  BY <1>1, RequestsOnly DEF Packs
<1>2. ASSUME NEW j \in DOMAIN requests, Succeed(j), drafts' # drafts
      PROVE  \/ \E s \in Scene, P \in SUBSET FrozenPacks : AddDraft(s, P, {"Generated"})
             \/ \E d \in DOMAIN drafts : AddBatch(d)
  <2>1. CASE SucceedDraft(j)
    <3>1. requests[j].kind = "draft" /\ requests[j] \in Request
      BY <2>1, Places DEF SucceedDraft, WritingInv
    <3>2. requests[j].from \in SUBSET FrozenPacks
      BY <3>1 DEF WritingInv, RequestStands
    <3>3. requests[j].scene \in Scene \/ requests[j].scene = Chapter
      BY <3>1 DEF Request
    <3>4. requests[j].scene \in Scene
      BY <3>1, <3>3 DEF WritingInv, RequestStands
    <3> QED BY <2>1, <3>2, <3>4 DEF SucceedDraft
  <2>2. CASE SucceedExtract(j)
    BY <2>2, ReadsOneDraft DEF SucceedExtract
  <2> QED BY <1>2, <2>1, <2>2 DEF Succeed, SucceedPlan, SucceedSummary, SucceedDigest
<1>3. ASSUME NEW key \in AnyKey, NEW s \in Scene, ImportDraft(s, key)
      PROVE  AddDraft(s, {}, Live)
  BY <1>3 DEF ImportDraft
<1>4. CASE Shuttle
  BY <1>3, <1>4 DEF Shuttle, ImportExtract, ImportSummary, ImportDigest
<1>5. CASE Running
  BY <1>2, <1>5, RunningWrites
<1> QED BY <1>1, <1>4, <1>5 DEF WritingNext

LEMMA SummariesMove ==
  ASSUME WritingInv, WritingNext
  PROVE  UNCHANGED summaries \/ \E d \in DOMAIN drafts : AddSummary(d)
<1>1. CASE Packs \/ PlanRequests \/ DraftRequests \/ ExtractRequests \/ SummaryRequests
  BY <1>1, RequestsOnly DEF Packs
<1>2. ASSUME NEW j \in DOMAIN requests, Succeed(j), summaries' # summaries
      PROVE  \E d \in DOMAIN drafts : AddSummary(d)
  <2>1. SucceedSummary(j)
    BY <1>2 DEF Succeed, SucceedPlan, SucceedDraft, SucceedExtract, SucceedDigest
  <2> QED BY <2>1, ReadsOneDraft DEF SucceedSummary
<1>3. CASE Shuttle
  BY <1>3 DEF Shuttle, ImportDraft, ImportExtract, ImportSummary, ImportDigest
<1>4. CASE Running
  BY <1>2, <1>4, RunningWrites
<1> QED BY <1>1, <1>3, <1>4 DEF WritingNext

LEMMA DigestsMove ==
  ASSUME WritingInv, WritingNext
  PROVE  UNCHANGED digests \/ \E S : OfOneMoment(S) /\ AddDigest(S)
<1>1. CASE Packs \/ PlanRequests \/ DraftRequests \/ ExtractRequests \/ SummaryRequests
  BY <1>1, RequestsOnly DEF Packs
<1>2. ASSUME NEW j \in DOMAIN requests, Succeed(j), digests' # digests
      PROVE  OfOneMoment(requests[j].from) /\ AddDigest(requests[j].from)
  <2>1. SucceedDigest(j)
    BY <1>2 DEF Succeed, SucceedPlan, SucceedDraft, SucceedExtract, SucceedSummary
  <2> QED BY <2>1 DEF SucceedDigest, WritingInv, RequestStands
<1>3. CASE Shuttle
  BY <1>3, SourcesAreCurrent DEF Shuttle, ImportDraft, ImportExtract, ImportSummary, ImportDigest
<1>4. CASE Running
  BY <1>2, <1>4, RunningWrites
<1> QED BY <1>1, <1>3, <1>4 DEF WritingNext

PacksGrow ==
  /\ packs' \in Seq([scene: Scene, status: PackStatus, draft: {0} \cup DOMAIN drafts])
  /\ FrozenPacks \subseteq FrozenPacks'

LEMMA PacksMove ==
  ASSUME WritingTypeOK, WritingNext
  PROVE  PacksGrow
<1>1. packs \in Seq(PackRow) /\ \A p \in DOMAIN packs : packs[p] \in PackRow
  BY Places DEF WritingTypeOK, PackRow
<1>2. CASE UNCHANGED packs
  BY <1>1, <1>2 DEF PacksGrow, PackRow, FrozenPacks
<1>3. ASSUME NEW row \in PackRow, packs' = Append(packs, row)
      PROVE  PacksGrow
  <2>1. PICK n : n = Len(packs) + 1
    OBVIOUS
  <2>2. /\ packs' \in Seq(PackRow) /\ DOMAIN packs' = DOMAIN packs \cup {n}
        /\ \A p \in DOMAIN packs : packs'[p] = packs[p]
    BY <1>1, <1>3, <2>1, AppendRow
  <2> QED BY <2>2 DEF PacksGrow, PackRow, FrozenPacks
<1>4. ASSUME NEW s \in Scene, NEW fails \in BOOLEAN, Assemble(s, fails)
      PROVE  PacksGrow
  <2>1. LiveDrafts(s) \subseteq 1 .. Len(drafts) /\ Len(drafts) \in Nat
    BY Places DEF LiveDrafts, DraftsOf
  <2>2. Newest(LiveDrafts(s)) \in {0} \cup DOMAIN drafts
    BY <2>1, Places, NewestIsGreatest
  <2>3. PICK row \in PackRow : packs' = Append(packs, row)
    BY <1>4, <2>2 DEF Assemble, PackRow, PackStatus
  <2> QED BY <1>3, <2>3
<1>5. ASSUME NEW p \in DOMAIN packs, Freeze(p) \/ CancelPack(p)
      PROVE  PacksGrow
  <2>1. PICK row \in PackRow : packs[p].status # "Frozen" /\ packs' = [packs EXCEPT ![p] = row]
    <3>1. CASE Freeze(p)
      <4>1. PICK row \in PackRow : row = [packs[p] EXCEPT !.status = "Frozen"]
        BY <1>1 DEF PackRow, PackStatus
      <4> QED BY <1>1, <3>1, <4>1 DEF Freeze
    <3>2. CASE CancelPack(p)
      <4>1. PICK row \in PackRow : row = [packs[p] EXCEPT !.status = "Cancelled"]
        BY <1>1 DEF PackRow, PackStatus
      <4> QED BY <1>1, <3>2, <4>1 DEF CancelPack
    <3> QED BY <1>5, <3>1, <3>2
  <2>2. /\ packs' \in Seq(PackRow) /\ DOMAIN packs' = DOMAIN packs
        /\ \A q \in DOMAIN packs : q # p => packs'[q] = packs[q]
    BY <1>1, <2>1, SetRow
  <2> QED BY <2>1, <2>2 DEF PacksGrow, PackRow, FrozenPacks
<1>6. CASE Packs
  BY <1>4, <1>5, <1>6 DEF Packs
<1>7. CASE Running
  BY <1>2, <1>7, RunningWrites
     DEF Succeed, SucceedPlan, SucceedDraft, SucceedExtract, SucceedSummary, SucceedDigest
<1>8. CASE Shuttle
  BY <1>2, <1>8 DEF Shuttle, ImportDraft, ImportExtract, ImportSummary, ImportDigest
<1> QED BY <1>2, <1>6, <1>7, <1>8, RequestsOnly DEF WritingNext

\* A job goes on: what it was asked for stays, and what was given up stays so.
Continues(old, row) ==
  /\ <<row.kind, row.scene, row.from, row.key>> = <<old.kind, old.scene, old.from, old.key>>
  /\ GivenUp(old) => GivenUp(row)
  /\ row.state = "Failed" => row.attempt = 0
  /\ row.state = "Cancelled" => row.stopped
  /\ row.state = "Repair" => row.repaired

Ongoing(j) ==
  \/ \E row \in Request : Continues(requests[j], row) /\ requests' = [requests EXCEPT ![j] = row]
  \/ requests[j].key = NoKey /\ requests' = RemoveAt(requests, j)

LEMMA RunningMoves ==
  ASSUME WritingInv, NEW j \in DOMAIN requests,
         \/ CancelJob(j) \/ Succeed(j) \/ CallAgain(j) \/ Unusable(j) \/ Dies(j)
  PROVE  Ongoing(j)
<1>1. requests[j] \in Request /\ RequestStands(requests[j])
  BY Places DEF WritingInv
<1>2. MaxRetries \in Nat /\ 0 \in 0 .. MaxRetries + 1 /\ 1 \in 0 .. MaxRetries + 1
  BY WritingAssumption
<1>3. ASSUME NEW state \in {"Succeeded", "Failed"}, Settle(j, state), requests[j].attempt > 0
      PROVE  Ongoing(j)
  <2>1. CASE requests[j].key = NoKey
    BY <1>3, <2>1 DEF Settle, Ongoing
  <2>2. CASE requests[j].key # NoKey
    <3>0. [requests[j] EXCEPT !.state = state, !.attempt = 0] \in Request
      BY <1>1, <1>2 DEF Request, JobState
    <3>1. PICK row \in Request : row = [requests[j] EXCEPT !.state = state, !.attempt = 0]
      BY <3>0
    <3>2. requests' = [requests EXCEPT ![j] = row]
      BY <1>1, <1>3, <2>2, <3>1 DEF Settle
    <3>3. Continues(requests[j], row)
      BY <1>1, <1>3, <3>1 DEF Continues, GivenUp, Request
    <3> QED BY <3>2, <3>3 DEF Ongoing
  <2> QED BY <2>1, <2>2
<1>4. CASE CancelJob(j)
  <2>1. PICK row \in Request : row = [requests[j] EXCEPT !.state = "Cancelled", !.stopped = TRUE]
    BY <1>1 DEF Request, JobState
  <2>2. requests' = [requests EXCEPT ![j] = row]
    BY <1>1, <1>4, <2>1 DEF CancelJob
  <2>3. Continues(requests[j], row)
    BY <1>1, <2>1 DEF Continues, GivenUp, Request
  <2> QED BY <2>2, <2>3 DEF Ongoing
<1>5. CASE CallAgain(j)
  <2>1. requests[j].attempt \in 1 .. MaxRetries /\ requests[j].attempt + 1 \in 0 .. MaxRetries + 1
    BY <1>2, <1>5 DEF CallAgain
  <2>2. PICK row \in Request : row = [requests[j] EXCEPT !.attempt = requests[j].attempt + 1]
    BY <1>1, <2>1 DEF Request
  <2>3. requests' = [requests EXCEPT ![j] = row]
    BY <1>1, <1>5, <2>2 DEF CallAgain
  <2>4. requests[j].state # "Failed"
    BY <1>1, <2>1 DEF RequestStands
  <2>5. Continues(requests[j], row)
    BY <1>1, <2>2, <2>4 DEF Continues, GivenUp, Request, RequestStands
  <2> QED BY <2>3, <2>5 DEF Ongoing
<1>6. CASE Dies(j)
  <2>0. [requests[j] EXCEPT !.attempt = 0] \in Request
    BY <1>1, <1>2 DEF Request
  <2>1. PICK row \in Request : row = [requests[j] EXCEPT !.attempt = 0]
    BY <2>0
  <2>2. requests' = [requests EXCEPT ![j] = row]
    BY <1>1, <1>6, <2>1 DEF Dies
  <2>3. Continues(requests[j], row)
    BY <1>1, <2>1 DEF Continues, GivenUp, Request, RequestStands
  <2> QED BY <2>2, <2>3 DEF Ongoing
<1>7. CASE Unusable(j)
  <2>1. CASE requests[j].kind \in CanRepair /\ ~requests[j].repaired
    <3>0. [requests[j] EXCEPT !.state = "Repair", !.repaired = TRUE, !.attempt = 1] \in Request
      BY <1>1, <1>2 DEF Request, JobState
    <3>1. PICK row \in Request :
            row = [requests[j] EXCEPT !.state = "Repair", !.repaired = TRUE, !.attempt = 1]
      BY <3>0
    <3>2. requests' = [requests EXCEPT ![j] = row]
      BY <1>1, <1>7, <2>1, <3>1 DEF Unusable
    <3>3. Continues(requests[j], row)
      BY <1>1, <3>1 DEF Continues, GivenUp, Request
    <3> QED BY <3>2, <3>3 DEF Ongoing
  <2>2. CASE ~(requests[j].kind \in CanRepair /\ ~requests[j].repaired)
    BY <1>3, <1>7, <2>2 DEF Unusable
  <2> QED BY <2>1, <2>2
<1>8. CASE Succeed(j)
  BY <1>3, <1>8 DEF Succeed
<1> QED BY <1>4, <1>5, <1>6, <1>7, <1>8

\* What may be asked for, of a model or of the editor.
Askable(kind, s, from) ==
  /\ kind \in Kind /\ s \in Scene \cup {Chapter} /\ from \in SUBSET Nat
  /\ kind = "digest" \/ s \in Scene
  /\ kind = "plan" => from = {}
  /\ kind = "draft" => from \subseteq FrozenPacks
  /\ kind \in {"extract", "summary"} => \E d \in DOMAIN drafts : from = {d}
  /\ kind = "digest" => OfOneMoment(from)

Arrives ==
  \E row \in Request :
    /\ RequestStands(row)
    /\ ~Reused(row.kind, row.scene, row.from, row.key)
    /\ requests' = Append(requests, row)

LEMMA AskedArrives ==
  ASSUME NEW kind, NEW s, NEW from, NEW key \in AnyKey, NEW state \in {"Running", "Succeeded"},
         Askable(kind, s, from), ~Reused(kind, s, from, key),
         requests' = Append(requests, NewRequest(kind, s, from, key, state))
  PROVE  Arrives
<1>1. 0 \in 0 .. MaxRetries + 1 /\ 1 \in 0 .. MaxRetries + 1
  BY WritingAssumption
<1> DEFINE row == NewRequest(kind, s, from, key, state)
<1>2. /\ row.kind = kind /\ row.scene = s /\ row.from = from /\ row.key = key
      /\ row.state = state
  BY DEF NewRequest
<1>3. row \in Request
  BY <1>1 DEF NewRequest, Request, Askable, AnyKey, JobState
<1> HIDE DEF row
<1>4. RequestStands(row)
  BY <1>2 DEF RequestStands, Askable
<1>5. ~Reused(row.kind, row.scene, row.from, row.key)
  BY <1>2
<1> QED BY <1>3, <1>4, <1>5 DEF Arrives, row

LEMMA ReadOfDraft ==
  ASSUME WritingInv, NEW d \in DOMAIN drafts, NEW kind \in {"extract", "summary"}
  PROVE  Askable(kind, drafts[d].scene, {d})
<1>1. drafts[d].scene \in Scene /\ d \in Nat
  BY Places DEF WritingInv, DraftRow
<1> QED BY <1>1 DEF Askable, Kind

LEMMA ReadOfSources ==
  ASSUME WritingInv, 0 \notin Sources
  PROVE  Askable("digest", Chapter, Sources)
<1>1. OfOneMoment(Sources)
  BY SourcesAreCurrent
<1>2. Sources \in SUBSET Nat
  BY <1>1, Places DEF WritingInv, OfOneMoment
<1> QED BY <1>1, <1>2 DEF Askable, Kind

LEMMA ReadOfPacks ==
  ASSUME WritingInv, NEW s \in Scene, NEW P, P \subseteq FrozenPacks
  PROVE  Askable("draft", s, P)
<1>1. packs \in Seq(PackRow)
  BY DEF WritingInv, WritingTypeOK, PackRow
<1>2. FrozenPacks \subseteq Nat
  BY <1>1, LenProperties DEF FrozenPacks
<1> QED BY <1>2 DEF Askable, Kind

LEMMA RequestsMove ==
  ASSUME WritingInv, WritingNext
  PROVE  UNCHANGED requests \/ Arrives \/ \E j \in DOMAIN requests : Ongoing(j)
<1>1. ASSUME NEW kind, NEW s, NEW from, NEW key \in AnyKey,
             Askable(kind, s, from), Trigger(kind, s, from, key)
      PROVE  Arrives
  BY <1>1, AskedArrives DEF Trigger
<1>2. ASSUME NEW kind, NEW s, NEW from, NEW key \in AnyKey,
             Askable(kind, s, from), Record(kind, s, from, key)
      PROVE  UNCHANGED requests \/ Arrives
  BY <1>2, AskedArrives DEF Record
<1>3. CASE PlanRequests
  <2>1. PICK s \in Scene : Trigger("plan", s, {}, NoKey)
    BY <1>3 DEF PlanRequests, TriggerPlan
  <2>2. Askable("plan", s, {})
    BY DEF Askable, Kind
  <2> QED BY <1>1, <2>1, <2>2 DEF AnyKey
<1>4. CASE DraftRequests
  <2>1. PICK s \in Scene, P \in SUBSET FrozenPacks, key \in AnyKey : Trigger("draft", s, P, key)
    BY <1>4 DEF DraftRequests, TriggerDraft
  <2> QED BY <1>1, <2>1, ReadOfPacks
<1>5. CASE ExtractRequests
  <2>1. PICK d \in DOMAIN drafts, key \in AnyKey : Trigger("extract", drafts[d].scene, {d}, key)
    BY <1>5 DEF ExtractRequests, TriggerExtract
  <2> QED BY <1>1, <2>1, ReadOfDraft
<1>6. ASSUME NEW key \in AnyKey, NEW d \in DOMAIN drafts, TriggerSummary(d, key)
      PROVE  Arrives
  BY <1>1, <1>6, ReadOfDraft DEF TriggerSummary
<1>7. ASSUME NEW key \in AnyKey, TriggerDigest(key)
      PROVE  Arrives
  BY <1>1, <1>7, ReadOfSources DEF TriggerDigest
<1>8. CASE SummaryRequests
  BY <1>6, <1>7, <1>8 DEF SummaryRequests
<1>9. CASE Running
  BY <1>9, RunningMoves DEF Running
<1>10. ASSUME NEW key \in AnyKey, NEW s \in Scene, ImportDraft(s, key)
       PROVE  UNCHANGED requests \/ Arrives
  <2>1. Askable("draft", s, {})
    BY ReadOfPacks
  <2> QED BY <1>2, <1>10, <2>1 DEF ImportDraft
<1>11. ASSUME NEW key \in AnyKey, NEW d \in DOMAIN drafts,
              ImportExtract(d, key) \/ ImportSummary(d, key)
       PROVE  UNCHANGED requests \/ Arrives
  <2>1. Askable("extract", drafts[d].scene, {d}) /\ Askable("summary", drafts[d].scene, {d})
    BY ReadOfDraft
  <2> QED BY <1>2, <1>11, <2>1 DEF ImportExtract, ImportSummary
<1>12. ASSUME NEW key \in AnyKey, ImportDigest(key)
       PROVE  UNCHANGED requests \/ Arrives
  BY <1>2, <1>12, ReadOfSources DEF ImportDigest
<1>13. CASE Shuttle
  BY <1>10, <1>11, <1>12, <1>13 DEF Shuttle
<1>14. CASE Packs
  BY <1>14 DEF Packs
<1> QED BY <1>3, <1>4, <1>5, <1>8, <1>9, <1>13, <1>14 DEF WritingNext

-----------------------------------------------------------------------------
(* Drafts *)

DraftsGrow ==
  /\ drafts' \in Seq(DraftRow)
  /\ DOMAIN drafts \subseteq DOMAIN drafts'
  /\ \A d \in DOMAIN drafts :
       /\ drafts'[d].scene = drafts[d].scene
       /\ drafts[d].status = "Superseded" => drafts'[d].status = "Superseded"
       /\ drafts[d].status = "Extracted" => drafts'[d].status # "Generated"

DraftsKept == DraftsGrow /\ \A d \in DOMAIN drafts' : DraftStands(d)'

OldDrafts(s, retired) == {d \in DraftsOf(s) : drafts[d].status \in retired}

\* Draft n is new, and draft r is retired if there is one.
Replaces(n, r, s) ==
  /\ n \notin DOMAIN drafts
  /\ drafts' \in Seq(DraftRow)
  /\ DOMAIN drafts' = DOMAIN drafts \cup {n}
  /\ drafts'[n].scene = s /\ drafts'[n].status = "Generated" /\ drafts'[n].batches = 0
  /\ \A d \in DOMAIN drafts :
       /\ drafts'[d].scene = drafts[d].scene
       /\ drafts'[d].batches = drafts[d].batches
       /\ drafts'[d].status = IF d = r THEN "Superseded" ELSE drafts[d].status

LEMMA AddDraftRows ==
  ASSUME WritingTypeOK, NEW s \in Scene, NEW P \in SUBSET FrozenPacks, NEW retired,
         AddDraft(s, P, retired)
  PROVE  \E n, r \in Nat :
           /\ n = Len(drafts) + 1 /\ r = Newest(OldDrafts(s, retired))
           /\ Replaces(n, r, s)
<1> DEFINE old == OldDrafts(s, retired)
<1>1. drafts \in Seq(DraftRow) /\ Len(drafts) \in Nat /\ DOMAIN drafts = 1 .. Len(drafts)
  BY Places DEF WritingTypeOK, DraftRow
<1>2. old \subseteq 1 .. Len(drafts)
  BY <1>1 DEF DraftsOf, OldDrafts
<1>3. PICK r \in Nat : r = Newest(old)
  <2> HIDE DEF old
  <2>1. Newest(old) = 0 \/ Newest(old) \in old
    BY <1>1, <1>2, NewestIsGreatest
  <2>2. PICK m : m = Newest(old)
    OBVIOUS
  <2>3. m = 0 \/ m \in 1 .. Len(drafts)
    BY <1>2, <2>1, <2>2
  <2> QED BY <1>1, <2>2, <2>3
<1>4. PICK row \in DraftRow :
        row = [scene |-> s, pack |-> P, status |-> "Generated", batches |-> 0]
  <2>1. 0 \in 0 .. MaxBatches
    BY WritingAssumption
  <2> QED BY <2>1 DEF DraftRow, DraftStatus
<1> DEFINE kept == [d \in DOMAIN drafts |->
                      IF d = r THEN [drafts[d] EXCEPT !.status = "Superseded"] ELSE drafts[d]]
<1>5. drafts' = Append(kept, row)
  BY <1>3, <1>4 DEF AddDraft, OldDrafts
<1>6. ASSUME NEW d \in DOMAIN drafts
      PROVE  /\ kept[d] \in DraftRow
             /\ kept[d].scene = drafts[d].scene /\ kept[d].batches = drafts[d].batches
             /\ kept[d].status = IF d = r THEN "Superseded" ELSE drafts[d].status
  <2>1. drafts[d] \in DraftRow
    BY Places
  <2> QED BY <2>1 DEF DraftRow, DraftStatus
<1>7. kept \in [1 .. Len(drafts) -> DraftRow]
  BY <1>1, <1>6
<1> HIDE DEF kept
<1>8. kept \in Seq(DraftRow) /\ Len(kept) = Len(drafts) /\ DOMAIN kept = DOMAIN drafts
  BY <1>1, <1>7, RowsAreSeq
<1>9. PICK n \in Nat : n = Len(drafts) + 1
  BY <1>1
<1>10. /\ drafts' \in Seq(DraftRow)
       /\ DOMAIN drafts' = DOMAIN drafts \cup {n} /\ n \notin DOMAIN drafts
       /\ drafts'[n] = row
       /\ \A d \in DOMAIN drafts : drafts'[d] = kept[d]
  BY <1>5, <1>8, <1>9, AppendRow
<1>11. /\ row.scene = s /\ row.status = "Generated" /\ row.batches = 0
  BY <1>4
<1> QED BY <1>3, <1>6, <1>9, <1>10, <1>11 DEF Replaces

\* The draft that awaits extraction is the newest of its scene, hence the one
\* that a new draft retires.
LEMMA AddDraftKeeps ==
  ASSUME WritingInv, NEW s \in Scene, NEW P \in SUBSET FrozenPacks,
         NEW retired \in {{"Generated"}, Live}, AddDraft(s, P, retired)
  PROVE  DraftsKept
<1> DEFINE old == OldDrafts(s, retired)
<1>1. PICK n \in Nat, r \in Nat :
        n = Len(drafts) + 1 /\ r = Newest(old) /\ Replaces(n, r, s)
  BY AddDraftRows DEF WritingInv
<1>2. Len(drafts) \in Nat /\ DOMAIN drafts = 1 .. Len(drafts)
  BY Places DEF WritingInv
<1>3. \A d \in DOMAIN drafts : d < n /\ d \in Nat
  BY <1>1, <1>2
<1>4. old \subseteq DOMAIN drafts /\ (old # {} => r \in old /\ \A d \in old : d <= r)
  <2>1. old \subseteq 1 .. Len(drafts)
    BY <1>2 DEF DraftsOf, OldDrafts
  <2> HIDE DEF old
  <2> QED BY <1>1, <1>2, <2>1, NewestIsGreatest
<1>5. "Generated" \in retired
  BY DEF Live
<1>6. ASSUME NEW d \in DOMAIN drafts, drafts[d].scene = s
      PROVE  drafts'[d].status # "Generated"
  <2>1. CASE drafts[d].status = "Generated"
    <3>1. d \in old /\ NewestDraft(d)
      BY <1>5, <1>6, <2>1 DEF DraftsOf, OldDrafts, WritingInv, DraftStands
    <3>2. r \in DOMAIN drafts /\ drafts[r].scene = s /\ d <= r
      BY <1>4, <3>1 DEF DraftsOf, OldDrafts
    <3>3. d = r
      <4>1. r <= d /\ r \in Nat /\ d \in Nat
        BY <1>3, <1>6, <3>1, <3>2 DEF NewestDraft
      <4> QED BY <3>2, <4>1
    <3> QED BY <1>1, <3>3 DEF Replaces
  <2>2. CASE drafts[d].status # "Generated"
    BY <1>1, <2>2 DEF Replaces
  <2> QED BY <2>1, <2>2
<1>7. DraftsGrow
  BY <1>1 DEF DraftsGrow, Replaces
<1>8. DraftStands(n)'
  BY <1>1, <1>2, <1>3 DEF Replaces, DraftStands, NewestDraft, Live
<1>9. ASSUME NEW d \in DOMAIN drafts
      PROVE  DraftStands(d)'
  <2>1. DraftStands(d)
    BY DEF WritingInv
  <2>2. CASE drafts[d].scene = s
    <3>1. ~NewestDraft(d)'
      <4>1. drafts'[d].scene = s /\ drafts'[n].scene = s /\ n \in DOMAIN drafts'
        BY <1>1, <2>2 DEF Replaces
      <4>2. d < n /\ ~(n <= d)
        BY <1>1, <1>3
      <4> QED BY <4>1, <4>2 DEF NewestDraft
    <3>2. drafts'[d].status # "Generated"
      BY <1>6, <2>2
    <3> QED BY <1>1, <2>1, <3>1, <3>2 DEF Replaces, DraftStands
  <2>3. CASE drafts[d].scene # s
    <3>1. d # r
      <4>1. CASE old = {}
        BY <1>1, <1>2, <4>1 DEF Newest
      <4>2. CASE old # {}
        BY <1>4, <2>3, <4>2 DEF DraftsOf, OldDrafts
      <4> QED BY <4>1, <4>2
    <3>2. NewestDraft(d)' <=> NewestDraft(d)
      BY <1>1, <2>3 DEF NewestDraft, Replaces
    <3> QED BY <1>1, <2>1, <3>1, <3>2 DEF Replaces, DraftStands
  <2> QED BY <2>2, <2>3
<1> QED BY <1>1, <1>7, <1>8, <1>9 DEF DraftsKept, Replaces

LEMMA AddBatchKeeps ==
  ASSUME WritingInv, NEW d \in DOMAIN drafts, AddBatch(d)
  PROVE  DraftsKept
<1>1. drafts \in Seq(DraftRow) /\ drafts[d] \in DraftRow /\ MaxBatches \in Nat
  BY Places, WritingAssumption DEF WritingInv, WritingTypeOK, DraftRow
<1> DEFINE status == IF drafts[d].status = "Generated" THEN "Extracted" ELSE drafts[d].status
           batches == drafts[d].batches + 1
<1>2. status \in DraftStatus /\ batches \in 0 .. MaxBatches /\ batches > 0
  BY <1>1 DEF AddBatch, DraftRow, DraftStatus
<1>3. drafts' = [drafts EXCEPT ![d].batches = batches, ![d].status = status]
  BY <1>1 DEF AddBatch, DraftRow
<1> HIDE DEF batches
<1>4. /\ status # "Generated"
      /\ status \in Live <=> drafts[d].status \in Live
      /\ drafts[d].status # "Generated" => status = drafts[d].status
  BY DEF Live
<1> HIDE DEF status
<1>5. PICK row \in DraftRow :
        row = [drafts[d] EXCEPT !.batches = batches, !.status = status]
  BY <1>1, <1>2 DEF DraftRow
<1>6. row.scene = drafts[d].scene /\ row.status = status /\ row.batches = batches
  BY <1>1, <1>5 DEF DraftRow
<1>7. drafts' = [drafts EXCEPT ![d] = row]
  BY <1>1, <1>3, <1>5
<1>8. /\ drafts' \in Seq(DraftRow) /\ DOMAIN drafts' = DOMAIN drafts
      /\ drafts'[d] = row
      /\ \A e \in DOMAIN drafts : e # d => drafts'[e] = drafts[e]
  BY <1>1, <1>7, SetRow
<1>9. DraftsGrow
  BY <1>4, <1>6, <1>8 DEF DraftsGrow
<1>10. ASSUME NEW e \in DOMAIN drafts
       PROVE  DraftStands(e)'
  <2>1. DraftStands(e)
    BY DEF WritingInv
  <2>2. NewestDraft(e)' <=> NewestDraft(e)
    BY <1>6, <1>8 DEF NewestDraft
  <2> QED BY <1>2, <1>4, <1>6, <1>8, <2>1, <2>2 DEF DraftStands
<1> QED BY <1>8, <1>9, <1>10 DEF DraftsKept

LEMMA DraftsStep ==
  ASSUME WritingInv, WritingNext
  PROVE  DraftsKept
<1>1. CASE UNCHANGED drafts
  <2>1. DraftsGrow
    BY <1>1 DEF WritingInv, WritingTypeOK, DraftRow, DraftsGrow
  <2> QED BY <1>1, <2>1 DEF DraftsKept, WritingInv, DraftStands, NewestDraft
<1> QED BY <1>1, DraftsMove, AddDraftKeeps, AddBatchKeeps

-----------------------------------------------------------------------------
(* Summaries *)

SummariesGrow ==
  /\ summaries' \in Seq(SummaryRow)
  /\ DOMAIN summaries \subseteq DOMAIN summaries'
  /\ \A n \in DOMAIN summaries : summaries'[n].scene = summaries[n].scene
  /\ \A n \in DOMAIN summaries, newer \in DOMAIN summaries' \ DOMAIN summaries : n < newer

SummariesKept == SummariesGrow /\ \A n \in DOMAIN summaries' : SummaryStands(n)'

\* The summary that is current is the newest of its scene, so a new one takes
\* its place.
LEMMA AddSummaryKeeps ==
  ASSUME WritingInv, NEW d \in DOMAIN drafts, AddSummary(d)
  PROVE  SummariesKept
<1>1. /\ summaries \in Seq(SummaryRow) /\ Len(summaries) \in Nat
      /\ DOMAIN summaries = 1 .. Len(summaries)
      /\ \A n \in DOMAIN summaries : summaries[n] \in SummaryRow
  BY Places DEF WritingInv, WritingTypeOK, SummaryRow
<1>2. PICK s \in Scene : s = drafts[d].scene
  BY Places DEF WritingInv, DraftRow
<1> DEFINE old == {n \in DOMAIN summaries :
                     summaries[n].scene = s /\ summaries[n].status = "Generated"}
<1>3. PICK r : r = CurrentSummary(s)
  OBVIOUS
<1>4. /\ old = {} => r = 0
      /\ old # {} => r \in old /\ \A n \in old : n <= r
  <2>1. old \subseteq 1 .. Len(summaries) /\ r = Newest(old)
    BY <1>1, <1>3 DEF CurrentSummary
  <2> HIDE DEF old
  <2> QED BY <1>1, <2>1, NewestIsGreatest
<1>5. PICK row \in SummaryRow : row = [scene |-> s, status |-> "Generated", draft |-> d]
  BY DEF SummaryRow, SummaryStatus
<1> DEFINE kept == [n \in DOMAIN summaries |->
                      IF n = r THEN [summaries[n] EXCEPT !.status = "Superseded"]
                      ELSE summaries[n]]
<1>6. summaries' = Append(kept, row)
  BY <1>2, <1>3, <1>5 DEF AddSummary
<1>7. ASSUME NEW n \in DOMAIN summaries
      PROVE  /\ kept[n] \in SummaryRow /\ kept[n].scene = summaries[n].scene
             /\ kept[n].status = IF n = r THEN "Superseded" ELSE summaries[n].status
  BY <1>1 DEF SummaryRow, SummaryStatus
<1>8. kept \in [1 .. Len(summaries) -> SummaryRow]
  BY <1>1, <1>7
<1> HIDE DEF kept
<1>9. kept \in Seq(SummaryRow) /\ Len(kept) = Len(summaries) /\ DOMAIN kept = DOMAIN summaries
  BY <1>1, <1>8, RowsAreSeq
<1>10. PICK m \in Nat : m = Len(summaries) + 1
  BY <1>1
<1>11. /\ summaries' \in Seq(SummaryRow)
       /\ DOMAIN summaries' = DOMAIN summaries \cup {m} /\ m \notin DOMAIN summaries
       /\ summaries'[m] = row
       /\ \A n \in DOMAIN summaries : summaries'[n] = kept[n]
  BY <1>6, <1>9, <1>10, AppendRow
<1>12. \A n \in DOMAIN summaries : n \in Nat /\ n < m
  BY <1>1, <1>10
<1>13. summaries'[m].scene = s /\ summaries'[m].status = "Generated"
  BY <1>5, <1>11
<1>14. SummariesGrow
  BY <1>7, <1>11, <1>12 DEF SummariesGrow
<1>15. SummaryStands(m)'
  BY <1>11, <1>12, <1>13 DEF SummaryStands
<1>16. ASSUME NEW n \in DOMAIN summaries
       PROVE  SummaryStands(n)'
  <2>1. SummaryStands(n)
    BY DEF WritingInv
  <2>2. CASE summaries[n].scene = s
    <3>1. summaries'[n].status # "Generated"
      <4>1. CASE summaries[n].status = "Generated"
        <5>1. n \in old /\ r \in old /\ n <= r
          BY <1>4, <2>2, <4>1
        <5>2. ~(r > n)
          BY <2>1, <4>1, <5>1 DEF SummaryStands
        <5>3. n = r
          BY <1>12, <5>1, <5>2
        <5> QED BY <1>7, <1>11, <5>3
      <4>2. CASE summaries[n].status # "Generated"
        BY <1>7, <1>11, <4>2
      <4> QED BY <4>1, <4>2
    <3>2. m > n /\ m \in DOMAIN summaries' /\ summaries'[m].scene = summaries'[n].scene
      BY <1>7, <1>11, <1>12, <1>13, <2>2
    <3> QED BY <3>1, <3>2 DEF SummaryStands
  <2>3. CASE summaries[n].scene # s
    <3>1. n # r
      <4>1. CASE old = {}
        BY <1>1, <1>4, <4>1
      <4>2. CASE old # {}
        BY <1>4, <2>3, <4>2
      <4> QED BY <4>1, <4>2
    <3>2. summaries'[n].status = summaries[n].status
      BY <1>7, <1>11, <3>1
    <3>3. \A k \in DOMAIN summaries : summaries'[k].scene = summaries[k].scene
      BY <1>7, <1>11
    <3> QED BY <1>11, <1>13, <2>1, <2>3, <3>2, <3>3 DEF SummaryStands
  <2> QED BY <2>2, <2>3
<1> QED BY <1>11, <1>14, <1>15, <1>16 DEF SummariesKept

LEMMA SummariesStep ==
  ASSUME WritingInv, WritingNext
  PROVE  SummariesKept
<1>1. CASE UNCHANGED summaries
  <2>1. SummariesGrow
    BY <1>1 DEF WritingInv, WritingTypeOK, SummaryRow, SummariesGrow
  <2> QED BY <1>1, <2>1 DEF SummariesKept, WritingInv, SummaryStands
<1> QED BY <1>1, SummariesMove, AddSummaryKeeps

\* A summary written later changes nothing for those cited before it.
LEMMA MomentStays ==
  ASSUME WritingInv, SummariesGrow, NEW S, OfOneMoment(S)
  PROVE  OfOneMoment(S)'
<1>1. /\ S \subseteq DOMAIN summaries' /\ S \subseteq DOMAIN summaries
      /\ \A n \in S : summaries'[n].scene = summaries[n].scene
  BY DEF OfOneMoment, SummariesGrow
<1>2. {summaries'[n].scene : n \in S} = {summaries[n].scene : n \in S}
  BY <1>1
<1>3. ASSUME NEW n \in S, NEW m \in S, NEW newer \in DOMAIN summaries',
             n < newer, summaries'[newer].scene = summaries'[n].scene
      PROVE  m < newer
  <2>1. CASE newer \in DOMAIN summaries
    BY <1>1, <1>3, <2>1 DEF OfOneMoment, SummariesGrow
  <2>2. CASE newer \notin DOMAIN summaries
    BY <1>1, <2>2 DEF SummariesGrow
  <2> QED BY <2>1, <2>2
<1>4. {summaries'[n].scene : n \in S} = Scene
  BY <1>2 DEF OfOneMoment
<1> QED BY <1>1, <1>3, <1>4 DEF OfOneMoment

LEMMA DigestsStep ==
  ASSUME WritingInv, WritingNext
  PROVE  /\ digests' \in Seq(DigestRow)
         /\ \A c \in DOMAIN digests' : DigestStands(c)' /\ OfOneMoment(digests[c].of)'
<1>1. SummariesGrow
  BY SummariesStep DEF SummariesKept
<1>2. /\ digests \in Seq(DigestRow) /\ Len(digests) \in Nat /\ DOMAIN digests = 1 .. Len(digests)
      /\ \A c \in DOMAIN digests : digests[c] \in DigestRow
  BY Places DEF WritingInv, WritingTypeOK, DigestRow
<1>3. CASE UNCHANGED digests
  <2>1. ASSUME NEW c \in DOMAIN digests
        PROVE  DigestStands(c)' /\ OfOneMoment(digests[c].of)'
    <3>1. PICK S : S = digests[c].of
      OBVIOUS
    <3>2. OfOneMoment(S) /\ DigestStands(c)
      BY <3>1 DEF WritingInv
    <3>3. OfOneMoment(S)'
      BY <1>1, <3>2, MomentStays
    <3> QED BY <1>3, <3>1, <3>2, <3>3 DEF DigestStands, OfOneMoment
  <2> QED BY <1>2, <1>3, <2>1
<1>4. ASSUME NEW S, OfOneMoment(S), AddDigest(S)
      PROVE  /\ digests' \in Seq(DigestRow)
             /\ \A c \in DOMAIN digests' : DigestStands(c)' /\ OfOneMoment(digests[c].of)'
  <2>1. PICK row \in DigestRow : row = [of |-> S, status |-> "Generated"]
    BY <1>4 DEF DigestRow, SummaryStatus, OfOneMoment
  <2> DEFINE kept == [c \in DOMAIN digests |-> [digests[c] EXCEPT !.status = "Superseded"]]
  <2>2. digests' = Append(kept, row)
    BY <1>4, <2>1 DEF AddDigest
  <2>3. ASSUME NEW c \in DOMAIN digests
        PROVE  /\ kept[c] \in DigestRow /\ kept[c].of = digests[c].of
               /\ kept[c].status = "Superseded"
    BY <1>2 DEF DigestRow, SummaryStatus
  <2>4. kept \in [1 .. Len(digests) -> DigestRow]
    BY <1>2, <2>3
  <2> HIDE DEF kept
  <2>5. kept \in Seq(DigestRow) /\ Len(kept) = Len(digests) /\ DOMAIN kept = DOMAIN digests
    BY <1>2, <2>4, RowsAreSeq
  <2>6. PICK m \in Nat : m = Len(digests) + 1
    BY <1>2
  <2>7. /\ digests' \in Seq(DigestRow) /\ Len(digests') = m
        /\ DOMAIN digests' = DOMAIN digests \cup {m} /\ m \notin DOMAIN digests
        /\ digests'[m] = row
        /\ \A c \in DOMAIN digests : digests'[c] = kept[c]
    BY <2>2, <2>5, <2>6, AppendRow
  <2>8. ASSUME NEW c \in DOMAIN digests
        PROVE  DigestStands(c)' /\ OfOneMoment(digests[c].of)'
    <3>1. PICK Q : Q = digests[c].of
      OBVIOUS
    <3>2. OfOneMoment(Q)
      BY <3>1 DEF WritingInv
    <3>3. OfOneMoment(Q)'
      BY <1>1, <3>2, MomentStays
    <3>4. digests'[c].of = Q /\ digests'[c].status = "Superseded" /\ c # m
      BY <2>3, <2>7, <3>1
    <3> QED BY <2>7, <3>3, <3>4 DEF DigestStands, OfOneMoment
  <2>9. OfOneMoment(S)'
    BY <1>1, <1>4, MomentStays
  <2>10. digests'[m].of = S /\ digests'[m].status = "Generated"
    BY <2>1, <2>7
  <2>11. DigestStands(m)' /\ OfOneMoment(digests[m].of)'
    BY <2>7, <2>9, <2>10 DEF DigestStands, OfOneMoment
  <2> QED BY <2>7, <2>8, <2>11
<1> QED BY <1>3, <1>4, DigestsMove

-----------------------------------------------------------------------------
(* Jobs *)

LEMMA StandsOnward ==
  ASSUME WritingInv, SummariesGrow, DraftsGrow, PacksGrow, NEW row, RequestStands(row)
  PROVE  RequestStands(row)'
<1>1. row.kind = "digest" => OfOneMoment(row.from)'
  <2>1. PICK S : S = row.from
    OBVIOUS
  <2>2. CASE row.kind = "digest"
    <3>1. OfOneMoment(S)'
      BY <2>1, <2>2, MomentStays DEF RequestStands
    <3> QED BY <2>1, <3>1 DEF OfOneMoment
  <2> QED BY <2>2
<1>2. FrozenPacks \subseteq FrozenPacks' /\ DOMAIN drafts \subseteq DOMAIN drafts'
  BY DEF PacksGrow, DraftsGrow
<1> HIDE DEF FrozenPacks, OfOneMoment
<1> QED BY <1>1, <1>2 DEF RequestStands

\* Who asks again finds the newest job of the key given up, hence all of them.
LEMMA AskedAgain ==
  ASSUME WritingInv, NEW row, ~Reused(row.kind, row.scene, row.from, row.key),
         NEW j \in DOMAIN requests, SameJob(requests[j], row)
  PROVE  GivenUp(requests[j])
<1>1. PICK same : same = SameKey(row.kind, row.scene, row.from, row.key)
  OBVIOUS
<1>2. j \in same /\ \A i \in same : SameJob(requests[i], row) /\ i \in DOMAIN requests
  BY <1>1 DEF SameKey, SameJob
<1>3. same \subseteq 1 .. Len(requests) /\ Len(requests) \in Nat
  BY <1>1, Places DEF WritingInv, SameKey
<1>4. PICK m : m = Max(same)
  OBVIOUS
<1>5. m \in same /\ j <= m
  BY <1>2, <1>3, <1>4, MaxIsGreatest
<1>6. requests[m] \in Request /\ RequestStands(requests[m])
  BY <1>2, <1>5, Places DEF WritingInv
<1>7. requests[m].state \notin {"Running", "Succeeded"}
  BY <1>1, <1>2, <1>4 DEF Reused, ReusableStates
<1>8. GivenUp(requests[m])
  BY <1>6, <1>7 DEF GivenUp, RequestStands, Request, JobState
<1>9. CASE j = m
  BY <1>8, <1>9
<1>10. CASE j # m
  <2>1. j < m
    BY <1>2, <1>3, <1>5, <1>10
  <2>2. SameJob(requests[j], requests[m])
    BY <1>2, <1>5 DEF SameJob
  <2> QED BY <1>2, <1>5, <2>1, <2>2 DEF WritingInv, OnlyNewestCounts
<1> QED BY <1>9, <1>10

RequestsKept ==
  /\ requests' \in Seq(Request)
  /\ \A j \in DOMAIN requests' : RequestStands(requests'[j])
  /\ OnlyNewestCounts'

LEMMA ArrivesKeeps ==
  ASSUME WritingInv, Arrives
  PROVE  RequestsKept
<1>1. PICK row \in Request :
        /\ RequestStands(row) /\ ~Reused(row.kind, row.scene, row.from, row.key)
        /\ requests' = Append(requests, row)
  BY DEF Arrives
<1>2. requests \in Seq(Request) /\ Len(requests) \in Nat /\ DOMAIN requests = 1 .. Len(requests)
  BY Places DEF WritingInv, WritingTypeOK
<1>3. PICK n \in Nat : n = Len(requests) + 1
  BY <1>2
<1>4. /\ requests' \in Seq(Request)
      /\ DOMAIN requests' = DOMAIN requests \cup {n} /\ n \notin DOMAIN requests
      /\ requests'[n] = row
      /\ \A j \in DOMAIN requests : requests'[j] = requests[j]
  BY <1>1, <1>2, <1>3, AppendRow
<1>5. \A j \in DOMAIN requests : j \in Nat /\ j < n
  BY <1>2, <1>3
<1>6. ASSUME NEW j \in DOMAIN requests', NEW k \in DOMAIN requests', j < k,
             SameJob(requests'[j], requests'[k])
      PROVE  GivenUp(requests'[j])
  <2>1. j \in DOMAIN requests
    BY <1>3, <1>4, <1>5, <1>6
  <2>2. CASE k = n
    <3>1. SameJob(requests[j], row)
      BY <1>4, <1>6, <2>1, <2>2
    <3>2. GivenUp(requests[j])
      BY <1>1, <2>1, <3>1, AskedAgain
    <3> QED BY <1>4, <2>1, <3>2
  <2>3. CASE k # n
    BY <1>4, <1>6, <2>1, <2>3 DEF WritingInv, OnlyNewestCounts
  <2> QED BY <2>2, <2>3
<1>7. \A j \in DOMAIN requests' : RequestStands(requests'[j])
  BY <1>1, <1>4 DEF WritingInv
<1> HIDE DEF SameJob, GivenUp
<1> QED BY <1>4, <1>6, <1>7 DEF RequestsKept, OnlyNewestCounts, SameJob, GivenUp

LEMMA OngoingKeeps ==
  ASSUME WritingInv, NEW i \in DOMAIN requests, Ongoing(i)
  PROVE  RequestsKept
<1>1. /\ requests \in Seq(Request) /\ DOMAIN requests = 1 .. Len(requests) /\ Len(requests) \in Nat
      /\ RequestStands(requests[i])
  BY Places DEF WritingInv, WritingTypeOK
<1>2. ASSUME NEW row \in Request, Continues(requests[i], row),
             requests' = [requests EXCEPT ![i] = row]
      PROVE  RequestsKept
  <2>1. /\ requests' \in Seq(Request) /\ DOMAIN requests' = DOMAIN requests
        /\ requests'[i] = row
        /\ \A j \in DOMAIN requests : j # i => requests'[j] = requests[j]
    BY <1>1, <1>2, SetRow
  <2>2. RequestStands(row)
    BY <1>1, <1>2 DEF Continues, RequestStands
  <2>3. \A j \in DOMAIN requests' : RequestStands(requests'[j])
    BY <2>1, <2>2 DEF WritingInv
  <2>4. ASSUME NEW j \in DOMAIN requests
        PROVE  /\ GivenUp(requests[j]) => GivenUp(requests'[j])
               /\ <<requests'[j].kind, requests'[j].scene, requests'[j].from, requests'[j].key>>
                    = <<requests[j].kind, requests[j].scene, requests[j].from, requests[j].key>>
    BY <1>2, <2>1 DEF Continues
  <2>5. ASSUME NEW j \in DOMAIN requests, NEW k \in DOMAIN requests, j < k,
               SameJob(requests'[j], requests'[k])
        PROVE  GivenUp(requests'[j])
    <3>1. SameJob(requests[j], requests[k])
      BY <2>4, <2>5 DEF SameJob
    <3> QED BY <2>4, <2>5, <3>1 DEF WritingInv, OnlyNewestCounts
  <2> QED BY <2>1, <2>3, <2>5 DEF RequestsKept, OnlyNewestCounts, SameJob, GivenUp
<1>3. ASSUME requests' = RemoveAt(requests, i)
      PROVE  RequestsKept
  <2>1. /\ requests' \in Seq(Request)
        /\ \A k \in DOMAIN requests' : /\ Shifted(i, k) \in DOMAIN requests
                                       /\ requests'[k] = requests[Shifted(i, k)]
    BY <1>1, <1>3, RemoveRow
  <2>2. \A j \in DOMAIN requests' : RequestStands(requests'[j])
    BY <2>1 DEF WritingInv
  <2>3. DOMAIN requests' = 1 .. Len(requests')
    BY <2>1, LenProperties
  <2>4. ASSUME NEW j \in DOMAIN requests', NEW k \in DOMAIN requests', j < k,
               SameJob(requests'[j], requests'[k])
        PROVE  GivenUp(requests'[j])
    <3>1. Shifted(i, j) < Shifted(i, k)
      BY <1>1, <2>3, <2>4 DEF Shifted
    <3>2. PICK p \in DOMAIN requests, q \in DOMAIN requests :
            p = Shifted(i, j) /\ q = Shifted(i, k)
      BY <2>1
    <3>3. p < q /\ requests'[j] = requests[p] /\ requests'[k] = requests[q]
      BY <2>1, <3>1, <3>2
    <3>4. SameJob(requests[p], requests[q])
      BY <2>4, <3>3
    <3>5. GivenUp(requests[p])
      BY <3>3, <3>4 DEF WritingInv, OnlyNewestCounts
    <3> QED BY <3>3, <3>5
  <2> QED BY <2>1, <2>2, <2>4 DEF RequestsKept, OnlyNewestCounts, SameJob, GivenUp
<1> QED BY <1>2, <1>3 DEF Ongoing

LEMMA RequestsStep ==
  ASSUME WritingInv, WritingNext
  PROVE  RequestsKept
<1>1. CASE UNCHANGED requests
  BY <1>1 DEF RequestsKept, WritingInv, WritingTypeOK, OnlyNewestCounts, SameJob, GivenUp
<1> QED BY <1>1, RequestsMove, ArrivesKeeps, OngoingKeeps

-----------------------------------------------------------------------------
(* The invariant *)

LEMMA WritingInitInv == WritingInit => WritingInv
<1> SUFFICES ASSUME WritingInit PROVE WritingInv
  OBVIOUS
<1>1. \A T : <<>> \in Seq(T)
  OBVIOUS
<1>2. /\ DOMAIN drafts = {} /\ DOMAIN summaries = {} /\ DOMAIN digests = {}
      /\ DOMAIN requests = {}
  BY DEF WritingInit
<1>3. WritingTypeOK
  BY <1>1, <1>2 DEF WritingInit, WritingTypeOK
<1> QED BY <1>2, <1>3 DEF WritingInv, OnlyNewestCounts

LEMMA PlannedStep ==
  ASSUME WritingInv, WritingNext
  PROVE  planned' \subseteq Scene
<1>1. planned \subseteq Scene
  BY DEF WritingInv, WritingTypeOK
<1>2. ASSUME NEW j \in DOMAIN requests, Succeed(j)
      PROVE  planned' \subseteq Scene
  <2>1. requests[j].kind = "plan" => requests[j].scene \in Scene
    BY DEF WritingInv, RequestStands
  <2> QED BY <1>1, <1>2, <2>1
          DEF Succeed, SucceedPlan, SucceedDraft, SucceedExtract, SucceedSummary, SucceedDigest
<1>3. CASE Running
  BY <1>1, <1>2, <1>3, RunningWrites
<1> QED BY <1>1, <1>3, RequestsOnly
        DEF WritingNext, Packs, Shuttle, ImportDraft, ImportExtract, ImportSummary, ImportDigest

LEMMA WritingStepInv ==
  ASSUME WritingInv, WritingNext
  PROVE  WritingInv'
<1>1. /\ PacksGrow /\ DraftsKept /\ SummariesKept /\ RequestsKept
      /\ digests' \in Seq(DigestRow)
      /\ \A c \in DOMAIN digests' : DigestStands(c)' /\ OfOneMoment(digests[c].of)'
  BY PacksMove, DraftsStep, SummariesStep, RequestsStep, DigestsStep DEF WritingInv
<1>2. DraftsGrow /\ SummariesGrow
  BY <1>1 DEF DraftsKept, SummariesKept
<1>3. /\ FrozenPacks \subseteq FrozenPacks'
      /\ DOMAIN drafts \subseteq DOMAIN drafts'
      /\ DOMAIN summaries \subseteq DOMAIN summaries'
  BY <1>1, <1>2 DEF PacksGrow, DraftsGrow, SummariesGrow
<1>4. ASSUME NEW j \in DOMAIN requests'
      PROVE  /\ RequestStands(requests[j])'
             /\ requests'[j].from \subseteq
                  CASE requests'[j].kind = "draft" -> FrozenPacks'
                    [] requests'[j].kind = "digest" -> DOMAIN summaries'
                    [] OTHER -> DOMAIN drafts'
  <2>1. requests' \in Seq(Request) /\ RequestStands(requests'[j])
    BY <1>1 DEF RequestsKept
  <2>2. requests'[j] \in Request
    BY <2>1, RowOf
  <2>3. PICK row \in Request : row = requests'[j]
    BY <2>2
  <2>4. RequestStands(row)'
    BY <1>1, <1>2, <2>1, <2>3, StandsOnward
  <2>5. row.kind \in Kind
    BY DEF Request
  <2>6. RequestStands(requests[j])'
    BY <2>3, <2>4 DEF RequestStands, OfOneMoment
  <2>7. /\ row.kind = "draft" => row.from \subseteq FrozenPacks'
        /\ row.kind = "digest" => row.from \subseteq DOMAIN summaries'
        /\ row.kind \in {"plan", "extract", "summary"} => row.from \subseteq DOMAIN drafts'
    BY <2>4 DEF RequestStands, OfOneMoment
  <2> QED BY <2>3, <2>5, <2>6, <2>7 DEF Kind
<1>5. planned' \subseteq Scene
  BY PlannedStep
<1>6. packs' \in Seq(PackRow')
  <2>1. PackRow \subseteq PackRow' /\ packs' \in Seq(PackRow)
    BY <1>1, <1>3 DEF PackRow, PacksGrow
  <2> QED BY <2>1, SeqMonotonic
<1>7. drafts' \in Seq(DraftRow')
  <2>1. DraftRow \subseteq DraftRow' /\ drafts' \in Seq(DraftRow)
    BY <1>2, <1>3 DEF DraftRow, DraftsGrow
  <2> QED BY <2>1, SeqMonotonic
<1>8. summaries' \in Seq(SummaryRow')
  <2>1. SummaryRow \subseteq SummaryRow' /\ summaries' \in Seq(SummaryRow)
    BY <1>2, <1>3 DEF SummaryRow, SummariesGrow
  <2> QED BY <2>1, SeqMonotonic
<1>9. digests' \in Seq(DigestRow')
  <2>1. DigestRow \subseteq DigestRow' /\ digests' \in Seq(DigestRow)
    BY <1>1, <1>3 DEF DigestRow
  <2> QED BY <2>1, SeqMonotonic
<1>10. requests' \in Seq(Request)
  BY <1>1 DEF RequestsKept
<1>11. WritingTypeOK'
  BY <1>4, <1>5, <1>6, <1>7, <1>8, <1>9, <1>10
     DEF WritingTypeOK, PackRow, DraftRow, SummaryRow, DigestRow
<1>12. /\ \A d \in DOMAIN drafts' : DraftStands(d)'
       /\ \A n \in DOMAIN summaries' : SummaryStands(n)'
       /\ OnlyNewestCounts'
  BY <1>1 DEF DraftsKept, SummariesKept, RequestsKept
<1> QED BY <1>1, <1>4, <1>11, <1>12 DEF WritingInv

LEMMA WritingStutterInv ==
  ASSUME WritingInv, UNCHANGED writingVars
  PROVE  WritingInv'
<1>1. UNCHANGED <<planned, packs, requests, drafts, summaries, digests>>
  BY DEF writingVars
<1>2. WritingTypeOK'
  BY <1>1 DEF WritingInv, WritingTypeOK, FrozenPacks
<1>3. /\ \A d \in DOMAIN drafts' : DraftStands(d)'
      /\ \A n \in DOMAIN summaries' : SummaryStands(n)'
  BY <1>1 DEF WritingInv, DraftStands, NewestDraft, SummaryStands
<1>4. ASSUME NEW c \in DOMAIN digests'
      PROVE  DigestStands(c)' /\ OfOneMoment(digests[c].of)'
  BY <1>1 DEF WritingInv, DigestStands, OfOneMoment
<1>5. ASSUME NEW j \in DOMAIN requests'
      PROVE  RequestStands(requests[j])'
  BY <1>1 DEF WritingInv, RequestStands, OfOneMoment, FrozenPacks
<1>6. OnlyNewestCounts'
  BY <1>1 DEF WritingInv, OnlyNewestCounts, SameJob, GivenUp
<1> QED BY <1>2, <1>3, <1>4, <1>5, <1>6 DEF WritingInv

LEMMA WritingInvariant == WritingSpec => []WritingInv
<1>1. WritingInit => WritingInv
  BY WritingInitInv
<1>2. WritingInv /\ [WritingNext]_writingVars => WritingInv'
  BY WritingStepInv, WritingStutterInv
<1> QED BY <1>1, <1>2, PTL DEF WritingSpec

-----------------------------------------------------------------------------
(* Theorems *)

\* A job reads what there is: frozen packs for a draft, drafts for candidates
\* and summaries, scene summaries for one of the chapter; and what it has
\* written points at what it read.
THEOREM WritingTypeCorrect == WritingSpec => []WritingTypeOK
<1>1. WritingInv => WritingTypeOK
  BY DEF WritingInv
<1> QED BY <1>1, WritingInvariant, PTL

LEMMA NewestDraftIsMax ==
  ASSUME WritingInv, NEW d \in DOMAIN drafts, NewestDraft(d)
  PROVE  d = Max(DraftsOf(drafts[d].scene))
<1>1. /\ Len(drafts) \in Nat /\ DOMAIN drafts = 1 .. Len(drafts)
  BY Places DEF WritingInv
<1>2. PICK S : S = DraftsOf(drafts[d].scene)
  OBVIOUS
<1>3. d \in S /\ S \subseteq 1 .. Len(drafts) /\ \A e \in S : e <= d
  BY <1>1, <1>2 DEF DraftsOf, NewestDraft
<1>4. Max(S) \in S /\ \A e \in S : e <= Max(S)
  BY <1>1, <1>3, MaxIsGreatest
<1>5. PICK m \in S : m = Max(S)
  BY <1>4
<1>6. m <= d /\ d <= m /\ m \in Int /\ d \in Int
  BY <1>1, <1>3, <1>4, <1>5
<1> QED BY <1>2, <1>5, <1>6

\* However the model's answers and the editor's pastes overlap, each scene has
\* one current draft, the newest, and one current summary, the newest: whoever
\* writes one marks the previous as superseded in the same step.
THEOREM OneIsCurrent == WritingSpec => []OneCurrentEach
<1>1. WritingInv => OneCurrentEach
  <2> SUFFICES ASSUME WritingInv PROVE OneCurrentEach
    OBVIOUS
  <2>1. /\ Len(drafts) \in Nat /\ DOMAIN drafts = 1 .. Len(drafts)
    BY Places DEF WritingInv
  <2>2. ASSUME NEW s \in Scene, DraftsOf(s) # {}
        PROVE  Max(DraftsOf(s)) \in LiveDrafts(s)
    <3>1. PICK S : S = DraftsOf(s)
      OBVIOUS
    <3>2. S \subseteq 1 .. Len(drafts) /\ S # {}
      BY <2>1, <2>2, <3>1 DEF DraftsOf
    <3>3. PICK m \in S : m = Max(S) /\ \A e \in S : e <= m
      BY <2>1, <3>2, MaxIsGreatest
    <3>4. m \in DOMAIN drafts /\ drafts[m].scene = s /\ NewestDraft(m)
      BY <3>1, <3>3 DEF DraftsOf, NewestDraft
    <3>5. drafts[m].status \in Live
      BY <3>4 DEF WritingInv, DraftStands
    <3> QED BY <3>1, <3>3, <3>5 DEF LiveDrafts
  <2>3. ASSUME NEW d \in DOMAIN drafts
        PROVE  /\ drafts[d].status = "Generated" =>
                    d = Max(DraftsOf(drafts[d].scene)) /\ drafts[d].batches = 0
               /\ drafts[d].status = "Extracted" => drafts[d].batches > 0
    BY NewestDraftIsMax DEF WritingInv, DraftStands
  <2> QED BY <2>2, <2>3 DEF OneCurrentEach, WritingInv, SummaryStands, DigestStands
<1> QED BY <1>1, WritingInvariant, PTL

\* A job that ended well is found again by its key, so a second result for the
\* key needs the first job to have been cancelled, or to have been under repair
\* (find_job_by_idempotency_key and the reusable states of the job services).
THEOREM KeysPayOnce == WritingSpec => []KeyPaysOnce
<1>1. WritingInv => KeyPaysOnce
  <2> SUFFICES ASSUME WritingInv, NEW j \in DOMAIN requests, NEW k \in DOMAIN requests, j < k,
                      k \in SameKey(requests[j].kind, requests[j].scene,
                                    requests[j].from, requests[j].key),
                      {requests[j].state, requests[k].state} = {"Succeeded"}
               PROVE  requests[j].stopped \/ requests[j].repaired
    BY DEF KeyPaysOnce
  <2>1. SameJob(requests[j], requests[k])
    BY DEF SameKey, SameJob
  <2>2. GivenUp(requests[j])
    BY <2>1 DEF WritingInv, OnlyNewestCounts
  <2>3. requests[j].state = "Succeeded"
    OBVIOUS
  <2> QED BY <2>2, <2>3 DEF GivenUp
<1> QED BY <1>1, WritingInvariant, PTL

\* The summaries of a chapter's scenes that a chapter summary is made of were all
\* current at one moment, however long the model took over it: they are fixed
\* when the job is triggered.
THEOREM SourcesShareAMoment == WritingSpec => []SourcesOfOneMoment
<1>1. WritingInv => SourcesOfOneMoment
  BY DEF WritingInv, OfOneMoment, SourcesOfOneMoment
<1> QED BY <1>1, WritingInvariant, PTL

\* No answer that comes late brings a replaced draft back, nor makes one whose
\* candidates were taken await extraction again: the extraction looks at the
\* status the draft has by then.
THEOREM SupersededStays == WritingSpec => SupersededForGood
<1> DEFINE Stays == \A d \in DOMAIN drafts :
                      /\ drafts[d].status = "Superseded" => drafts'[d].status = "Superseded"
                      /\ drafts[d].status = "Extracted" => drafts'[d].status # "Generated"
<1>1. WritingInv /\ [WritingNext]_writingVars => [Stays]_writingVars
  BY DraftsStep DEF DraftsKept, DraftsGrow
<1> QED BY <1>1, WritingInvariant, PTL DEF WritingSpec, SupersededForGood

=============================================================================
