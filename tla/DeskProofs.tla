----------------------------- MODULE DeskProofs -----------------------------
(***************************************************************************)
(* What is settled before a scene is written, for any number of revisions, *)
(* scenes and places: Authoring (RevsInv: lineages are of one kind, and in *)
(* each at most one revision is in force, to which the replaced ones lead) *)
(* and SceneCards (CardsInv: no place twice, no scene waiting for itself). *)
(***************************************************************************)
EXTENDS Authoring, SceneCards, FiniteSetTheorems, SequenceTheorems, TLAPS

-----------------------------------------------------------------------------
(* The inductive invariant of Authoring *)

Status == OutlineStatus \cup GuideStatus \cup SampleStatus

RevRow ==
  {row \in [kind: {"outline", "guide", "sample"}, status: Status, lineage: Nat, text: Text, by: Nat] :
     [kind |-> row.kind, status |-> row.status] \in Revision}

CheckRow ==
  [guide: {NoDoc} \cup DOMAIN revs, samples: SUBSET DOMAIN revs, status: CheckStatus, busy: BOOLEAN]

SameLineage(r, q) == revs[r].lineage = revs[q].lineage

\* A lineage begins with a revision of its own kind, and there is one of outlines.
LineagesOfOneKind ==
  /\ \A r \in DOMAIN revs :
       /\ revs[r].lineage \in 1 .. r
       /\ revs[revs[r].lineage].kind = revs[r].kind
  /\ \A r, q \in Of("outline") : SameLineage(r, q)

OneInForce ==
  \A r, q \in DOMAIN revs :
    SameLineage(r, q) /\ {revs[r].status, revs[q].status} \subseteq InForce => r = q

\* Whoever has been replaced is linked to what was, or is, in force, and something is.
ReplacedByForce ==
  \A r \in DOMAIN revs : revs[r].status = "Superseded" =>
    /\ \E q \in DOMAIN revs : SameLineage(q, r) /\ revs[q].status \in InForce
    /\ revs[r].by \in DOMAIN revs /\ SameLineage(revs[r].by, r)
    /\ revs[revs[r].by].status \in InForce \cup {"Superseded"}

OneStyleDraft ==
  \A r, q \in DOMAIN revs :
    SameLineage(r, q) /\ revs[r].kind # "outline" /\ {revs[r].status, revs[q].status} = {"Draft"}
      => r = q

RevsInv ==
  /\ AuthoringTypeOK
  /\ revs \in Seq(RevRow)
  /\ styled \in [guide: Nat, samples: SUBSET Nat]
  /\ LineagesOfOneKind
  /\ OneInForce
  /\ ReplacedByForce
  /\ OneStyleDraft

-----------------------------------------------------------------------------
(* Lists of rows, and the least of a set of places *)

LEMMA RowOf ==
  ASSUME NEW T, NEW rows \in Seq(T), NEW i \in DOMAIN rows
  PROVE  rows[i] \in T
  BY LenProperties, ElementOfSeq

LEMMA RowsAreSeq ==
  ASSUME NEW T, NEW n \in Nat, NEW rows \in [1 .. n -> T]
  PROVE  rows \in Seq(T) /\ Len(rows) = n
<1>1. rows \in Seq(T)
  BY SeqDef
<1> QED BY <1>1, LenProperties

LEMMA AppendRow ==
  ASSUME NEW T, NEW rows \in Seq(T), NEW row \in T
  PROVE  /\ Append(rows, row) \in Seq(T)
         /\ Len(Append(rows, row)) = Len(rows) + 1
         /\ DOMAIN Append(rows, row) = DOMAIN rows \cup {Len(rows) + 1}
         /\ Len(rows) + 1 \notin DOMAIN rows
         /\ Append(rows, row)[Len(rows) + 1] = row
         /\ \A i \in DOMAIN rows : Append(rows, row)[i] = rows[i]
<1>1. Len(rows) \in Nat /\ DOMAIN rows = 1 .. Len(rows)
  BY LenProperties
<1>2. /\ Append(rows, row) \in Seq(T)
      /\ Len(Append(rows, row)) = Len(rows) + 1
      /\ Append(rows, row)[Len(rows) + 1] = row
      /\ \A i \in 1 .. Len(rows) : Append(rows, row)[i] = rows[i]
  BY AppendProperties
<1>3. DOMAIN Append(rows, row) = 1 .. Len(rows) + 1
  BY <1>2, LenProperties
<1> QED BY <1>1, <1>2, <1>3

LEMMA SetRow ==
  ASSUME NEW T, NEW rows \in Seq(T), NEW i \in DOMAIN rows, NEW row \in T
  PROVE  /\ [rows EXCEPT ![i] = row] \in Seq(T)
         /\ Len([rows EXCEPT ![i] = row]) = Len(rows)
         /\ DOMAIN [rows EXCEPT ![i] = row] = DOMAIN rows
         /\ [rows EXCEPT ![i] = row][i] = row
         /\ \A j \in DOMAIN rows : j # i => [rows EXCEPT ![i] = row][j] = rows[j]
<1>1. DOMAIN rows = 1 .. Len(rows)
  BY LenProperties
<1> QED BY <1>1, ExceptSeq

LEMMA LeastNat ==
  ASSUME NEW T, T \subseteq Nat, T # {}
  PROVE  \E x \in T : \A y \in T : x <= y
<1> DEFINE Upto == {0 .. n : n \in T}
<1>1. IsWellFoundedOn(StrictSubsetOrdering(Nat), FiniteSubsetsOf(Nat))
  BY FS_StrictSubsetOrderingWellFounded
<1>2. \A n \in T : 0 .. n \in FiniteSubsetsOf(Nat)
  BY FS_Interval DEF FiniteSubsetsOf
<1>3. Upto \subseteq FiniteSubsetsOf(Nat) /\ Upto # {}
  BY <1>2
<1>4. PICK X \in Upto : \A Y \in Upto : ~(<<Y, X>> \in StrictSubsetOrdering(Nat))
  BY <1>1, <1>3, WFMin
<1>5. PICK x \in T : X = 0 .. x
  BY <1>4
<1>6. ASSUME NEW y \in T
      PROVE  x <= y
  <2>1. 0 .. y \in SUBSET Nat /\ 0 .. x \in SUBSET Nat /\ 0 .. y \in Upto
    OBVIOUS
  <2>2. ~(0 .. y \subseteq 0 .. x /\ 0 .. y # 0 .. x)
    BY <1>4, <1>5, <2>1 DEF StrictSubsetOrdering
  <2>3. CASE y < x
    <3>1. x \in Nat /\ y \in Nat /\ x \notin 0 .. y /\ x \in 0 .. x /\ 0 .. y \subseteq 0 .. x
      BY <2>3
    <3> QED BY <2>2, <3>1
  <2> QED BY <2>3
<1> QED BY <1>6

LEMMA MinIsLeast ==
  ASSUME NEW S, S \subseteq Nat, S # {}
  PROVE  Min(S) \in S /\ \A x \in S : Min(S) <= x
<1>1. \E x \in S : \A y \in S : x <= y
  BY LeastNat
<1> QED BY <1>1 DEF Min

LEMMA AtMostOne ==
  ASSUME NEW S, \A x, y \in S : x = y
  PROVE  Cardinality(S) <= 1
<1>1. CASE S = {}
  BY <1>1, FS_EmptySet
<1>2. ASSUME NEW x \in S
      PROVE  Cardinality(S) <= 1
  <2>1. S = {x}
    BY <1>2
  <2> QED BY <2>1, FS_Singleton
<1> QED BY <1>1, <1>2

-----------------------------------------------------------------------------
(* What a request does to the revisions *)

Settled == InForce \cup {"Superseded"}

ForceOf(kind) ==
  CASE kind = "outline" -> "Confirmed" [] kind = "guide" -> "Approved" [] OTHER -> "Authorized"

LEMMA RowFits ==
  ASSUME NEW row \in RevRow
  PROVE  /\ row.kind \in {"outline", "guide", "sample"} /\ row.status \in Status
         /\ row.lineage \in Nat /\ row.text \in Text /\ row.by \in Nat
         /\ row.status \in InForce => row.status = ForceOf(row.kind)
BY DEF RevRow, Revision, OutlineStatus, GuideStatus, SampleStatus, InForce, ForceOf

LEMMA RowMade ==
  ASSUME NEW kind, NEW status, NEW lineage \in Nat, NEW text \in Text, NEW by \in Nat,
         \/ kind = "outline" /\ status \in OutlineStatus
         \/ kind = "guide" /\ status \in GuideStatus
         \/ kind = "sample" /\ status \in SampleStatus
  PROVE  [kind |-> kind, status |-> status, lineage |-> lineage, text |-> text, by |-> by] \in RevRow
BY DEF RevRow, Revision, Status

LEMMA Places ==
  ASSUME RevsInv
  PROVE  /\ revs \in Seq(RevRow) /\ Len(revs) \in Nat /\ DOMAIN revs = 1 .. Len(revs)
         /\ \A r \in DOMAIN revs : revs[r] \in RevRow /\ r \in Nat
         /\ \A r \in DOMAIN revs : revs[r].lineage \in DOMAIN revs
         /\ NoDoc \notin DOMAIN revs
<1>1. revs \in Seq(RevRow)
  BY DEF RevsInv
<1>2. Len(revs) \in Nat /\ DOMAIN revs = 1 .. Len(revs) /\ \A r \in DOMAIN revs : revs[r] \in RevRow
  BY <1>1, LenProperties, RowOf
<1> QED BY <1>1, <1>2 DEF RevsInv, LineagesOfOneKind, NoDoc

\* A new revision; a new draft of a guide or sample finds no other in its lineage.
Arrives(row) ==
  /\ row \in RevRow /\ row.status \notin Settled /\ row.by = NoDoc
  /\ \/ row.lineage = Len(revs) + 1
     \/ row.lineage \in DOMAIN revs /\ revs[row.lineage].kind = row.kind
  /\ row.kind = "outline" => \A q \in Of("outline") : revs[q].lineage = row.lineage
  /\ row.kind # "outline" /\ row.status = "Draft" =>
       \A q \in DOMAIN revs : revs[q].lineage = row.lineage => revs[q].status # "Draft"
  /\ Add(row)

\* A revision that has not been in force gets another text or status.
Rewrites(r, row) ==
  /\ row \in RevRow
  /\ row.kind = revs[r].kind /\ row.lineage = revs[r].lineage /\ row.by = revs[r].by
  /\ revs[r].status \notin Settled /\ row.status \notin Settled
  /\ row.kind # "outline" /\ row.status = "Draft" => revs[r].status = "Draft"
  /\ revs' = [revs EXCEPT ![r] = row]

Enacts(r) == revs[r].status \notin Settled /\ Enact(r, ForceOf(revs[r].kind))

RevsMove ==
  \/ UNCHANGED revs
  \/ \E row \in RevRow : Arrives(row)
  \/ \E r \in DOMAIN revs : Enacts(r) \/ \E row \in RevRow : Rewrites(r, row)

LEMMA StatusRewrites ==
  ASSUME RevsInv, NEW r \in DOMAIN revs, NEW status, SetStatus(r, status),
         revs[r].status \notin Settled, status \notin Settled,
         revs[r].kind = "outline" => status \in OutlineStatus,
         revs[r].kind # "outline" => status \in {"Failed", "Cancelled"}
  PROVE  RevsMove
<1>1. PICK old \in RevRow : old = revs[r]
  BY Places
<1>2. PICK row : row = [old EXCEPT !.status = status]
  OBVIOUS
<1>3. row = [kind |-> old.kind, status |-> status, lineage |-> old.lineage,
             text |-> old.text, by |-> old.by]
  BY <1>2 DEF RevRow
<1>4. row \in RevRow
  <2>1. \/ old.kind = "outline" /\ status \in OutlineStatus
        \/ old.kind = "guide" /\ status \in GuideStatus
        \/ old.kind = "sample" /\ status \in SampleStatus
    BY <1>1, RowFits DEF GuideStatus, SampleStatus
  <2> QED BY <1>3, <2>1, RowFits, RowMade
<1>5. Rewrites(r, row)
  BY <1>1, <1>2, <1>3, <1>4 DEF Rewrites, SetStatus
<1> QED BY <1>4, <1>5 DEF RevsMove

LEMMA TextRewrites ==
  ASSUME RevsInv, NEW r \in DOMAIN revs, NEW text \in Text, revs' = [revs EXCEPT ![r].text = text],
         revs[r].status \notin Settled
  PROVE  RevsMove
<1>1. PICK old \in RevRow : old = revs[r]
  BY Places
<1>2. PICK row : row = [old EXCEPT !.text = text]
  OBVIOUS
<1>3. row = [kind |-> old.kind, status |-> old.status, lineage |-> old.lineage,
             text |-> text, by |-> old.by]
  BY <1>2 DEF RevRow
<1>4. row \in RevRow
  BY <1>3 DEF RevRow
<1>5. Rewrites(r, row)
  BY <1>1, <1>2, <1>3, <1>4 DEF Rewrites
<1> QED BY <1>4, <1>5 DEF RevsMove

LEMMA NewArrives ==
  ASSUME RevsInv, NEW kind, NEW status, NEW lineage \in Nat, NEW text \in Text,
         Add(NewRev(kind, lineage, status, text)), status \notin Settled,
         \/ kind = "outline" /\ status \in OutlineStatus
         \/ kind = "guide" /\ status \in GuideStatus
         \/ kind = "sample" /\ status \in SampleStatus,
         \/ lineage = Len(revs) + 1
         \/ lineage \in DOMAIN revs /\ revs[lineage].kind = kind,
         kind = "outline" => \A q \in Of("outline") : revs[q].lineage = lineage,
         kind # "outline" /\ status = "Draft" =>
           \A q \in DOMAIN revs : revs[q].lineage = lineage => revs[q].status # "Draft"
  PROVE  RevsMove
<1>1. PICK row : row = NewRev(kind, lineage, status, text)
  OBVIOUS
<1>2. /\ row \in RevRow
      /\ row.kind = kind /\ row.status = status /\ row.lineage = lineage /\ row.by = NoDoc
  BY <1>1, RowMade DEF NewRev, NoDoc
<1>3. Arrives(row)
  BY <1>1, <1>2 DEF Arrives
<1> QED BY <1>2, <1>3 DEF RevsMove

LEMMA OutlineRoot ==
  ASSUME RevsInv, NEW r \in Of("outline")
  PROVE  Min({Len(revs) + 1} \cup Of("outline")) = revs[r].lineage
<1>1. PICK n, O : n = Len(revs) + 1 /\ O = Of("outline") /\ n \in Nat
  BY Places
<1>2. O \subseteq DOMAIN revs /\ r \in O /\ \A q \in O : q \in Nat /\ q < n
  BY <1>1, Places DEF Of
<1>3. PICK S : S = {n} \cup O
  OBVIOUS
<1>4. S \subseteq Nat /\ S # {} /\ r \in S
  BY <1>1, <1>2, <1>3
<1>5. PICK m \in S : m = Min(S) /\ \A x \in S : m <= x
  BY <1>4, MinIsLeast
<1>6. m \in O
  <2>1. m <= r /\ r < n /\ m \in Nat /\ r \in Nat
    BY <1>2, <1>4, <1>5
  <2>2. m # n
    BY <2>1
  <2> QED BY <1>3, <2>2
<1>7. PICK l : l = revs[m].lineage
  OBVIOUS
<1>8. l \in 1 .. m /\ l \in O
  <2>1. l \in 1 .. m /\ revs[l].kind = "outline" /\ l \in DOMAIN revs
    BY <1>1, <1>2, <1>6, <1>7, Places DEF RevsInv, LineagesOfOneKind, Of
  <2> QED BY <1>1, <2>1 DEF Of
<1>9. l = m
  <2>1. m <= l /\ l <= m /\ l \in Nat /\ m \in Nat
    BY <1>2, <1>3, <1>5, <1>6, <1>8
  <2> QED BY <2>1
<1>10. revs[r].lineage = l
  BY <1>1, <1>2, <1>6, <1>7 DEF RevsInv, LineagesOfOneKind, SameLineage
<1> QED BY <1>1, <1>3, <1>5, <1>9, <1>10

LEMMA OutlineMoves ==
  ASSUME RevsInv, Outline
  PROVE  RevsMove
<1>1. ASSUME NEW text \in Text, NEW fails \in BOOLEAN, CreateOutline(text, fails)
      PROVE  RevsMove
  <2>1. PICK status \in {"Failed", "Drafting"} : status = IF fails THEN "Failed" ELSE "Drafting"
    OBVIOUS
  <2>2. PICK l : l = Min({Len(revs) + 1} \cup Of("outline"))
    OBVIOUS
  <2>3. Add(NewRev("outline", l, status, text))
    BY <1>1, <2>1, <2>2 DEF CreateOutline
  <2>4. /\ l \in Nat
        /\ l = Len(revs) + 1 \/ (l \in DOMAIN revs /\ revs[l].kind = "outline")
        /\ \A q \in Of("outline") : revs[q].lineage = l
    <3>1. CASE Of("outline") = {}
      <4>1. {Len(revs) + 1} \cup Of("outline") = {Len(revs) + 1} /\ Len(revs) + 1 \in Nat
        BY <3>1, Places
      <4>2. l = Len(revs) + 1
        BY <2>2, <4>1, MinIsLeast
      <4> QED BY <3>1, <4>1, <4>2
    <3>2. ASSUME NEW r \in Of("outline")
          PROVE  l \in DOMAIN revs /\ revs[l].kind = "outline" /\ revs[r].lineage = l /\ l \in Nat
      <4>1. l = revs[r].lineage
        BY <2>2, OutlineRoot
      <4> QED BY <4>1, Places DEF RevsInv, LineagesOfOneKind, Of
    <3> QED BY <3>1, <3>2
  <2>5. status \in OutlineStatus /\ status \notin Settled
    BY DEF OutlineStatus, Settled, InForce
  <2> QED BY <2>3, <2>4, <2>5, NewArrives
<1>2. ASSUME NEW r \in Of("outline"), NEW text \in Text, ReviseOutline(r, text)
      PROVE  RevsMove
  <2>1. /\ r \in DOMAIN revs /\ revs[r].kind = "outline"
        /\ revs[r].lineage \in DOMAIN revs /\ revs[r].lineage \in Nat
        /\ revs[revs[r].lineage].kind = "outline"
    BY Places DEF RevsInv, LineagesOfOneKind, Of
  <2>2. \A q \in Of("outline") : revs[q].lineage = revs[r].lineage
    BY DEF RevsInv, LineagesOfOneKind, SameLineage
  <2>3. "Revising" \in OutlineStatus \ Settled
    BY DEF OutlineStatus, Settled, InForce
  <2>4. Add(NewRev("outline", revs[r].lineage, "Revising", text))
    BY <1>2 DEF ReviseOutline
  <2> QED BY <2>1, <2>2, <2>3, <2>4, NewArrives
<1>3. ASSUME NEW r \in Of("outline"), NEW status \in OutlineStatus \ Settled, SetStatus(r, status),
             revs[r].status \notin Settled
      PROVE  RevsMove
  BY <1>3, StatusRewrites DEF Of
<1>4. ASSUME NEW r \in Of("outline"), NEW text \in Text, NEW fails \in BOOLEAN,
             PatchOutline(r, text, fails)
      PROVE  RevsMove
  <2>1. r \in DOMAIN revs /\ revs[r].status \notin Settled /\ "Failed" \in OutlineStatus \ Settled
    BY <1>4 DEF PatchOutline, OutlineEditable, Settled, InForce, OutlineStatus, Of
  <2> QED BY <1>3, <1>4, <2>1, TextRewrites DEF PatchOutline
<1>5. ASSUME NEW r \in Of("outline"), Confirm(r)
      PROVE  RevsMove
  BY <1>5 DEF Confirm, Of, RevsMove, Enacts, ForceOf, Settled, InForce
<1>6. ASSUME NEW r \in Of("outline"),
             Propose(r) \/ CancelOutline(r) \/ FailOutline(r) \/ Rework(r) \/ Resume(r)
      PROVE  RevsMove
  <2>1. /\ revs[r].status \notin Settled
        /\ \E status \in OutlineStatus \ Settled : SetStatus(r, status)
    BY <1>6 DEF Propose, CancelOutline, FailOutline, Rework, Resume, OutlineEditable,
                OutlineInFlight, OutlineStatus, Settled, InForce
  <2> QED BY <1>3, <2>1
<1> QED BY <1>1, <1>2, <1>4, <1>5, <1>6 DEF Outline

LEMMA StyleMoves ==
  ASSUME RevsInv, Guides \/ Samples
  PROVE  RevsMove
<1>1. ASSUME NEW kind \in {"guide", "sample"}, NEW text \in Text, NEW fails \in BOOLEAN,
             CreateStyle(kind, text, fails)
      PROVE  RevsMove
  <2>1. PICK status \in {"Failed", "Draft"} : status = IF fails THEN "Failed" ELSE "Draft"
    OBVIOUS
  <2>2. PICK l \in Nat : l = Len(revs) + 1
    BY Places
  <2>3. \A q \in DOMAIN revs : revs[q].lineage # l
    BY <2>2, Places
  <2>4. status \in GuideStatus /\ status \in SampleStatus /\ status \notin Settled
    BY DEF GuideStatus, SampleStatus, Settled, InForce
  <2>5. Add(NewRev(kind, l, status, text))
    BY <1>1, <2>1, <2>2 DEF CreateStyle
  <2> QED BY <2>2, <2>3, <2>4, <2>5, NewArrives
<1>2. ASSUME NEW kind \in {"guide", "sample"}, NEW r \in Of(kind), NEW text \in Text,
             ReviseStyle(r, ForceOf(kind), text)
      PROVE  RevsMove
  <2>1. /\ r \in DOMAIN revs /\ revs[r].kind = kind
        /\ revs[r].lineage \in DOMAIN revs /\ revs[r].lineage \in Nat
        /\ revs[revs[r].lineage].kind = kind
    BY Places DEF RevsInv, LineagesOfOneKind, Of
  <2>2. \A q \in DOMAIN revs : revs[q].lineage = revs[r].lineage => revs[q].status # "Draft"
    BY <1>2 DEF ReviseStyle, Lineage
  <2>3. "Draft" \in GuideStatus /\ "Draft" \in SampleStatus /\ "Draft" \notin Settled
    BY DEF GuideStatus, SampleStatus, Settled, InForce
  <2>4. Add(NewRev(kind, revs[r].lineage, "Draft", text))
    BY <1>2, <2>1 DEF ReviseStyle
  <2> QED BY <2>1, <2>2, <2>3, <2>4, NewArrives
<1>3. ASSUME NEW kind \in {"guide", "sample"}, NEW r \in Of(kind), NEW text \in Text,
             NEW fails \in BOOLEAN, PatchStyle(r, text, fails)
      PROVE  RevsMove
  <2>1. /\ r \in DOMAIN revs /\ revs[r].kind # "outline" /\ revs[r].status \notin Settled
        /\ "Failed" \notin Settled
    BY <1>3 DEF PatchStyle, Settled, InForce, Of
  <2> QED BY <1>3, <2>1, TextRewrites, StatusRewrites DEF PatchStyle
<1>4. ASSUME NEW kind \in {"guide", "sample"}, NEW r \in Of(kind), EnactStyle(r, ForceOf(kind))
      PROVE  RevsMove
  BY <1>4 DEF EnactStyle, Of, RevsMove, Enacts, Settled, InForce
<1>5. ASSUME NEW kind \in {"guide", "sample"}, NEW r \in Of(kind), CancelStyle(r) \/ FailStyle(r)
      PROVE  RevsMove
  <2>1. /\ r \in DOMAIN revs /\ revs[r].kind # "outline" /\ revs[r].status \notin Settled
        /\ {"Failed", "Cancelled"} \cap Settled = {}
        /\ \E status \in {"Failed", "Cancelled"} : SetStatus(r, status)
    BY <1>5 DEF CancelStyle, FailStyle, Settled, InForce, Of
  <2> QED BY <2>1, StatusRewrites
<1>6. ForceOf("guide") = "Approved" /\ ForceOf("sample") = "Authorized"
  BY DEF ForceOf
<1>7. CASE Guides
  BY <1>1, <1>2, <1>3, <1>4, <1>5, <1>6, <1>7
     DEF Guides, CreateGuide, PatchGuide, ApproveGuide, ReviseGuide, CancelGuide, FailGuide
<1>8. CASE Samples
  BY <1>1, <1>2, <1>3, <1>4, <1>5, <1>6, <1>8
     DEF Samples, CreateSample, PatchSample, AuthorizeSample, ReviseSample, CancelSample, FailSample
<1> QED BY <1>7, <1>8

-----------------------------------------------------------------------------
(* What the revisions keep *)

\* Kinds and lineages are for good, and so is the text of what has been in force.
RevsGrow ==
  /\ revs' \in Seq(RevRow) /\ Len(revs') <= MaxRevs
  /\ DOMAIN revs \subseteq DOMAIN revs'
  /\ \A r \in DOMAIN revs :
       /\ revs'[r].kind = revs[r].kind
       /\ revs[r].status \in Settled =>
            revs'[r].text = revs[r].text /\ revs'[r].status \in {revs[r].status, "Superseded"}
  /\ \A r \in DOMAIN revs' : revs'[r].by \in {NoDoc} \cup DOMAIN revs'

RevsKept == RevsGrow /\ LineagesOfOneKind' /\ OneInForce' /\ ReplacedByForce' /\ OneStyleDraft'

LEMMA SameKind ==
  ASSUME RevsInv, NEW r \in DOMAIN revs, NEW q \in DOMAIN revs, SameLineage(r, q)
  PROVE  revs[r].kind = revs[q].kind
BY DEF RevsInv, LineagesOfOneKind, SameLineage

LEMMA Bounds ==
  ASSUME RevsInv
  PROVE  Len(revs) <= MaxRevs /\ \A r \in DOMAIN revs : revs[r].by \in {NoDoc} \cup DOMAIN revs
BY DEF RevsInv, AuthoringTypeOK

LEMMA RevsStayKept ==
  ASSUME RevsInv, UNCHANGED revs
  PROVE  RevsKept
<1>1. RevsGrow
  BY Bounds DEF RevsGrow, RevsInv
<1>2. LineagesOfOneKind' /\ OneInForce'
  BY DEF RevsInv, LineagesOfOneKind, OneInForce, SameLineage, Of
<1>3. ReplacedByForce' /\ OneStyleDraft'
  BY DEF RevsInv, ReplacedByForce, OneStyleDraft, SameLineage
<1> QED BY <1>1, <1>2, <1>3 DEF RevsKept

LEMMA ArrivesKeeps ==
  ASSUME RevsInv, AuthoringAssumption, NEW row \in RevRow, Arrives(row)
  PROVE  RevsKept
<1>1. /\ revs \in Seq(RevRow) /\ Len(revs) \in Nat /\ DOMAIN revs = 1 .. Len(revs)
      /\ \A r \in DOMAIN revs : r \in Nat
  BY Places
<1>2. PICK n \in Nat : n = Len(revs) + 1
  BY <1>1
<1>3. /\ revs' \in Seq(RevRow) /\ Len(revs') = n
      /\ DOMAIN revs' = DOMAIN revs \cup {n} /\ n \notin DOMAIN revs
      /\ revs'[n] = row
      /\ \A r \in DOMAIN revs : revs'[r] = revs[r]
  BY <1>1, <1>2, AppendRow DEF Arrives, Add
<1>4. /\ row.status \notin Settled /\ row.by = NoDoc
      /\ row.lineage = n \/ (row.lineage \in DOMAIN revs /\ revs[row.lineage].kind = row.kind)
      /\ row.kind = "outline" => \A q \in Of("outline") : revs[q].lineage = row.lineage
      /\ row.kind # "outline" /\ row.status = "Draft" =>
           \A q \in DOMAIN revs : revs[q].lineage = row.lineage => revs[q].status # "Draft"
  BY <1>2 DEF Arrives
<1>5. RevsGrow
  <2>1. n <= MaxRevs
    BY <1>1, <1>2 DEF Arrives, Add, AuthoringAssumption
  <2>2. \A r \in DOMAIN revs' : revs'[r].by \in {NoDoc} \cup DOMAIN revs'
    BY <1>3, <1>4, Bounds
  <2> QED BY <1>3, <2>1, <2>2 DEF RevsGrow
<1>6. LineagesOfOneKind'
  <2>1. ASSUME NEW r \in DOMAIN revs'
        PROVE  revs'[r].lineage \in 1 .. r /\ revs'[revs'[r].lineage].kind = revs'[r].kind
    <3>1. CASE r = n
      <4>1. row.lineage \in 1 .. n
        BY <1>1, <1>2, <1>4
      <4> QED BY <1>3, <1>4, <3>1, <4>1
    <3>2. CASE r \in DOMAIN revs
      BY <1>3, <3>2, Places DEF RevsInv, LineagesOfOneKind
    <3> QED BY <1>3, <3>1, <3>2
  <2>2. ASSUME NEW r \in DOMAIN revs', NEW q \in DOMAIN revs',
               revs'[r].kind = "outline", revs'[q].kind = "outline"
        PROVE  revs'[r].lineage = revs'[q].lineage
    BY <1>3, <1>4, <2>2 DEF RevsInv, LineagesOfOneKind, SameLineage, Of
  <2> QED BY <2>1, <2>2 DEF LineagesOfOneKind, SameLineage, Of
<1>7. OneInForce'
  BY <1>3, <1>4 DEF OneInForce, SameLineage, Settled, RevsInv
<1>8. ReplacedByForce'
  <2>1. ASSUME NEW r \in DOMAIN revs, revs[r].status = "Superseded"
        PROVE  /\ \E q \in DOMAIN revs' : revs'[q].lineage = revs[r].lineage /\ revs'[q].status \in InForce
               /\ revs[r].by \in DOMAIN revs /\ revs[revs[r].by].lineage = revs[r].lineage
               /\ revs[revs[r].by].status \in InForce \cup {"Superseded"}
    BY <1>3, <2>1 DEF RevsInv, ReplacedByForce, SameLineage
  <2> QED BY <1>3, <1>4, <2>1 DEF ReplacedByForce, SameLineage, Settled
<1>9. OneStyleDraft'
  <2>1. ASSUME NEW r \in DOMAIN revs', NEW q \in DOMAIN revs',
               revs'[r].lineage = revs'[q].lineage, revs'[r].kind # "outline",
               {revs'[r].status, revs'[q].status} = {"Draft"}
        PROVE  r = q
    <3>1. revs'[r].kind = revs'[q].kind
      BY <1>6, <2>1 DEF LineagesOfOneKind
    <3>2. revs'[r].status = "Draft" /\ revs'[q].status = "Draft"
      BY <2>1
    <3>3. CASE r = n \/ q = n
      BY <1>3, <1>4, <2>1, <3>1, <3>2, <3>3
    <3>4. CASE r \in DOMAIN revs /\ q \in DOMAIN revs
      BY <1>3, <2>1, <3>4 DEF RevsInv, OneStyleDraft, SameLineage
    <3> QED BY <1>3, <3>3, <3>4
  <2> QED BY <2>1 DEF OneStyleDraft, SameLineage
<1> QED BY <1>5, <1>6, <1>7, <1>8, <1>9 DEF RevsKept

LEMMA RewritesKeeps ==
  ASSUME RevsInv, NEW i \in DOMAIN revs, NEW row \in RevRow, Rewrites(i, row)
  PROVE  RevsKept
<1>1. /\ row.kind = revs[i].kind /\ row.lineage = revs[i].lineage /\ row.by = revs[i].by
      /\ revs[i].status \notin Settled /\ row.status \notin Settled
      /\ row.kind # "outline" /\ row.status = "Draft" => revs[i].status = "Draft"
  BY DEF Rewrites
<1>2. /\ revs' \in Seq(RevRow) /\ Len(revs') = Len(revs) /\ DOMAIN revs' = DOMAIN revs
      /\ revs'[i] = row
      /\ \A r \in DOMAIN revs : r # i => revs'[r] = revs[r]
  BY Places, SetRow DEF Rewrites
<1>3. \A r \in DOMAIN revs :
        /\ revs'[r].kind = revs[r].kind /\ revs'[r].lineage = revs[r].lineage
        /\ revs'[r].by = revs[r].by
        /\ revs[r].status \in Settled \/ revs'[r].status \in Settled =>
             revs'[r].text = revs[r].text /\ revs'[r].status = revs[r].status
        /\ revs'[r].kind # "outline" /\ revs'[r].status = "Draft" => revs[r].status = "Draft"
  BY <1>1, <1>2
<1>4. RevsGrow
  BY <1>2, <1>3, Bounds DEF RevsGrow
<1>5. LineagesOfOneKind'
  <2>1. ASSUME NEW r \in DOMAIN revs
        PROVE  revs'[r].lineage \in 1 .. r /\ revs'[revs'[r].lineage].kind = revs'[r].kind
    <3>1. revs[r].lineage \in DOMAIN revs /\ revs[r].lineage \in 1 .. r
          /\ revs[revs[r].lineage].kind = revs[r].kind
      BY Places DEF RevsInv, LineagesOfOneKind
    <3> QED BY <1>3, <3>1
  <2>2. ASSUME NEW r \in DOMAIN revs, NEW q \in DOMAIN revs,
               revs'[r].kind = "outline", revs'[q].kind = "outline"
        PROVE  revs'[r].lineage = revs'[q].lineage
    BY <1>3, <2>2 DEF RevsInv, LineagesOfOneKind, SameLineage, Of
  <2> QED BY <1>2, <2>1, <2>2 DEF LineagesOfOneKind, SameLineage, Of
<1>6. OneInForce'
  BY <1>2, <1>3 DEF RevsInv, OneInForce, SameLineage, Settled
<1>7. ReplacedByForce'
  <2>1. ASSUME NEW r \in DOMAIN revs, revs'[r].status = "Superseded"
        PROVE  /\ \E q \in DOMAIN revs : revs'[q].lineage = revs'[r].lineage /\ revs'[q].status \in InForce
               /\ revs'[r].by \in DOMAIN revs /\ revs'[revs'[r].by].lineage = revs'[r].lineage
               /\ revs'[revs'[r].by].status \in InForce \cup {"Superseded"}
    <3>1. revs[r].status = "Superseded"
      BY <1>3, <2>1 DEF Settled
    <3> QED BY <1>3, <2>1, <3>1 DEF RevsInv, ReplacedByForce, SameLineage, Settled
  <2> QED BY <1>2, <2>1 DEF ReplacedByForce, SameLineage
<1>8. OneStyleDraft'
  <2>1. ASSUME NEW r \in DOMAIN revs, NEW q \in DOMAIN revs,
               revs'[r].lineage = revs'[q].lineage, revs'[r].kind # "outline",
               {revs'[r].status, revs'[q].status} = {"Draft"}
        PROVE  r = q
    <3>1. revs[r].lineage = revs[q].lineage /\ revs[r].kind # "outline"
      BY <1>3, <2>1
    <3>2. revs[q].kind # "outline"
      BY <3>1, SameKind DEF SameLineage
    <3>3. revs[r].status = "Draft" /\ revs[q].status = "Draft"
      BY <1>3, <2>1, <3>1, <3>2
    <3> QED BY <3>1, <3>3 DEF RevsInv, OneStyleDraft, SameLineage
  <2> QED BY <1>2, <2>1 DEF OneStyleDraft, SameLineage
<1> QED BY <1>4, <1>5, <1>6, <1>7, <1>8 DEF RevsKept

LEMMA EnactsKeeps ==
  ASSUME RevsInv, NEW i \in DOMAIN revs, Enacts(i)
  PROVE  RevsKept
<1>1. PICK status : status = ForceOf(revs[i].kind)
  OBVIOUS
<1>2. revs[i].status \notin Settled /\ status \in InForce
  BY <1>1 DEF Enacts, ForceOf, InForce
<1>3. PICK previous : previous = {q \in Lineage(i) \ {i} : revs[q].status = status}
  OBVIOUS
<1>4. revs' = [q \in DOMAIN revs |->
                 IF q = i THEN [revs[q] EXCEPT !.status = status]
                 ELSE IF q \in previous THEN [revs[q] EXCEPT !.status = "Superseded", !.by = i]
                 ELSE revs[q]]
  BY <1>1, <1>3 DEF Enacts, Enact
<1>5. /\ Len(revs) \in Nat /\ DOMAIN revs = 1 .. Len(revs)
      /\ \A r \in DOMAIN revs : revs[r] \in RevRow /\ r \in Nat
  BY Places
<1>6. previous \subseteq DOMAIN revs
  BY <1>3 DEF Lineage
<1>7. ASSUME NEW r \in DOMAIN revs
      PROVE  /\ revs'[r] \in RevRow
             /\ revs'[r].kind = revs[r].kind /\ revs'[r].lineage = revs[r].lineage
             /\ revs'[r].text = revs[r].text
             /\ revs'[r].status = IF r = i THEN status
                                  ELSE IF r \in previous THEN "Superseded" ELSE revs[r].status
             /\ revs'[r].by = IF r \in previous THEN i ELSE revs[r].by
  <2>1. PICK old \in RevRow : old = revs[r] /\ (r = i => status = ForceOf(old.kind))
    BY <1>1, <1>5
  <2>2. old = [kind |-> old.kind, status |-> old.status, lineage |-> old.lineage,
               text |-> old.text, by |-> old.by]
    BY DEF RevRow
  <2>3. i \notin previous
    BY <1>3
  <2>4. CASE r = i
    <3>1. revs'[r] = [kind |-> old.kind, status |-> status, lineage |-> old.lineage,
                      text |-> old.text, by |-> old.by]
      BY <1>4, <2>1, <2>2, <2>4
    <3>2. \/ old.kind = "outline" /\ status \in OutlineStatus
          \/ old.kind = "guide" /\ status \in GuideStatus
          \/ old.kind = "sample" /\ status \in SampleStatus
      BY <2>1, <2>4, RowFits DEF ForceOf, OutlineStatus, GuideStatus, SampleStatus
    <3>3. revs'[r] \in RevRow
      BY <3>1, <3>2, RowFits, RowMade
    <3> QED BY <2>1, <2>3, <2>4, <3>1, <3>3
  <2>5. CASE r \in previous
    <3>1. revs'[r] = [kind |-> old.kind, status |-> "Superseded", lineage |-> old.lineage,
                      text |-> old.text, by |-> i]
      BY <1>4, <2>1, <2>2, <2>3, <2>5
    <3>2. \/ old.kind = "outline" /\ "Superseded" \in OutlineStatus
          \/ old.kind = "guide" /\ "Superseded" \in GuideStatus
          \/ old.kind = "sample" /\ "Superseded" \in SampleStatus
      BY RowFits DEF OutlineStatus, GuideStatus, SampleStatus
    <3>3. old.lineage \in Nat /\ old.text \in Text /\ i \in Nat
      BY <1>5, RowFits
    <3>4. revs'[r] \in RevRow
      BY <3>1, <3>2, <3>3, RowMade
    <3> QED BY <2>1, <2>3, <2>5, <3>1, <3>4
  <2>6. CASE r # i /\ r \notin previous
    BY <1>4, <2>1, <2>6
  <2> QED BY <2>4, <2>5, <2>6
<1>8. DOMAIN revs' = DOMAIN revs /\ revs' \in Seq(RevRow) /\ Len(revs') = Len(revs)
  <2>1. revs' \in [1 .. Len(revs) -> RevRow]
    BY <1>4, <1>5, <1>7
  <2> QED BY <1>5, <2>1, RowsAreSeq
<1>9. \A r \in previous : revs[r].lineage = revs[i].lineage /\ revs[r].status = status /\ r # i
  BY <1>3 DEF Lineage
\* In the lineage nothing else is in force any more.
<1>10. ASSUME NEW r \in DOMAIN revs, revs[r].lineage = revs[i].lineage, revs'[r].status \in InForce
       PROVE  r = i
  <2>1. CASE r # i /\ r \notin previous
    <3>1. revs[r].status \in InForce /\ revs[r].kind = revs[i].kind
      BY <1>7, <1>10, <2>1, SameKind DEF SameLineage
    <3>2. revs[r].status = status
      BY <1>1, <1>5, <3>1, RowFits
    <3>3. r \in previous
      BY <1>3, <1>10, <2>1, <3>2 DEF Lineage
    <3> QED BY <2>1, <3>3
  <2>2. CASE r \in previous
    BY <1>7, <1>9, <1>10, <2>2 DEF InForce
  <2> QED BY <2>1, <2>2
<1>11. \A r \in DOMAIN revs : revs[r].status \in Settled =>
         revs'[r].status \in {revs[r].status, "Superseded"}
  BY <1>2, <1>7
<1>12. RevsGrow
  BY <1>5, <1>6, <1>7, <1>8, <1>11, Bounds DEF RevsGrow
<1>13. LineagesOfOneKind'
  BY <1>7, <1>8, Places DEF RevsInv, LineagesOfOneKind, SameLineage, Of
<1>14. OneInForce'
  <2>1. ASSUME NEW r \in DOMAIN revs, NEW q \in DOMAIN revs,
               revs[r].lineage = revs[q].lineage,
               revs'[r].status \in InForce, revs'[q].status \in InForce
        PROVE  r = q
    <3>1. CASE revs[r].lineage = revs[i].lineage
      BY <1>10, <2>1, <3>1
    <3>2. CASE revs[r].lineage # revs[i].lineage
      <4>1. revs'[r].status = revs[r].status /\ revs'[q].status = revs[q].status
        BY <1>7, <1>9, <2>1, <3>2
      <4> QED BY <2>1, <4>1 DEF RevsInv, OneInForce, SameLineage
    <3> QED BY <3>1, <3>2
  <2> QED BY <1>7, <1>8, <2>1 DEF OneInForce, SameLineage
<1>15. ReplacedByForce'
  <2>1. ASSUME NEW r \in DOMAIN revs, revs'[r].status = "Superseded"
        PROVE  /\ \E q \in DOMAIN revs : revs'[q].lineage = revs'[r].lineage /\ revs'[q].status \in InForce
               /\ revs'[r].by \in DOMAIN revs /\ revs'[revs'[r].by].lineage = revs'[r].lineage
               /\ revs'[revs'[r].by].status \in InForce \cup {"Superseded"}
    <3>1. revs'[i].status \in InForce
      BY <1>2, <1>7
    <3>2. CASE r \in previous
      BY <1>7, <1>9, <3>1, <3>2
    <3>3. CASE r \notin previous
      <4>1. revs[r].status = "Superseded" /\ revs'[r].by = revs[r].by
        BY <1>2, <1>7, <2>1, <3>3 DEF InForce
      <4>2. PICK b \in DOMAIN revs : /\ b = revs[r].by /\ revs[b].lineage = revs[r].lineage
                                     /\ revs[b].status \in Settled
        BY <4>1 DEF RevsInv, ReplacedByForce, SameLineage, Settled
      <4>3. revs'[b].status \in InForce \cup {"Superseded"}
        BY <1>11, <4>2 DEF Settled
      <4>4. CASE revs[r].lineage = revs[i].lineage
        BY <1>7, <3>1, <4>1, <4>2, <4>3, <4>4
      <4>5. CASE revs[r].lineage # revs[i].lineage
        <5>1. PICK q \in DOMAIN revs : revs[q].lineage = revs[r].lineage /\ revs[q].status \in InForce
          BY <4>1 DEF RevsInv, ReplacedByForce, SameLineage
        <5>2. revs'[q].status = revs[q].status
          BY <1>7, <1>9, <4>5, <5>1
        <5> QED BY <1>7, <4>1, <4>2, <4>3, <5>1, <5>2
      <4> QED BY <4>4, <4>5
    <3> QED BY <3>2, <3>3
  <2> QED BY <1>8, <2>1 DEF ReplacedByForce, SameLineage
<1>16. OneStyleDraft'
  <2>1. \A r \in DOMAIN revs : revs'[r].status = "Draft" => revs[r].status = "Draft"
    BY <1>2, <1>7 DEF InForce
  <2>2. ASSUME NEW r \in DOMAIN revs, NEW q \in DOMAIN revs,
               revs'[r].lineage = revs'[q].lineage, revs'[r].kind # "outline",
               {revs'[r].status, revs'[q].status} = {"Draft"}
        PROVE  r = q
    <3>1. revs[r].status = "Draft" /\ revs[q].status = "Draft"
      BY <2>1, <2>2
    <3>2. revs[r].lineage = revs[q].lineage /\ revs[r].kind # "outline"
      BY <1>7, <2>2
    <3> QED BY <3>1, <3>2 DEF RevsInv, OneStyleDraft, SameLineage
  <2> QED BY <1>8, <2>2 DEF OneStyleDraft, SameLineage
<1> QED BY <1>12, <1>13, <1>14, <1>15, <1>16 DEF RevsKept

LEMMA RevsStep ==
  ASSUME RevsInv, AuthoringAssumption, RevsMove
  PROVE  RevsKept
BY RevsStayKept, ArrivesKeeps, RewritesKeeps, EnactsKeeps DEF RevsMove

-----------------------------------------------------------------------------
(* What the Spec, the style of the draft and its validations keep *)

SpecRow == [status: SpecStatus, text: Text]

SpecKept ==
  /\ spec' \in Seq(SpecRow) /\ Len(spec') <= MaxVersions
  /\ \A v \in DOMAIN spec : spec[v].status = "Effective" => spec'[v] = spec[v]

LEMMA SpecStands ==
  ASSUME RevsInv
  PROVE  /\ spec \in Seq(SpecRow) /\ Len(spec) \in Nat /\ Len(spec) <= MaxVersions
         /\ DOMAIN spec = 1 .. Len(spec)
         /\ \A v \in DOMAIN spec : spec[v] \in SpecRow
         /\ spec # <<>> => Len(spec) \in DOMAIN spec
<1>1. spec \in Seq(SpecRow) /\ Len(spec) <= MaxVersions
  BY DEF RevsInv, AuthoringTypeOK, SpecRow
<1>2. Len(spec) \in Nat /\ DOMAIN spec = 1 .. Len(spec) /\ \A v \in DOMAIN spec : spec[v] \in SpecRow
  BY <1>1, LenProperties, RowOf
<1>3. spec # <<>> => Len(spec) # 0
  BY <1>1, EmptySeq
<1> QED BY <1>1, <1>2, <1>3

LEMMA VersionSet ==
  ASSUME RevsInv, spec # <<>>, Current.status # "Effective", NEW row \in SpecRow,
         spec' = [spec EXCEPT ![Len(spec)] = row]
  PROVE  SpecKept
<1>1. PICK n \in DOMAIN spec : n = Len(spec)
  BY SpecStands
<1>2. /\ spec' \in Seq(SpecRow) /\ Len(spec') = Len(spec)
      /\ \A v \in DOMAIN spec : v # n => spec'[v] = spec[v]
  BY <1>1, SpecStands, SetRow
<1> QED BY <1>1, <1>2, SpecStands DEF SpecKept, Current

LEMMA SpecStep ==
  ASSUME RevsInv, AuthoringAssumption, StorySpec \/ UNCHANGED spec
  PROVE  SpecKept
<1>1. CASE UNCHANGED spec
  BY <1>1, SpecStands DEF SpecKept
<1>2. ASSUME NEW text \in Text, CreateSpecDraft(text)
      PROVE  SpecKept
  <2>1. PICK row \in SpecRow : row = [status |-> "Draft", text |-> text]
    BY DEF SpecRow, SpecStatus
  <2>2. spec = <<>> /\ spec' = <<row>> /\ MaxVersions >= 1
    BY <1>2, <2>1 DEF CreateSpecDraft, AuthoringAssumption
  <2>3. spec' \in Seq(SpecRow) /\ Len(spec') = 1
    BY <2>2
  <2>4. DOMAIN spec = {}
    BY <2>2
  <2> QED BY <2>2, <2>3, <2>4 DEF SpecKept
<1>3. ASSUME NEW text \in Text, PatchSpec(text)
      PROVE  SpecKept
  <2>1. PICK old \in SpecRow : old = Current
    BY <1>3, SpecStands DEF PatchSpec, Current
  <2>2. PICK row \in SpecRow : row = [old EXCEPT !.text = text]
    BY DEF SpecRow
  <2>3. spec' = [spec EXCEPT ![Len(spec)] = row]
    BY <1>3, <2>1, <2>2 DEF PatchSpec, Current
  <2> QED BY <1>3, <2>3, VersionSet DEF PatchSpec
<1>4. ASSUME SubmitSpec \/ ApproveSpec
      PROVE  SpecKept
  <2>1. /\ spec # <<>> /\ Current.status # "Effective"
        /\ \E status \in SpecStatus : spec' = [spec EXCEPT ![Len(spec)].status = status]
    BY <1>4 DEF SubmitSpec, ApproveSpec, SpecStatus
  <2>2. PICK status \in SpecStatus : spec' = [spec EXCEPT ![Len(spec)].status = status]
    BY <2>1
  <2>3. PICK old \in SpecRow : old = Current
    BY <2>1, SpecStands DEF Current
  <2>4. PICK row \in SpecRow : row = [old EXCEPT !.status = status]
    BY DEF SpecRow
  <2>5. spec' = [spec EXCEPT ![Len(spec)] = row]
    BY <2>2, <2>3, <2>4 DEF Current
  <2> QED BY <2>1, <2>5, VersionSet
<1>5. ASSUME NEW text \in Text, CreateNextDraft(text)
      PROVE  SpecKept
  <2>1. PICK row \in SpecRow : row = [status |-> "Draft", text |-> text]
    BY DEF SpecRow, SpecStatus
  <2>2. spec' = Append(spec, row) /\ Len(spec) < MaxVersions
    BY <1>5, <2>1 DEF CreateNextDraft
  <2>3. /\ spec' \in Seq(SpecRow) /\ Len(spec') = Len(spec) + 1
        /\ \A v \in DOMAIN spec : spec'[v] = spec[v]
    <3>1. spec \in Seq(SpecRow)
      BY SpecStands
    <3> QED BY <2>2, <3>1, AppendRow
  <2>4. Len(spec') <= MaxVersions
    <3>1. PICK n \in Nat, m \in Nat : n = Len(spec) /\ m = MaxVersions
      BY SpecStands DEF AuthoringAssumption
    <3>2. n < m /\ Len(spec') = n + 1
      BY <2>2, <2>3, <3>1
    <3> QED BY <3>1, <3>2
  <2> QED BY <2>3, <2>4 DEF SpecKept
<1> QED BY <1>1, <1>2, <1>3, <1>4, <1>5 DEF StorySpec

\* Among guides in force, one is listed first.
LEMMA FirstIsApproved ==
  ASSUME RevsInv, ApprovedGuides # {}
  PROVE  FirstApproved \in ApprovedGuides
<1>1. Len(revs) \in Nat /\ DOMAIN revs = 1 .. Len(revs) /\ ApprovedGuides \subseteq DOMAIN revs
  BY Places DEF ApprovedGuides, Of
<1>2. ASSUME NEW r \in DOMAIN revs
      PROVE  RevisionNo(r) \in 0 .. Len(revs)
  <2>1. IsFiniteSet(DOMAIN revs) /\ Cardinality(DOMAIN revs) = Len(revs)
    <3>1. \A n \in Nat : IsFiniteSet(1 .. n) /\ Cardinality(1 .. n) = n
      BY FS_Interval
    <3> QED BY <1>1, <3>1
  <2>2. {q \in Lineage(r) : q <= r} \subseteq DOMAIN revs
    BY DEF Lineage
  <2>3. Cardinality({q \in Lineage(r) : q <= r}) \in Nat
    BY <2>1, <2>2, FS_Subset, FS_CardinalityType
  <2>4. Cardinality({q \in Lineage(r) : q <= r}) <= Len(revs)
    BY <2>1, <2>2, FS_Subset
  <2> QED BY <1>1, <2>3, <2>4 DEF RevisionNo
<1> DEFINE Lag(g) == Len(revs) - RevisionNo(g)
           Lags == {Lag(g) : g \in ApprovedGuides}
<1>3. Lags \subseteq Nat /\ Lags # {}
  BY <1>1, <1>2
<1>4. PICK least \in Lags : \A x \in Lags : least <= x
  BY <1>3, LeastNat
<1>5. PICK g \in ApprovedGuides : least = Lag(g)
  BY <1>4
<1>6. ASSUME NEW h \in ApprovedGuides
      PROVE  RevisionNo(h) <= RevisionNo(g)
  <2>1. RevisionNo(g) \in Nat /\ RevisionNo(h) \in Nat
    BY <1>1, <1>2
  <2>2. Lag(g) <= Lag(h)
    BY <1>4, <1>5
  <2> QED BY <1>1, <2>1, <2>2
<1>7. Newest(ApprovedGuides) # {} /\ Newest(ApprovedGuides) \subseteq ApprovedGuides
  BY <1>6 DEF Newest
<1>8. Newest(ApprovedGuides) \subseteq Nat
  BY <1>1, <1>7
<1> QED BY <1>7, <1>8, MinIsLeast DEF FirstApproved

LEMMA GuideJudges ==
  ASSUME RevsInv, NEW g \in {NoDoc} \cup Of("guide"), g # NoDoc => UsableGuide(g)
  PROVE  IF GuideFor(g) = NoDoc THEN ApprovedGuides = {} ELSE GuideFor(g) \in ApprovedGuides
<1>1. ApprovedGuides \subseteq DOMAIN revs /\ NoDoc \notin ApprovedGuides /\ ApprovedGuides \subseteq Nat
  BY Places DEF ApprovedGuides, Of
<1>2. ApprovedGuides # {} => FirstApproved \in ApprovedGuides
  BY FirstIsApproved
<1>3. g # NoDoc => g \in ApprovedGuides
  BY DEF ApprovedGuides
<1>4. CASE g # NoDoc
  BY <1>3, <1>4 DEF GuideFor
<1>5. CASE g = NoDoc /\ styled.guide \in ApprovedGuides
  <2>1. GuideFor(g) = styled.guide
    BY <1>5 DEF GuideFor
  <2> QED BY <1>1, <1>5, <2>1
<1>6. CASE g = NoDoc /\ styled.guide \notin ApprovedGuides /\ ApprovedGuides # {}
  <2>1. GuideFor(g) = FirstApproved
    BY <1>6 DEF GuideFor
  <2> QED BY <1>1, <1>2, <1>6, <2>1
<1>7. CASE g = NoDoc /\ styled.guide \notin ApprovedGuides /\ ApprovedGuides = {}
  <2>1. GuideFor(g) = NoDoc
    BY <1>7 DEF GuideFor
  <2> QED BY <1>7, <2>1
<1> QED BY <1>4, <1>5, <1>6, <1>7

-----------------------------------------------------------------------------
(* Authoring: type, induction, theorems *)

\* What a step keeps of the draft's style and its validations.
StyleKept ==
  /\ styled' \in [guide: Nat, samples: SUBSET Nat]
  /\ styled'.guide \in {NoDoc} \cup {r \in DOMAIN revs' : revs'[r].kind = "guide"}
  /\ styled'.samples \subseteq {r \in DOMAIN revs' : revs'[r].kind = "sample"}
  /\ checks' \in Seq(CheckRow') /\ Len(checks') <= MaxChecks

JudgedNow ==
  \A c \in DOMAIN checks' \ DOMAIN checks :
    IF checks'[c].guide = NoDoc THEN ApprovedGuides = {} ELSE checks'[c].guide \in ApprovedGuides

LEMMA ChecksStand ==
  ASSUME RevsInv
  PROVE  /\ checks \in Seq(CheckRow) /\ Len(checks) \in Nat /\ Len(checks) <= MaxChecks
         /\ DOMAIN checks = 1 .. Len(checks)
         /\ \A c \in DOMAIN checks : checks[c] \in CheckRow
<1>1. checks \in Seq(CheckRow) /\ Len(checks) <= MaxChecks
  BY DEF RevsInv, AuthoringTypeOK, CheckRow
<1> QED BY <1>1, LenProperties, RowOf

LEMMA StyledStands ==
  ASSUME RevsInv
  PROVE  /\ styled \in [guide: Nat, samples: SUBSET Nat]
         /\ styled.guide \in {NoDoc} \cup Of("guide") /\ styled.samples \subseteq Of("sample")
BY DEF RevsInv, AuthoringTypeOK, Of

LEMMA StyleUntouched ==
  ASSUME RevsInv, RevsGrow, UNCHANGED <<styled, checks>>
  PROVE  StyleKept /\ JudgedNow
<1>1. DOMAIN revs \subseteq DOMAIN revs' /\ \A r \in DOMAIN revs : revs'[r].kind = revs[r].kind
  BY DEF RevsGrow
<1>2. CheckRow \subseteq CheckRow'
  BY <1>1 DEF CheckRow
<1>3. checks \in [1 .. Len(checks) -> CheckRow'] /\ Len(checks) \in Nat
  BY <1>2, ChecksStand, LenProperties
<1>4. checks' \in Seq(CheckRow')
  BY <1>3, RowsAreSeq
<1> QED BY <1>1, <1>4, ChecksStand, StyledStands DEF StyleKept, JudgedNow, Of

LEMMA CheckSet ==
  ASSUME RevsInv, UNCHANGED <<revs, styled>>, NEW c \in DOMAIN checks, NEW row \in CheckRow,
         checks' = [checks EXCEPT ![c] = row]
  PROVE  StyleKept /\ JudgedNow
<1>1. CheckRow' = CheckRow
  BY DEF CheckRow
<1>2. /\ checks' \in Seq(CheckRow) /\ Len(checks') = Len(checks)
      /\ DOMAIN checks' = DOMAIN checks
  BY ChecksStand, SetRow
<1> QED BY <1>1, <1>2, ChecksStand, StyledStands DEF StyleKept, JudgedNow, Of

LEMMA StyleStep ==
  ASSUME RevsInv, AuthoringAssumption, Style
  PROVE  StyleKept /\ JudgedNow /\ UNCHANGED <<spec, revs>>
<1>1. ASSUME NEW g \in {NoDoc} \cup Of("guide"), NEW S \in SUBSET Of("sample"), AssociateOnDraft(g, S)
      PROVE  StyleKept /\ JudgedNow /\ UNCHANGED <<spec, revs>>
  <2>1. styled' = [guide |-> g, samples |-> S] /\ UNCHANGED <<spec, revs, checks>>
    BY <1>1 DEF AssociateOnDraft
  <2>2. g \in Nat /\ S \subseteq Nat
    BY Places DEF Of, NoDoc
  <2>3. CheckRow' = CheckRow
    BY <2>1 DEF CheckRow
  <2>4. /\ styled' \in [guide: Nat, samples: SUBSET Nat]
        /\ styled'.guide \in {NoDoc} \cup Of("guide") /\ styled'.samples \subseteq Of("sample")
    BY <2>1, <2>2
  <2> QED BY <2>1, <2>3, <2>4, ChecksStand DEF StyleKept, JudgedNow, Of
<1>2. ASSUME NEW g \in {NoDoc} \cup Of("guide"), NEW S \in SUBSET Of("sample"), TriggerCheck(g, S)
      PROVE  StyleKept /\ JudgedNow /\ UNCHANGED <<spec, revs>>
  <2>1. PICK judge : judge = GuideFor(g)
    OBVIOUS
  <2>2. IF judge = NoDoc THEN ApprovedGuides = {} ELSE judge \in ApprovedGuides
    BY <1>2, <2>1, GuideJudges DEF TriggerCheck
  <2>3. PICK row : row = [guide |-> judge, samples |-> S, status |-> "Running", busy |-> TRUE]
    OBVIOUS
  <2>4. row \in CheckRow /\ row.guide = judge
    BY <2>2, <2>3 DEF CheckRow, CheckStatus, ApprovedGuides, Of
  <2>5. checks' = Append(checks, row) /\ Len(checks) < MaxChecks /\ UNCHANGED <<spec, revs, styled>>
    BY <1>2, <2>1, <2>3 DEF TriggerCheck
  <2>6. CheckRow' = CheckRow
    BY <2>5 DEF CheckRow
  <2>7. checks \in Seq(CheckRow)
    BY ChecksStand
  <2>8. /\ checks' \in Seq(CheckRow) /\ Len(checks') = Len(checks) + 1
        /\ DOMAIN checks' = DOMAIN checks \cup {Len(checks) + 1}
        /\ checks'[Len(checks) + 1] = row
    BY <2>4, <2>5, <2>7, AppendRow
  <2>9. Len(checks') <= MaxChecks
    <3>1. PICK n \in Nat, m \in Nat : n = Len(checks) /\ m = MaxChecks
      BY ChecksStand DEF AuthoringAssumption
    <3>2. n < m /\ Len(checks') = n + 1
      BY <2>5, <2>8, <3>1
    <3> QED BY <3>1, <3>2
  <2>10. JudgedNow
    BY <2>2, <2>4, <2>8 DEF JudgedNow
  <2> QED BY <2>5, <2>6, <2>8, <2>9, <2>10, StyledStands DEF StyleKept, Of
<1>3. ASSUME NEW c \in DOMAIN checks, NEW status \in {"Succeeded", "Failed"}, EndCheck(c, status)
      PROVE  StyleKept /\ JudgedNow /\ UNCHANGED <<spec, revs>>
  <2>1. PICK old \in CheckRow : old = checks[c]
    BY ChecksStand
  <2>2. PICK row : row = [[old EXCEPT !.status = status] EXCEPT !.busy = FALSE]
    OBVIOUS
  <2>3. row \in CheckRow
    BY <2>2 DEF CheckRow, CheckStatus
  <2>4. checks' = [checks EXCEPT ![c] = row] /\ UNCHANGED <<spec, revs, styled>>
    BY <1>3, <2>1, <2>2 DEF EndCheck
  <2> QED BY <2>3, <2>4, CheckSet
<1>4. ASSUME NEW c \in DOMAIN checks, CancelCheck(c)
      PROVE  StyleKept /\ JudgedNow /\ UNCHANGED <<spec, revs>>
  <2>1. PICK old \in CheckRow : old = checks[c]
    BY ChecksStand
  <2>2. PICK row : row = [old EXCEPT !.status = "Cancelled"]
    OBVIOUS
  <2>3. row \in CheckRow
    BY <2>2 DEF CheckRow, CheckStatus
  <2>4. checks' = [checks EXCEPT ![c] = row] /\ UNCHANGED <<spec, revs, styled>>
    BY <1>4, <2>1, <2>2 DEF CancelCheck
  <2> QED BY <2>3, <2>4, CheckSet
<1> QED BY <1>1, <1>2, <1>3, <1>4 DEF Style

LEMMA AuthoringStep ==
  ASSUME RevsInv, AuthoringAssumption, [AuthoringNext]_docVars
  PROVE  RevsInv' /\ RevsKept /\ SpecKept /\ JudgedNow
<1>1. RevsMove
  BY OutlineMoves, StyleMoves, StyleStep DEF AuthoringNext, StorySpec, RevsMove, docVars
<1>2. RevsKept
  BY <1>1, RevsStep
<1>3. SpecKept
  BY SpecStep, StyleStep DEF AuthoringNext, Outline, Guides, Samples, docVars
<1>4. StyleKept /\ JudgedNow
  <2>1. CASE Style
    BY <2>1, StyleStep
  <2>2. CASE ~Style
    <3>1. UNCHANGED <<styled, checks>>
      BY <2>2 DEF AuthoringNext, StorySpec, Outline, Guides, Samples, docVars
    <3> QED BY <1>2, <3>1, StyleUntouched DEF RevsKept
  <2> QED BY <2>1, <2>2
<1>5. \A r \in DOMAIN revs' :
        /\ [kind |-> revs'[r].kind, status |-> revs'[r].status] \in Revision
        /\ revs'[r].text \in Text
        /\ revs'[r].lineage \in 1 .. r
        /\ revs'[r].by \in {NoDoc} \cup DOMAIN revs'
  <2>1. revs' \in Seq(RevRow)
    BY <1>2 DEF RevsKept, RevsGrow
  <2>2. \A r \in DOMAIN revs' : revs'[r] \in RevRow
    BY <2>1, RowOf
  <2> QED BY <1>2, <2>2 DEF RevsKept, RevsGrow, LineagesOfOneKind, RevRow
<1>6. AuthoringTypeOK'
  BY <1>2, <1>3, <1>4, <1>5 DEF AuthoringTypeOK, RevsKept, RevsGrow, SpecKept, SpecRow, StyleKept, CheckRow
<1> QED BY <1>2, <1>3, <1>4, <1>6 DEF RevsInv, RevsKept, RevsGrow, StyleKept

LEMMA AuthoringStarts ==
  ASSUME AuthoringAssumption, AuthoringInit
  PROVE  RevsInv
<1>1. /\ spec = <<>> /\ revs = <<>> /\ checks = <<>>
      /\ DOMAIN revs = {} /\ Len(revs) = 0 /\ Len(spec) = 0 /\ Len(checks) = 0
  BY DEF AuthoringInit
<1>2. styled = [guide |-> NoDoc, samples |-> {}]
  BY DEF AuthoringInit
<1>3. AuthoringTypeOK
  BY <1>1, <1>2 DEF AuthoringTypeOK, AuthoringAssumption
<1>4. revs \in Seq(RevRow) /\ styled \in [guide: Nat, samples: SUBSET Nat]
  BY <1>1, <1>2 DEF NoDoc
<1> QED BY <1>1, <1>3, <1>4
     DEF RevsInv, LineagesOfOneKind, OneInForce, ReplacedByForce, OneStyleDraft, Of

LEMMA RevsInvariant == AuthoringSpec => []RevsInv
<1>1. AuthoringInit => RevsInv
  BY AuthoringAssumption, AuthoringStarts
<1>2. RevsInv /\ [AuthoringNext]_docVars => RevsInv'
  BY AuthoringAssumption, AuthoringStep
<1> QED BY <1>1, <1>2, PTL DEF AuthoringSpec

\* Spec, revisions, associations and validations always have the shape the
\* services read: a revision is in a state of its kind and its lineage and its
\* successor exist, also when saving failed half-way.
THEOREM AuthoringTypeCorrect == AuthoringSpec => []AuthoringTypeOK
<1>1. RevsInv => AuthoringTypeOK
  BY DEF RevsInv
<1> QED BY <1>1, RevsInvariant, PTL

\* However many revisions are proposed, failed, cancelled, reworked and
\* confirmed, out of turn too: at most one of a lineage is in force, whoever was
\* replaced leads to it, and a guide or sample has one draft at a time.
THEOREM LineagesStaySound == AuthoringSpec => []LineageSound
<1>1. ASSUME RevsInv
      PROVE  LineageSound
  <2> SUFFICES ASSUME NEW r \in DOMAIN revs,
                      NEW inForce, inForce = {q \in Lineage(r) : revs[q].status \in InForce}
               PROVE  /\ Cardinality(inForce) <= 1
                      /\ revs[r].status = "Superseded" =>
                           /\ inForce # {}
                           /\ revs[r].by \in {q \in Lineage(r) : revs[q].status \in InForce \cup {"Superseded"}}
                      /\ revs[r].kind # "outline" =>
                           Cardinality({q \in Lineage(r) : revs[q].status = "Draft"}) <= 1
    BY DEF LineageSound
  <2>1. Cardinality(inForce) <= 1
    <3>1. \A x, y \in inForce : x = y
      BY <1>1 DEF RevsInv, OneInForce, SameLineage, Lineage
    <3> QED BY <3>1, AtMostOne
  <2>2. revs[r].status = "Superseded" =>
          /\ inForce # {}
          /\ revs[r].by \in {q \in Lineage(r) : revs[q].status \in InForce \cup {"Superseded"}}
    BY <1>1 DEF RevsInv, ReplacedByForce, SameLineage, Lineage
  <2>3. ASSUME revs[r].kind # "outline"
        PROVE  Cardinality({q \in Lineage(r) : revs[q].status = "Draft"}) <= 1
    <3>1. PICK drafts : drafts = {q \in Lineage(r) : revs[q].status = "Draft"}
      OBVIOUS
    <3>2. \A x \in drafts : /\ x \in DOMAIN revs /\ revs[x].lineage = revs[r].lineage
                            /\ revs[x].status = "Draft" /\ revs[x].kind # "outline"
      BY <1>1, <2>3, <3>1, SameKind DEF Lineage, SameLineage
    <3>3. \A x, y \in drafts : x = y
      BY <1>1, <3>2 DEF RevsInv, OneStyleDraft, SameLineage
    <3> QED BY <3>1, <3>3, AtMostOne
  <2> QED BY <2>1, <2>2, <2>3
<1> QED BY <1>1, RevsInvariant, PTL

\* What was once in force keeps its text for good and leaves force only when it
\* is replaced, and an effective version of the Spec never changes, whoever
\* else patches, fails, cancels or revises at the time.
THEOREM ForceIsNeverEdited == AuthoringSpec => NeverEditedInForce
<1>1. RevsInv /\ [AuthoringNext]_docVars =>
        [/\ \A r \in DOMAIN revs :
              revs[r].status \in InForce \cup {"Superseded"} =>
                /\ revs'[r].text = revs[r].text
                /\ revs'[r].status \in {revs[r].status, "Superseded"}
         /\ \A v \in DOMAIN spec :
              spec[v].status = "Effective" => spec'[v] = spec[v]]_docVars
  BY AuthoringAssumption, AuthoringStep DEF RevsKept, RevsGrow, SpecKept, Settled
<1> QED BY <1>1, RevsInvariant, PTL DEF AuthoringSpec, NeverEditedInForce

\* A validation of style judges by a guide in force at the time it is asked
\* for, and by none only when the project has none, also when the guide of the
\* draft has been replaced since it was associated.
THEOREM ForceJudgesStyle == AuthoringSpec => JudgedByGuideInForce
<1>1. RevsInv /\ [AuthoringNext]_docVars =>
        [\A c \in DOMAIN checks' \ DOMAIN checks :
           IF checks'[c].guide = NoDoc THEN ApprovedGuides = {}
           ELSE checks'[c].guide \in ApprovedGuides]_docVars
  BY AuthoringAssumption, AuthoringStep DEF JudgedNow
<1> QED BY <1>1, RevsInvariant, PTL DEF AuthoringSpec, JudgedByGuideInForce

-----------------------------------------------------------------------------
(* SceneCards *)

OnePlaceEach == \A s, t \in Cards : cards[s].place = cards[t].place => s = t

CardsInv ==
  /\ CardsTypeOK
  /\ cards \in [Scene -> Card \cup {NoCard}]
  /\ OnePlaceEach
  /\ ~Cyclic(Deps)

\* What is reached from s grows by one dependency a step.
StepByStep(R, deps, s) ==
  \A n \in Nat : R[n] = IF n = 0 THEN deps[s] ELSE R[n-1] \cup UNION {deps[t] : t \in R[n-1]}

\* Reaches is well defined, as the ends of the walks along dependencies.
LEMMA ReachSteps ==
  ASSUME NEW deps, NEW s \in Scene, \A t \in Scene : deps[t] \subseteq Scene
  PROVE  \E R : Reaches(deps, s) = R[Cardinality(Scene)] /\ StepByStep(R, deps, s)
<1> DEFINE Def(f) == [n \in Nat |-> IF n = 0 THEN deps[s] ELSE f[n-1] \cup UNION {deps[t] : t \in f[n-1]}]
           Walk(k, w) == w[0] \in deps[s] /\ \A i \in 1 .. k : w[i] \in deps[w[i-1]]
           Ends == [n \in Nat |-> {t \in Scene : \E k \in 0 .. n : \E w \in [0 .. k -> Scene] :
                                     Walk(k, w) /\ w[k] = t}]
           R == CHOOSE f : f = Def(f)
<1>1. Ends[0] = deps[s]
  <2>1. ASSUME NEW t \in deps[s]
        PROVE  t \in Ends[0]
    <3>1. PICK w : w = [i \in 0 .. 0 |-> t]
      OBVIOUS
    <3>2. w \in [0 .. 0 -> Scene] /\ w[0] = t /\ t \in Scene
      BY <2>1, <3>1
    <3>3. Walk(0, w)
      BY <2>1, <3>2
    <3> QED BY <3>2, <3>3
  <2>2. ASSUME NEW t \in Ends[0]
        PROVE  t \in deps[s]
    OBVIOUS
  <2> QED BY <2>1, <2>2
<1>2. ASSUME NEW n \in Nat, n # 0
      PROVE  Ends[n] = Ends[n-1] \cup UNION {deps[t] : t \in Ends[n-1]}
  <2>1. n - 1 \in Nat /\ 0 .. n - 1 \subseteq 0 .. n
    BY <1>2
  <2>2. Ends[n-1] \subseteq Ends[n]
    BY <2>1
  <2>3. ASSUME NEW u \in Ends[n-1], NEW t \in deps[u]
        PROVE  t \in Ends[n]
    <3>1. PICK k \in 0 .. n - 1 : \E w \in [0 .. k -> Scene] : Walk(k, w) /\ w[k] = u
      BY <2>1, <2>3
    <3>2. PICK w \in [0 .. k -> Scene] : Walk(k, w) /\ w[k] = u
      BY <3>1
    <3>3. PICK x : x = [i \in 0 .. k + 1 |-> IF i = k + 1 THEN t ELSE w[i]]
      OBVIOUS
    <3>4. k \in Nat /\ k + 1 \in 0 .. n /\ t \in Scene
      BY <2>1, <2>3
    <3>5. x \in [0 .. k + 1 -> Scene] /\ x[k+1] = t /\ \A i \in 0 .. k : x[i] = w[i]
      BY <3>3, <3>4
    <3>6. x[0] \in deps[s]
      BY <3>2, <3>4, <3>5
    <3>7. ASSUME NEW i \in 1 .. k + 1
          PROVE  x[i] \in deps[x[i-1]]
      <4>1. CASE i = k + 1
        BY <2>3, <3>2, <3>4, <3>5, <4>1
      <4>2. CASE i # k + 1
        <5>1. i \in 1 .. k /\ i - 1 \in 0 .. k /\ i \in 0 .. k
          BY <3>4, <4>2
        <5> QED BY <3>2, <3>5, <5>1
      <4> QED BY <4>1, <4>2
    <3> QED BY <3>4, <3>5, <3>6, <3>7
  <2>4. ASSUME NEW t \in Ends[n], t \notin Ends[n-1]
        PROVE  \E u \in Ends[n-1] : t \in deps[u]
    <3>1. PICK k \in 0 .. n : \E w \in [0 .. k -> Scene] : Walk(k, w) /\ w[k] = t
      BY <2>4
    <3>2. PICK w \in [0 .. k -> Scene] : Walk(k, w) /\ w[k] = t
      BY <3>1
    <3>3. k = n
      <4>1. t \in Scene
        BY <2>4
      <4> QED BY <2>1, <2>4, <3>2, <4>1
    <3>4. PICK x : x = [i \in 0 .. n - 1 |-> w[i]]
      OBVIOUS
    <3>5. x \in [0 .. n - 1 -> Scene] /\ \A i \in 0 .. n - 1 : x[i] = w[i]
      BY <2>1, <3>3, <3>4
    <3>6. x[0] \in deps[s] /\ \A i \in 1 .. n - 1 : i \in 0 .. n - 1 /\ i - 1 \in 0 .. n - 1
      BY <2>1, <3>2, <3>5
    <3>7. \A i \in 1 .. n - 1 : i \in 1 .. k /\ x[i] = w[i] /\ x[i-1] = w[i-1]
      BY <2>1, <3>3, <3>5, <3>6
    <3>8. Walk(n - 1, x)
      BY <3>2, <3>6, <3>7
    <3>9. x[n-1] \in Ends[n-1]
      <4>1. n - 1 \in 0 .. n - 1 /\ x[n-1] \in Scene
        BY <2>1, <3>5
      <4> QED BY <2>1, <3>5, <3>8, <4>1
    <3>10. t \in deps[x[n-1]]
      <4>1. n \in 1 .. k /\ n - 1 \in 0 .. n - 1
        BY <1>2, <2>1, <3>3
      <4>2. x[n-1] = w[n-1] /\ w[n] = t
        BY <3>2, <3>3, <3>5, <4>1
      <4> QED BY <3>2, <4>1, <4>2
    <3> QED BY <3>9, <3>10
  <2> HIDE DEF Ends
  <2> QED BY <2>2, <2>3, <2>4
<1>3. Ends = Def(Ends)
  <2>1. \A n \in Nat : Ends[n] = IF n = 0 THEN deps[s] ELSE Ends[n-1] \cup UNION {deps[t] : t \in Ends[n-1]}
    BY <1>1, <1>2
  <2> HIDE DEF Walk
  <2>2. Ends = [n \in Nat |-> Ends[n]]
    OBVIOUS
  <2> HIDE DEF Ends
  <2> QED BY <2>1, <2>2
<1> HIDE DEF Ends
<1>4. R = Def(R)
  BY <1>3
<1> HIDE DEF R
<1>5. StepByStep(R, deps, s)
  BY <1>4 DEF StepByStep
<1>6. Reaches(deps, s) = R[Cardinality(Scene)]
  BY DEF Reaches, R
<1> QED BY <1>5, <1>6

\* With fewer dependencies, less is reached.
LEMMA FewerReached ==
  ASSUME CardsAssumption, NEW deps, NEW fewer, NEW s \in Scene,
         \A t \in Scene : deps[t] \subseteq Scene /\ fewer[t] \subseteq deps[t]
  PROVE  Reaches(fewer, s) \subseteq Reaches(deps, s)
<1>1. PICK R : Reaches(deps, s) = R[Cardinality(Scene)] /\ StepByStep(R, deps, s)
  BY ReachSteps
<1>2. \A t \in Scene : fewer[t] \subseteq Scene
  OBVIOUS
<1>3. PICK Q : Reaches(fewer, s) = Q[Cardinality(Scene)] /\ StepByStep(Q, fewer, s)
  BY <1>2, ReachSteps
<1> DEFINE Good(n) == Q[n] \subseteq R[n] /\ Q[n] \subseteq Scene
           Bad == {n \in Nat : ~Good(n)}
<1>4. Bad = {}
  <2>1. SUFFICES ASSUME Bad # {}
                 PROVE  FALSE
    OBVIOUS
  <2>2. PICK n \in Bad : \A m \in Bad : n <= m
    BY <2>1, LeastNat
  <2>3. n # 0
    BY <1>1, <1>2, <1>3, <2>2 DEF StepByStep
  <2>4. n - 1 \in Nat /\ Good(n-1)
    BY <2>2, <2>3
  <2>5. Q[n] = Q[n-1] \cup UNION {fewer[t] : t \in Q[n-1]}
    BY <1>3, <2>2, <2>3 DEF StepByStep
  <2>6. R[n] = R[n-1] \cup UNION {deps[t] : t \in R[n-1]}
    BY <1>1, <2>2, <2>3 DEF StepByStep
  <2>7. Good(n)
    BY <1>2, <2>4, <2>5, <2>6
  <2> QED BY <2>7
<1>5. Cardinality(Scene) \in Nat
  BY FS_CardinalityType DEF CardsAssumption
<1> QED BY <1>1, <1>3, <1>4, <1>5

\* Among scenes of which none depends on another, none reaches any.
LEMMA NothingReached ==
  ASSUME CardsAssumption, NEW deps, NEW s \in Scene, \A t \in Scene : deps[t] = {}
  PROVE  Reaches(deps, s) = {}
<1>1. PICK R : Reaches(deps, s) = R[Cardinality(Scene)] /\ StepByStep(R, deps, s)
  BY ReachSteps
<1> DEFINE Bad == {n \in Nat : R[n] # {}}
<1>2. Bad = {}
  <2>1. SUFFICES ASSUME Bad # {}
                 PROVE  FALSE
    OBVIOUS
  <2>2. PICK n \in Bad : \A m \in Bad : n <= m
    BY <2>1, LeastNat
  <2>3. n # 0
    BY <1>1, <2>2 DEF StepByStep
  <2>4. n - 1 \in Nat /\ R[n-1] = {}
    BY <2>2, <2>3
  <2>5. R[n] = R[n-1] \cup UNION {deps[t] : t \in R[n-1]}
    BY <1>1, <2>2, <2>3 DEF StepByStep
  <2>6. R[n] = {}
    BY <2>4, <2>5
  <2> QED BY <2>6
<1>3. Cardinality(Scene) \in Nat
  BY FS_CardinalityType DEF CardsAssumption
<1> QED BY <1>1, <1>2, <1>3

LEMMA CardsStart ==
  ASSUME CardsAssumption, CardsInit
  PROVE  CardsInv
<1>1. Cards = {} /\ cards \in [Scene -> Card \cup {NoCard}]
  BY DEF CardsInit, Cards
<1>2. \A t \in Scene : Deps[t] = {}
  BY <1>1 DEF Deps
<1>3. ~Cyclic(Deps)
  BY <1>2, NothingReached DEF Cyclic
<1>4. CardsTypeOK
  BY <1>1 DEF CardsTypeOK, CardsInit
<1> QED BY <1>1, <1>3, <1>4 DEF CardsInv, OnePlaceEach

LEMMA CardsStand ==
  ASSUME CardsInv, NEW s \in Cards
  PROVE  /\ s \in Scene /\ cards[s] \in Card
         /\ cards[s].status \in CardStatus /\ cards[s].chapter \in chapters \cap Chapter
         /\ cards[s].place \in Place /\ cards[s].deps \subseteq Cards \ {s}
BY DEF CardsInv, CardsTypeOK, Cards, Card

\* A card is written or rewritten: the same scenes, or one more.
Writes(s, card) ==
  /\ card \in Card /\ card.chapter \in chapters /\ card.deps \subseteq Cards \ {s}
  /\ \A t \in Cards \ {s} : cards[t].place # card.place
  /\ ~Cyclic([Deps EXCEPT ![s] = card.deps])
  /\ cards' = [cards EXCEPT ![s] = card]
  /\ UNCHANGED <<arcs, chapters>>

LEMMA WritesKeeps ==
  ASSUME CardsInv, NEW s \in Scene, NEW card, Writes(s, card)
  PROVE  CardsInv'
<1>1. /\ card \in Card /\ card # NoCard /\ card.chapter \in chapters /\ card.deps \subseteq Cards \ {s}
      /\ \A t \in Cards \ {s} : cards[t].place # card.place
      /\ UNCHANGED <<arcs, chapters>>
  BY DEF Writes, Card, NoCard, CardStatus
<1>2. /\ cards' \in [Scene -> Card \cup {NoCard}] /\ cards'[s] = card
      /\ \A t \in Scene : t # s => cards'[t] = cards[t]
  BY <1>1 DEF CardsInv, Writes
<1>3. Cards' = Cards \cup {s} /\ \A t \in Cards : t # s => cards'[t] = cards[t]
  BY <1>1, <1>2 DEF Cards
<1>4. CardsTypeOK'
  <2>1. ASSUME NEW t \in Cards'
        PROVE  cards'[t] \in Card /\ cards'[t].chapter \in chapters /\ cards'[t].deps \subseteq Cards' \ {t}
    <3>1. CASE t = s
      BY <1>1, <1>2, <1>3, <3>1
    <3>2. CASE t # s
      BY <1>3, <2>1, <3>2 DEF CardsInv, CardsTypeOK
    <3> QED BY <3>1, <3>2
  <2> QED BY <1>1, <2>1 DEF CardsInv, CardsTypeOK
<1>5. OnePlaceEach'
  <2>1. ASSUME NEW t \in Cards', NEW u \in Cards', cards'[t].place = cards'[u].place
        PROVE  t = u
    BY <1>1, <1>2, <1>3, <2>1 DEF CardsInv, OnePlaceEach
  <2> QED BY <2>1 DEF OnePlaceEach
<1>6. Deps' = [Deps EXCEPT ![s] = card.deps]
  <2>1. \A t \in Scene : (IF t \in Cards' THEN cards'[t].deps ELSE {}) = [Deps EXCEPT ![s] = card.deps][t]
    BY <1>2, <1>3 DEF Deps
  <2> QED BY <2>1 DEF Deps
<1>7. ~Cyclic(Deps')
  BY <1>6 DEF Writes
<1>8. ~Cyclic(Deps)'
  BY <1>7 DEF Cyclic
<1> QED BY <1>2, <1>4, <1>5, <1>8 DEF CardsInv

LEMMA SameDeps ==
  ASSUME CardsInv, NEW s \in Scene, NEW card, card.deps = IF s \in Cards THEN cards[s].deps ELSE {}
  PROVE  ~Cyclic([Deps EXCEPT ![s] = card.deps])
<1>1. [Deps EXCEPT ![s] = card.deps] = Deps
  BY DEF Deps
<1> QED BY <1>1 DEF CardsInv

\* A scene that is made anew depends on nothing, which closes no cycle.
LEMMA NoDeps ==
  ASSUME CardsInv, NEW s \in Scene
  PROVE  ~Cyclic([Deps EXCEPT ![s] = {}])
<1>1. \A t \in Scene : Deps[t] \subseteq Scene /\ [Deps EXCEPT ![s] = {}][t] \subseteq Deps[t]
  BY CardsStand DEF Deps, Cards
<1>2. \A t \in Scene : Reaches([Deps EXCEPT ![s] = {}], t) \subseteq Reaches(Deps, t)
  BY <1>1, CardsAssumption, FewerReached
<1> QED BY <1>2 DEF Cyclic, CardsInv

LEMMA CardsStep ==
  ASSUME CardsInv, [CardsNext]_cardVars
  PROVE  CardsInv'
<1>1. ASSUME UNCHANGED cards, arcs' \in 0 .. 1, chapters \subseteq chapters', chapters' \subseteq Chapter
      PROVE  CardsInv'
  <2>1. Cards' = Cards /\ Deps' = Deps
    BY <1>1 DEF Cards, Deps
  <2>2. CardsTypeOK'
    BY <1>1, <2>1 DEF CardsInv, CardsTypeOK
  <2>3. OnePlaceEach' /\ ~Cyclic(Deps)'
    BY <1>1, <2>1 DEF CardsInv, OnePlaceEach, Cyclic
  <2> QED BY <1>1, <2>2, <2>3 DEF CardsInv
<1>2. CASE UNCHANGED cardVars \/ CreateArc \/ \E c \in Chapter : CreateChapter(c)
  BY <1>1, <1>2 DEF cardVars, CreateArc, CreateChapter, CardsInv, CardsTypeOK
<1>3. ASSUME NEW s \in Scene, NEW c \in Chapter, NEW p \in Place, CreateScene(s, c, p)
      PROVE  CardsInv'
  <2>1. PICK card : card = [status |-> "draft", chapter |-> c, place |-> p, deps |-> {}]
    OBVIOUS
  <2>2. card \in Card /\ card.chapter = c /\ card.place = p /\ card.deps = {}
    BY <2>1 DEF Card, CardStatus
  <2>3. ~Cyclic([Deps EXCEPT ![s] = card.deps])
    BY <2>2, NoDeps
  <2>4. \A t \in Cards \ {s} : cards[t].place # p
    BY <1>3 DEF CreateScene, PlaceTaken
  <2>5. Writes(s, card)
    BY <1>3, <2>1, <2>2, <2>3, <2>4 DEF CreateScene, Writes
  <2> QED BY <2>5, WritesKeeps
<1>4. ASSUME NEW s \in Cards, NEW c \in Chapter, NEW p \in Place, PatchScene(s, c, p)
      PROVE  CardsInv'
  <2>1. PICK old \in Card : old = cards[s] /\ old.deps \subseteq Cards \ {s} /\ s \in Scene
    BY CardsStand
  <2>2. PICK q \in Place : q = IF PlaceTaken({s}, c, p) THEN old.place ELSE p
    BY DEF Card
  <2>3. PICK card : card = [[old EXCEPT !.chapter = c] EXCEPT !.place = q]
    OBVIOUS
  <2>4. card \in Card /\ card.chapter = c /\ card.place = q /\ card.deps = old.deps
    BY <2>3 DEF Card
  <2>5. cards' = [cards EXCEPT ![s] = card]
    BY <1>4, <2>1, <2>2, <2>3 DEF PatchScene, Card
  <2>6. \A t \in Cards \ {s} : cards[t].place # q
    BY <2>1, <2>2 DEF PlaceTaken, CardsInv, OnePlaceEach
  <2>7. ~Cyclic([Deps EXCEPT ![s] = card.deps])
    BY <2>1, <2>4, SameDeps
  <2>8. Writes(s, card)
    BY <1>4, <2>1, <2>4, <2>5, <2>6, <2>7 DEF PatchScene, Writes
  <2> QED BY <2>1, <2>8, WritesKeeps
<1>5. ASSUME NEW s \in Cards, NEW D \in SUBSET Cards, SetDependencies(s, D)
      PROVE  CardsInv'
  <2>1. PICK old \in Card : old = cards[s] /\ s \in Scene /\ old.chapter \in chapters
    BY CardsStand
  <2>2. PICK card : card = [old EXCEPT !.deps = D]
    OBVIOUS
  <2>3. D \subseteq Scene
    BY DEF Cards
  <2>4. card \in Card /\ card.chapter = old.chapter /\ card.place = old.place /\ card.deps = D
    BY <2>2, <2>3 DEF Card
  <2>5. \A t \in Cards \ {s} : cards[t].place # card.place
    BY <2>1, <2>4 DEF CardsInv, OnePlaceEach
  <2>6. Writes(s, card)
    BY <1>5, <2>1, <2>2, <2>4, <2>5 DEF SetDependencies, Writes
  <2> QED BY <2>1, <2>6, WritesKeeps
<1>6. ASSUME NEW s \in Cards, ApproveScene(s)
      PROVE  CardsInv'
  <2>1. PICK old \in Card : /\ old = cards[s] /\ s \in Scene /\ old.chapter \in chapters
                            /\ old.deps \subseteq Cards \ {s}
    BY CardsStand
  <2>2. PICK card : card = [old EXCEPT !.status = "approved"]
    OBVIOUS
  <2>3. card \in Card /\ card.chapter = old.chapter /\ card.place = old.place /\ card.deps = old.deps
    BY <2>2 DEF Card, CardStatus
  <2>4. \A t \in Cards \ {s} : cards[t].place # card.place
    BY <2>1, <2>3 DEF CardsInv, OnePlaceEach
  <2>5. ~Cyclic([Deps EXCEPT ![s] = card.deps])
    BY <2>1, <2>3, SameDeps
  <2>6. Writes(s, card)
    BY <1>6, <2>1, <2>2, <2>3, <2>4, <2>5 DEF ApproveScene, Writes
  <2> QED BY <2>1, <2>6, WritesKeeps
<1> QED BY <1>2, <1>3, <1>4, <1>5, <1>6 DEF CardsNext

LEMMA CardsInvariant == CardsSpec => []CardsInv
<1>1. CardsInit => CardsInv
  BY CardsAssumption, CardsStart
<1>2. CardsInv /\ [CardsNext]_cardVars => CardsInv'
  BY CardsStep
<1> QED BY <1>1, <1>2, PTL DEF CardsSpec

\* Every card lies in a chapter that exists and depends on other cards only,
\* also after a request that was refused half-way.
THEOREM CardsTypeCorrect == CardsSpec => []CardsTypeOK
<1>1. CardsInv => CardsTypeOK
  BY DEF CardsInv
<1> QED BY <1>1, CardsInvariant, PTL

\* For any number of scenes and places: no two scenes ever share a place of the
\* story and no scene waits for itself, however cards are moved and linked and
\* although a refused request leaves what it has written.
THEOREM StoryAlwaysOrdered == CardsSpec => []StoryStaysOrdered
<1>1. CardsInv => StoryStaysOrdered
  BY CardsStand DEF CardsInv, OnePlaceEach, StoryStaysOrdered, Cyclic
<1> QED BY <1>1, CardsInvariant, PTL

=============================================================================
