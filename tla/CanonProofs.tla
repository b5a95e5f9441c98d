----------------------------- MODULE CanonProofs -----------------------------
(***************************************************************************)
(* What the ledger and the approval loop keep for any number of            *)
(* candidates, runs, entities, facts and snapshots.                        *)
(*                                                                         *)
(* The theorems about CanonLedger rest on LedgerInv: the type of the       *)
(* tables, the two-way links of supersession, the age of the facts, which  *)
(* grows along these links, and what a snapshot may name.  Those about     *)
(* CanonPipeline rest on PipelineInv, which adds that two runs that are    *)
(* not over hold different candidates and that an approved candidate has   *)
(* its verdict.                                                            *)
(***************************************************************************)
EXTENDS CanonPipeline, FiniteSetTheorems, TLAPS

-----------------------------------------------------------------------------
(* The dict assignment *)

\* Writing a row of the right kind keeps the table a table of such rows.
LEMMA PutType ==
  ASSUME NEW table, NEW S, NEW T, NEW id \in S, NEW row \in T,
         DOMAIN table \subseteq S, table \in [DOMAIN table -> T]
  PROVE  /\ DOMAIN Put(table, id, row) \subseteq S
         /\ Put(table, id, row) \in [DOMAIN Put(table, id, row) -> T]
  BY DEF Put

-----------------------------------------------------------------------------
(* Induction, as the least element of a set of natural numbers: the sets 0 .. n *)
(* are finite, and strict inclusion of finite sets is well-founded.             *)

LEMMA LeastNat ==
  ASSUME NEW T, T \subseteq Nat, T # {}
  PROVE  \E x \in T : \A y \in T : x <= y
<1> DEFINE Upto == {0 .. n : n \in T}
<1>1. IsWellFoundedOn(StrictSubsetOrdering(Nat), FiniteSubsetsOf(Nat))
  BY FS_StrictSubsetOrderingWellFounded
<1>2. \A n \in T : 0 .. n \in FiniteSubsetsOf(Nat)
  BY FS_Interval DEF FiniteSubsetsOf
<1>3. Upto \subseteq FiniteSubsetsOf(Nat) /\ Upto # {}
  BY <1>2
<1>4. PICK X \in Upto : \A Y \in Upto : ~(<<Y, X>> \in StrictSubsetOrdering(Nat))
  BY <1>1, <1>3, WFMin
<1>5. PICK x \in T : X = 0 .. x
  BY <1>4
<1>6. ASSUME NEW y \in T
      PROVE  x <= y
  <2>1. 0 .. y \in SUBSET Nat /\ 0 .. x \in SUBSET Nat /\ 0 .. y \in Upto
    OBVIOUS
  <2>2. ~(0 .. y \subseteq 0 .. x /\ 0 .. y # 0 .. x)
    BY <1>4, <1>5, <2>1 DEF StrictSubsetOrdering
  <2>3. CASE y < x
    <3>1. x \in Nat /\ y \in Nat /\ x \notin 0 .. y /\ x \in 0 .. x /\ 0 .. y \subseteq 0 .. x
      BY <2>3
    <3> QED BY <2>2, <3>1
  <2> QED BY <2>3
<1> QED BY <1>6

LEMMA NatBySteps ==
  ASSUME NEW S, 0 \in S, \A n \in Nat : n \in S => n + 1 \in S
  PROVE  Nat \subseteq S
<1> SUFFICES ASSUME ~(Nat \subseteq S) PROVE FALSE
  OBVIOUS
<1>1. Nat \ S \subseteq Nat /\ Nat \ S # {}
  OBVIOUS
<1>2. PICK x \in Nat \ S : \A y \in Nat \ S : x <= y
  BY <1>1, LeastNat
<1>3. x \in Nat /\ x # 0 /\ x \notin S
  BY <1>2
<1>4. x - 1 \in Nat /\ (x - 1) + 1 = x /\ ~(x <= x - 1)
  BY <1>3
<1> QED BY <1>2, <1>3, <1>4

\* A function that says what comes next may be followed from any element.
Follows(h, next, x) == h[0] = x /\ \A n \in Nat : h[n + 1] = next[h[n]]

LEMMA Iterates ==
  ASSUME NEW D, NEW next \in [D -> D], NEW x \in D
  PROVE  \E h \in [Nat -> D] : Follows(h, next, x)
<1> DEFINE Prefix(g, n) == g[0] = x /\ \A i \in 0 .. n : i < n => g[i + 1] = next[g[i]]
           S == {n \in Nat : \E g \in [Nat -> D] : Prefix(g, n)}
<1>1. 0 \in S
  <2>1. [i \in Nat |-> x] \in [Nat -> D] /\ Prefix([i \in Nat |-> x], 0)
    OBVIOUS
  <2> QED BY <2>1
<1>2. ASSUME NEW n \in Nat, n \in S
      PROVE  n + 1 \in S
  <2>1. PICK g \in [Nat -> D] : Prefix(g, n)
    BY <1>2
  <2> DEFINE h == [i \in Nat |-> IF i <= n THEN g[i] ELSE next[g[n]]]
  <2>2. h \in [Nat -> D]
    OBVIOUS
  <2>3. \A i \in 0 .. n : h[i] = g[i]
    OBVIOUS
  <2>4. h[n + 1] = next[g[n]]
    OBVIOUS
  <2>5. Prefix(h, n + 1)
    <3>1. h[0] = x
      BY <2>1, <2>3
    <3>2. ASSUME NEW i \in 0 .. n + 1, i < n + 1
          PROVE  h[i + 1] = next[h[i]]
      <4>1. CASE i = n
        BY <2>3, <2>4, <4>1
      <4>2. CASE i < n
        <5>1. i \in 0 .. n /\ i + 1 \in 0 .. n
          BY <3>2, <4>2
        <5> QED BY <2>1, <2>3, <4>2, <5>1
      <4> QED BY <3>2, <4>1, <4>2
    <3> QED BY <3>1, <3>2
  <2> HIDE DEF h, Prefix
  <2>6. n + 1 \in Nat
    OBVIOUS
  <2> QED BY <2>2, <2>5, <2>6
<1>3. Nat \subseteq S
  <2> HIDE DEF S
  <2> QED BY <1>1, <1>2, NatBySteps
<1> DEFINE pick == [n \in Nat |-> CHOOSE g \in [Nat -> D] : Prefix(g, n)]
<1>4. \A n \in Nat : pick[n] \in [Nat -> D] /\ Prefix(pick[n], n)
  BY <1>3
<1> HIDE DEF pick
\* Two prefixes agree as far as both go.
<1>5. ASSUME NEW f \in [Nat -> D], NEW g \in [Nat -> D], NEW m \in Nat,
             Prefix(f, m), Prefix(g, m)
      PROVE  f[m] = g[m]
  <2> DEFINE A == {i \in Nat : i <= m => f[i] = g[i]}
  <2>1. 0 \in A
    BY <1>5
  <2>2. ASSUME NEW n \in Nat, n \in A
        PROVE  n + 1 \in A
    <3>1. CASE n + 1 <= m
      <4>1. n \in 0 .. m /\ n < m /\ f[n] = g[n]
        BY <2>2, <3>1
      <4>2. f[n + 1] = g[n + 1]
        BY <1>5, <4>1
      <4> QED BY <4>2
    <3> QED BY <3>1
  <2>3. Nat \subseteq A
    <3> HIDE DEF A
    <3> QED BY <2>1, <2>2, NatBySteps
  <2> QED BY <2>3
<1> DEFINE h == [n \in Nat |-> pick[n][n]]
<1>6. h \in [Nat -> D] /\ h[0] = x
  BY <1>4
<1>7. ASSUME NEW n \in Nat
      PROVE  h[n + 1] = next[h[n]]
  <2>1. Prefix(pick[n + 1], n) /\ pick[n + 1][n + 1] = next[pick[n + 1][n]]
    BY <1>4
  <2>2. pick[n + 1][n] = pick[n][n]
    <3> HIDE DEF Prefix
    <3> QED BY <1>4, <1>5, <2>1
  <2> QED BY <2>1, <2>2
<1> QED BY <1>6, <1>7 DEF Follows

-----------------------------------------------------------------------------
(* Types *)

LEMMA NewFactType ==
  ASSUME NEW e \in EntityId, NEW p \in Predicate, NEW v \in Value, NEW t \in StoryTime,
         NEW status \in FactStatus, NEW old \in FactId \cup {NoFact}
  PROVE  NewFact(e, p, v, t, status, old) \in Fact
  BY DEF NewFact, Fact

LEMMA RetiredType ==
  ASSUME LedgerTypeOK, NEW old \in DOMAIN facts, NEW new \in FactId
  PROVE  /\ DOMAIN Retired(old, new) = DOMAIN facts
         /\ Retired(old, new) \in [DOMAIN facts -> Fact]
  BY DEF LedgerTypeOK, Retired, Put, Fact, FactStatus

LEMMA RestatusType ==
  ASSUME LedgerTypeOK, NEW f \in DOMAIN facts, NEW status \in FactStatus
  PROVE  /\ DOMAIN Restatus(f, status) = DOMAIN facts
         /\ Restatus(f, status) \in [DOMAIN facts -> Fact]
  BY DEF LedgerTypeOK, Restatus, Put, Fact

LEMMA LedgerInitType == LedgerInit => LedgerTypeOK
  BY DEF LedgerInit, LedgerTypeOK, EmptyTable

LEMMA LedgerStepType ==
  ASSUME LedgerTypeOK, LedgerNext
  PROVE  LedgerTypeOK'
<1> USE DEF LedgerTypeOK
<1>1. ASSUME NEW e \in EntityId, NEW n \in EntityName, NEW y \in EntityType,
             CreateEntity(e, n, y)
      PROVE  LedgerTypeOK'
  <2>1. [name |-> n, type |-> y] \in Entity
    BY DEF Entity
  <2> QED BY <1>1, <2>1, PutType DEF CreateEntity
<1>2. ASSUME NEW f \in FactId, NEW e \in EntityId, NEW p \in Predicate,
             NEW v \in Value, NEW t \in StoryTime, CreateFact(f, e, p, v, t)
      PROVE  LedgerTypeOK'
  <2>1. NewFact(e, p, v, t, "NotInCanon", NoFact) \in Fact
    BY NewFactType DEF FactStatus
  <2> QED BY <1>2, <2>1, PutType DEF CreateFact
<1>3. ASSUME NEW f \in FactId, ApproveFact(f)
      PROVE  LedgerTypeOK'
  BY <1>3, RestatusType DEF ApproveFact, FactStatus
<1>4. ASSUME NEW f \in FactId, AbandonFact(f)
      PROVE  LedgerTypeOK'
  BY <1>4, RestatusType DEF AbandonFact, FactStatus
<1>5. ASSUME NEW old \in FactId, NEW new \in FactId, NEW e \in EntityId,
             NEW p \in Predicate, NEW v \in Value, NEW t \in StoryTime,
             SupersedeFact(old, new, e, p, v, t)
      PROVE  LedgerTypeOK'
  <2>1. NewFact(e, p, v, t, "Active", old) \in Fact
    BY NewFactType DEF FactStatus
  <2>2. /\ DOMAIN Retired(old, new) = DOMAIN facts
        /\ Retired(old, new) \in [DOMAIN facts -> Fact]
    BY <1>5, RetiredType DEF SupersedeFact
  <2> QED BY <1>5, <2>1, <2>2, PutType DEF SupersedeFact
<1>6. ASSUME NEW s \in SnapshotId, NEW as_of \in StoryTime \cup {NoTime},
             CreateSnapshot(s, as_of)
      PROVE  LedgerTypeOK'
  <2> DEFINE row == [fact_ids |-> ActiveAsOf(as_of), as_of |-> as_of, frozen |-> FALSE]
  <2>1. row \in Snapshot
    BY DEF Snapshot, ActiveAsOf
  <2>2. snapshots' = Put(snapshots, s, row)
    BY <1>6 DEF CreateSnapshot
  <2> HIDE DEF row
  <2>3. /\ DOMAIN snapshots' \subseteq SnapshotId
        /\ snapshots' \in [DOMAIN snapshots' -> Snapshot]
    BY <2>1, <2>2, PutType
  <2> QED BY <1>6, <2>3 DEF CreateSnapshot
<1>7. ASSUME NEW s \in SnapshotId, FreezeSnapshot(s)
      PROVE  LedgerTypeOK'
  <2>1. [snapshots[s] EXCEPT !.frozen = TRUE] \in Snapshot
    BY <1>7 DEF FreezeSnapshot, Snapshot
  <2> QED BY <1>7, <2>1, PutType DEF FreezeSnapshot
<1> QED BY <1>1, <1>2, <1>3, <1>4, <1>5, <1>6, <1>7 DEF LedgerNext

-----------------------------------------------------------------------------
(* Supersession *)

\* What each handler does to a row of the fact table.
LEMMA RestatusRows ==
  ASSUME LedgerTypeOK, NEW f \in DOMAIN facts, NEW status \in FactStatus,
         facts' = Restatus(f, status)
  PROVE  /\ DOMAIN facts' = DOMAIN facts
         /\ facts'[f] = [facts[f] EXCEPT !.status = status, !.version_status = status]
         /\ \A g \in DOMAIN facts : g # f => facts'[g] = facts[g]
  BY DEF Restatus, Put

LEMMA SupersedeRows ==
  ASSUME LedgerTypeOK, NEW old \in DOMAIN facts, NEW new \in FactId \ DOMAIN facts,
         NEW row, facts' = Put(Retired(old, new), new, row)
  PROVE  /\ DOMAIN facts' = DOMAIN facts \cup {new}
         /\ old # new
         /\ facts'[new] = row
         /\ facts'[old] = [facts[old] EXCEPT !.status = "Superseded", !.superseded_by = new]
         /\ \A g \in DOMAIN facts : g # old => facts'[g] = facts[g]
  BY DEF Retired, Put

\* One row of SupersessionLinked.
Linked(f) ==
  LET old == facts[f].supersedes
      new == facts[f].superseded_by
  IN /\ facts[f].status = "Superseded" <=> new # NoFact
     /\ new # NoFact => /\ new \in DOMAIN facts
                        /\ facts[new].supersedes = f
     /\ old # NoFact => /\ old \in DOMAIN facts
                        /\ facts[old].superseded_by = f
                        /\ facts[f].status \in InCanon

LEMMA LinkedEach == SupersessionLinked <=> \A f \in DOMAIN facts : Linked(f)
  BY DEF SupersessionLinked, Linked

\* A fact that has not been in Canon is on neither end of a supersession, so
\* its status may move among the statuses outside Canon, or enter Canon.
LEMMA RestatusKeepsLinks ==
  ASSUME LedgerTypeOK, SupersessionLinked,
         NEW f \in DOMAIN facts, NEW status \in FactStatus \ {"Superseded"},
         facts[f].status \in NotYetActive, facts' = Restatus(f, status)
  PROVE  SupersessionLinked'
<1>1. /\ DOMAIN facts' = DOMAIN facts
      /\ facts'[f] = [facts[f] EXCEPT !.status = status, !.version_status = status]
      /\ \A g \in DOMAIN facts : g # f => facts'[g] = facts[g]
  BY RestatusRows
<1>2. facts[f] \in Fact
  BY DEF LedgerTypeOK
<1>3. /\ facts[f].superseded_by = NoFact
      /\ facts[f].supersedes = NoFact
  BY DEF SupersessionLinked, NotYetActive, InCanon
<1>4. /\ facts'[f].status = status
      /\ facts'[f].superseded_by = NoFact
      /\ facts'[f].supersedes = NoFact
  BY <1>1, <1>2, <1>3 DEF Fact
<1>5. ASSUME NEW g \in DOMAIN facts
      PROVE  /\ facts'[g].superseded_by = facts[g].superseded_by
             /\ facts'[g].supersedes = facts[g].supersedes
             /\ g # f => facts'[g].status = facts[g].status
  BY <1>1, <1>3, <1>4
<1>6. ASSUME NEW g \in DOMAIN facts
      PROVE  Linked(g)'
  <2>1. Linked(g)
    BY LinkedEach
  <2>2. CASE g = f
    BY <1>4, <2>2 DEF Linked
  <2>3. CASE g # f
    BY <1>1, <1>5, <2>1, <2>3 DEF Linked
  <2> QED BY <2>2, <2>3
<1> QED BY <1>1, <1>6 DEF SupersessionLinked, Linked

LEMMA SupersedeKeepsLinks ==
  ASSUME LedgerTypeOK, SupersessionLinked,
         NEW old \in DOMAIN facts, NEW new \in FactId \ DOMAIN facts,
         NEW e, NEW p, NEW v, NEW t, facts[old].status = "Active",
         facts' = Put(Retired(old, new), new, NewFact(e, p, v, t, "Active", old))
  PROVE  SupersessionLinked'
<1> DEFINE row == NewFact(e, p, v, t, "Active", old)
<1>1. /\ DOMAIN facts' = DOMAIN facts \cup {new}
      /\ old # new
      /\ facts'[new] = row
      /\ facts'[old] = [facts[old] EXCEPT !.status = "Superseded", !.superseded_by = new]
      /\ \A g \in DOMAIN facts : g # old => facts'[g] = facts[g]
  BY SupersedeRows
<1>2. /\ row.status = "Active"
      /\ row.supersedes = old
      /\ row.superseded_by = NoFact
  BY DEF NewFact
<1>3. /\ facts'[old].status = "Superseded"
      /\ facts'[old].superseded_by = new
      /\ facts'[old].supersedes = facts[old].supersedes
  <2>1. facts[old] \in Fact
    BY DEF LedgerTypeOK
  <2> QED BY <1>1, <2>1 DEF Fact
<1>4. old # NoFact /\ new # NoFact
  BY LedgerAssumption DEF LedgerTypeOK
<1> HIDE DEF row
<1>5. Linked(new)'
  BY <1>1, <1>2, <1>3, <1>4 DEF Linked, InCanon
<1>6. ASSUME NEW g \in DOMAIN facts
      PROVE  Linked(g)'
  <2>1. facts[old].superseded_by = NoFact
    BY DEF SupersessionLinked
  <2>2. CASE g = old
    BY <1>1, <1>2, <1>3, <1>4, <2>2, <2>1 DEF SupersessionLinked, Linked, InCanon
  <2>3. CASE g # old
    <3>1. facts'[g] = facts[g]
      BY <1>1, <2>3
    <3>2. facts[g].superseded_by # NoFact => facts'[facts[g].superseded_by].supersedes = g
      BY <1>1, <1>3 DEF SupersessionLinked
    <3>3. facts[g].supersedes # NoFact => facts'[facts[g].supersedes].superseded_by = g
      <4>1. g # NoFact
        BY LedgerAssumption DEF LedgerTypeOK
      <4> QED BY <1>1, <2>1, <4>1 DEF SupersessionLinked
    <3> QED BY <1>1, <3>1, <3>2, <3>3 DEF SupersessionLinked, Linked
  <2> QED BY <2>2, <2>3
<1>7. \A g \in DOMAIN facts' : Linked(g)'
  BY <1>1, <1>5, <1>6
<1> QED BY <1>7 DEF SupersessionLinked, Linked

LEMMA LedgerStepLinks ==
  ASSUME LedgerTypeOK, SupersessionLinked, LedgerNext
  PROVE  SupersessionLinked'
<1>1. CASE UNCHANGED facts
  BY <1>1 DEF SupersessionLinked
<1>2. ASSUME NEW f \in FactId, NEW e \in EntityId, NEW p \in Predicate,
             NEW v \in Value, NEW t \in StoryTime, CreateFact(f, e, p, v, t)
      PROVE  SupersessionLinked'
  <2> DEFINE row == NewFact(e, p, v, t, "NotInCanon", NoFact)
  <2>1. /\ row.status = "NotInCanon"
        /\ row.supersedes = NoFact
        /\ row.superseded_by = NoFact
    BY DEF NewFact
  <2>2. f \in FactId \ DOMAIN facts /\ facts' = Put(facts, f, row)
    BY <1>2 DEF CreateFact
  <2> HIDE DEF row
  <2>3. /\ DOMAIN facts' = DOMAIN facts \cup {f}
        /\ facts'[f] = row
        /\ \A g \in DOMAIN facts : facts'[g] = facts[g]
    BY <2>2 DEF Put
  <2> QED BY <2>1, <2>3 DEF SupersessionLinked, InCanon
<1>3. ASSUME NEW f \in FactId, ApproveFact(f) \/ AbandonFact(f)
      PROVE  SupersessionLinked'
  BY <1>3, RestatusKeepsLinks DEF ApproveFact, AbandonFact, FactStatus
<1>4. ASSUME NEW old \in FactId, NEW new \in FactId, NEW e \in EntityId,
             NEW p \in Predicate, NEW v \in Value, NEW t \in StoryTime,
             SupersedeFact(old, new, e, p, v, t)
      PROVE  SupersessionLinked'
  BY <1>4, SupersedeKeepsLinks DEF SupersedeFact
<1> QED BY <1>1, <1>2, <1>3, <1>4
        DEF LedgerNext, CreateEntity, CreateSnapshot, FreezeSnapshot

-----------------------------------------------------------------------------
(* Rows that have been in Canon *)

\* What a step of the ledger may do to the row of fact f.
Kept(f) ==
  /\ f \in DOMAIN facts'
  /\ Content(f)' = Content(f)
  /\ facts[f].status \in InCanon => facts'[f].status \in InCanon
  /\ facts[f].status \in {"Superseded", "Abandoned"} => facts'[f] = facts[f]

LEMMA LedgerStepKeeps ==
  ASSUME LedgerTypeOK, LedgerNext, NEW g \in DOMAIN facts
  PROVE  Kept(g)
<1>1. facts[g] \in Fact
  BY DEF LedgerTypeOK
<1>2. ASSUME g \in DOMAIN facts', facts'[g] = facts[g]
      PROVE  Kept(g)
  BY <1>2 DEF Kept, Content
<1>3. CASE UNCHANGED facts
  BY <1>2, <1>3
<1>4. ASSUME NEW f \in FactId, NEW e \in EntityId, NEW p \in Predicate,
             NEW v \in Value, NEW t \in StoryTime, CreateFact(f, e, p, v, t)
      PROVE  Kept(g)
  <2>1. g \in DOMAIN facts' /\ facts'[g] = facts[g]
    BY <1>4 DEF CreateFact, Put
  <2> QED BY <1>2, <2>1
<1>5. ASSUME NEW f \in FactId, NEW status \in {"Active", "Abandoned"}, f \in DOMAIN facts,
             facts[f].status \in NotYetActive, facts' = Restatus(f, status)
      PROVE  Kept(g)
  <2>1. /\ DOMAIN facts' = DOMAIN facts
        /\ facts'[f] = [facts[f] EXCEPT !.status = status, !.version_status = status]
        /\ g # f => facts'[g] = facts[g]
    BY <1>5, RestatusRows DEF FactStatus
  <2>2. ASSUME g = f
        PROVE  Kept(g)
    BY <1>1, <1>5, <2>1, <2>2 DEF Kept, Content, Fact, NotYetActive, InCanon
  <2> QED BY <1>2, <2>1, <2>2
<1>6. ASSUME NEW old \in FactId, NEW new \in FactId, NEW e \in EntityId,
             NEW p \in Predicate, NEW v \in Value, NEW t \in StoryTime,
             SupersedeFact(old, new, e, p, v, t)
      PROVE  Kept(g)
  <2>1. /\ DOMAIN facts' = DOMAIN facts \cup {new}
        /\ facts'[old] = [facts[old] EXCEPT !.status = "Superseded", !.superseded_by = new]
        /\ g # old => facts'[g] = facts[g]
    BY <1>6, SupersedeRows DEF SupersedeFact
  <2>2. ASSUME g = old
        PROVE  Kept(g)
    BY <1>1, <1>6, <2>1, <2>2 DEF Kept, Content, Fact, InCanon, SupersedeFact
  <2> QED BY <1>2, <2>1, <2>2
<1>7. ASSUME NEW f \in FactId, ApproveFact(f) \/ AbandonFact(f)
      PROVE  Kept(g)
  BY <1>5, <1>7 DEF ApproveFact, AbandonFact
<1> QED BY <1>3, <1>4, <1>6, <1>7
        DEF LedgerNext, CreateEntity, CreateSnapshot, FreezeSnapshot

\* One fact named by snapshot s.
FromCanon(s, f) ==
  /\ f \in DOMAIN facts
  /\ facts[f].status \in InCanon
  /\ TimeInEffect(facts[f].time, snapshots[s].as_of)

\* The rows a snapshot names are chosen once, when it is created.
LEMMA SnapshotKeepsFacts ==
  ASSUME LedgerTypeOK, LedgerNext, NEW s \in DOMAIN snapshots
  PROVE  snapshots'[s].fact_ids = snapshots[s].fact_ids
<1>1. snapshots[s] \in Snapshot
  BY DEF LedgerTypeOK
<1>2. ASSUME NEW x \in SnapshotId, NEW as_of \in StoryTime \cup {NoTime},
             CreateSnapshot(x, as_of)
      PROVE  snapshots'[s].fact_ids = snapshots[s].fact_ids
  BY <1>2 DEF CreateSnapshot, Put
<1>3. ASSUME NEW x \in SnapshotId, FreezeSnapshot(x)
      PROVE  snapshots'[s].fact_ids = snapshots[s].fact_ids
  BY <1>1, <1>3 DEF FreezeSnapshot, Put, Snapshot
<1> QED BY <1>2, <1>3
        DEF LedgerNext, CreateEntity, CreateFact, ApproveFact, AbandonFact, SupersedeFact

LEMMA LedgerStepSnapshots ==
  ASSUME LedgerTypeOK, SnapshotFromCanon, LedgerNext
  PROVE  SnapshotFromCanon'
<1>1. ASSUME NEW s \in DOMAIN snapshots, NEW f \in snapshots[s].fact_ids,
             snapshots'[s].as_of = snapshots[s].as_of
      PROVE  FromCanon(s, f)'
  <2>1. FromCanon(s, f)
    BY DEF SnapshotFromCanon, FromCanon
  <2>2. Kept(f)
    BY <2>1, LedgerStepKeeps DEF FromCanon
  <2> QED BY <1>1, <2>1, <2>2 DEF FromCanon, Kept, Content
<1>2. CASE UNCHANGED snapshots
  BY <1>1, <1>2 DEF SnapshotFromCanon, FromCanon
<1>3. ASSUME NEW s \in SnapshotId, NEW as_of \in StoryTime \cup {NoTime},
             CreateSnapshot(s, as_of)
      PROVE  SnapshotFromCanon'
  <2> DEFINE row == [fact_ids |-> ActiveAsOf(as_of), as_of |-> as_of, frozen |-> FALSE]
  <2>1. /\ row.fact_ids = ActiveAsOf(as_of)
        /\ row.as_of = as_of
    OBVIOUS
  <2>2. s \notin DOMAIN snapshots /\ snapshots' = Put(snapshots, s, row) /\ UNCHANGED facts
    BY <1>3 DEF CreateSnapshot
  <2> HIDE DEF row
  <2>3. /\ DOMAIN snapshots' = DOMAIN snapshots \cup {s}
        /\ snapshots'[s] = row
        /\ \A x \in DOMAIN snapshots : snapshots'[x] = snapshots[x]
    BY <2>2 DEF Put
  <2>4. \A f \in row.fact_ids : FromCanon(s, f)'
    BY <2>1, <2>2, <2>3 DEF FromCanon, ActiveAsOf, InCanon
  <2>5. \A x \in DOMAIN snapshots : \A f \in snapshots[x].fact_ids : FromCanon(x, f)'
    BY <1>1, <2>3
  <2> QED BY <2>3, <2>4, <2>5 DEF SnapshotFromCanon, FromCanon
<1>4. ASSUME NEW s \in SnapshotId, FreezeSnapshot(s)
      PROVE  SnapshotFromCanon'
  <2>1. s \in DOMAIN snapshots /\ snapshots[s] \in Snapshot
    BY <1>4 DEF FreezeSnapshot, LedgerTypeOK
  <2>2. /\ DOMAIN snapshots' = DOMAIN snapshots
        /\ \A x \in DOMAIN snapshots :
             /\ snapshots'[x].as_of = snapshots[x].as_of
             /\ snapshots'[x].fact_ids = snapshots[x].fact_ids
    BY <1>4, <2>1 DEF FreezeSnapshot, Put, Snapshot
  <2>3. \A x \in DOMAIN snapshots : \A f \in snapshots[x].fact_ids : FromCanon(x, f)'
    BY <1>1, <2>2
  <2> QED BY <2>2, <2>3 DEF SnapshotFromCanon, FromCanon
<1> QED BY <1>2, <1>3, <1>4
        DEF LedgerNext, CreateEntity, CreateFact, ApproveFact, AbandonFact, SupersedeFact

-----------------------------------------------------------------------------
(* History *)

\* The facts came one after the other, and a fact is replaced by a later one.
Aged(age) ==
  \A f \in DOMAIN facts :
    /\ age[f] < Cardinality(DOMAIN facts)
    /\ facts[f].superseded_by \in DOMAIN facts => age[f] < age[facts[f].superseded_by]

FactsAged == IsFiniteSet(DOMAIN facts) /\ \E age \in [DOMAIN facts -> Nat] : Aged(age)

LEMMA LedgerInitAged == LedgerInit => FactsAged
<1> SUFFICES ASSUME LedgerInit PROVE FactsAged
  OBVIOUS
<1>1. DOMAIN facts = {}
  BY DEF LedgerInit, EmptyTable
<1>2. facts \in [DOMAIN facts -> Nat] /\ Aged(facts)
  BY <1>1 DEF Aged, LedgerInit, EmptyTable
<1> QED BY <1>1, <1>2, FS_EmptySet DEF FactsAged

LEMMA SameFactsAged ==
  ASSUME FactsAged, DOMAIN facts' = DOMAIN facts,
         \A g \in DOMAIN facts : facts'[g].superseded_by = facts[g].superseded_by
  PROVE  FactsAged'
BY DEF FactsAged, Aged

\* A new fact may replace others, and nothing replaces it yet.
LEMMA NewFactAged ==
  ASSUME FactsAged, NEW new, new \notin DOMAIN facts, DOMAIN facts' = DOMAIN facts \cup {new},
         facts'[new].superseded_by \notin DOMAIN facts',
         \A g \in DOMAIN facts : facts'[g].superseded_by \in {facts[g].superseded_by, new},
         \A g \in DOMAIN facts : facts[g].superseded_by # new
  PROVE  FactsAged'
<1> DEFINE size == Cardinality(DOMAIN facts)
<1>1. PICK age \in [DOMAIN facts -> Nat] : Aged(age)
  BY DEF FactsAged
<1>2. size \in Nat /\ Cardinality(DOMAIN facts') = size + 1 /\ IsFiniteSet(DOMAIN facts')
  BY FS_AddElement, FS_CardinalityType DEF FactsAged
<1>3. \A f \in DOMAIN facts : age[f] < size
  BY <1>1 DEF Aged
<1> HIDE DEF size
<1> DEFINE later == [f \in DOMAIN facts' |-> IF f = new THEN size ELSE age[f]]
<1>4. later \in [DOMAIN facts' -> Nat]
  BY <1>2
<1>5. later[new] = size /\ \A f \in DOMAIN facts : later[f] = age[f] /\ later[f] < size
  BY <1>3
<1> HIDE DEF later
<1>6. ASSUME NEW f \in DOMAIN facts'
      PROVE  /\ later[f] < size + 1
             /\ facts'[f].superseded_by \in DOMAIN facts'
                  => later[f] < later[facts'[f].superseded_by]
  <2>1. CASE f = new
    BY <1>2, <1>5, <2>1
  <2>2. CASE f # new
    <3>1. f \in DOMAIN facts /\ later[f] \in Nat /\ later[f] < size
      BY <1>4, <1>5, <2>2
    <3>2. facts[f].superseded_by \in DOMAIN facts => later[f] < later[facts[f].superseded_by]
      BY <1>1, <1>5, <3>1 DEF Aged
    <3> QED BY <1>2, <1>5, <3>1, <3>2
  <2> QED BY <2>1, <2>2
<1> QED BY <1>2, <1>4, <1>6 DEF FactsAged, Aged

LEMMA RestatusKeepsAge ==
  ASSUME LedgerTypeOK, FactsAged, NEW f \in DOMAIN facts, NEW status \in FactStatus,
         facts' = Restatus(f, status)
  PROVE  FactsAged'
<1>1. facts[f] \in Fact
  BY DEF LedgerTypeOK
<1>2. facts'[f].superseded_by = facts[f].superseded_by
  BY <1>1, RestatusRows DEF Fact
<1> QED BY <1>2, RestatusRows, SameFactsAged

LEMMA CreateKeepsAge ==
  ASSUME LedgerTypeOK, FactsAged, SupersessionLinked, NEW new \in FactId \ DOMAIN facts, NEW row,
         row.superseded_by = NoFact, facts' = Put(facts, new, row)
  PROVE  FactsAged'
<1>1. /\ DOMAIN facts' = DOMAIN facts \cup {new}
      /\ facts'[new] = row
      /\ \A g \in DOMAIN facts : facts'[g] = facts[g]
  BY DEF Put
<1>2. NoFact \notin DOMAIN facts'
  BY <1>1, LedgerAssumption DEF LedgerTypeOK
<1>3. \A g \in DOMAIN facts : facts[g].superseded_by # new
  BY LedgerAssumption DEF SupersessionLinked
<1> QED BY <1>1, <1>2, <1>3, NewFactAged

LEMMA SupersedeKeepsAge ==
  ASSUME LedgerTypeOK, FactsAged, SupersessionLinked,
         NEW old \in DOMAIN facts, NEW new \in FactId \ DOMAIN facts,
         NEW row, row.superseded_by = NoFact, facts' = Put(Retired(old, new), new, row)
  PROVE  FactsAged'
<1>1. /\ DOMAIN facts' = DOMAIN facts \cup {new}
      /\ facts'[new] = row
      /\ facts'[old] = [facts[old] EXCEPT !.status = "Superseded", !.superseded_by = new]
      /\ \A g \in DOMAIN facts : g # old => facts'[g] = facts[g]
  BY SupersedeRows
<1>2. facts'[old].superseded_by = new
  BY <1>1 DEF LedgerTypeOK, Fact
<1>3. NoFact \notin DOMAIN facts'
  BY <1>1, LedgerAssumption DEF LedgerTypeOK
<1>4. \A g \in DOMAIN facts : facts[g].superseded_by # new
  BY LedgerAssumption DEF SupersessionLinked
<1> QED BY <1>1, <1>2, <1>3, <1>4, NewFactAged

LEMMA LedgerStepAged ==
  ASSUME LedgerTypeOK, SupersessionLinked, FactsAged, LedgerNext
  PROVE  FactsAged'
<1>1. CASE UNCHANGED facts
  BY <1>1 DEF FactsAged, Aged
<1>2. ASSUME NEW f \in FactId, NEW e \in EntityId, NEW p \in Predicate,
             NEW v \in Value, NEW t \in StoryTime, CreateFact(f, e, p, v, t)
      PROVE  FactsAged'
  <2>1. NewFact(e, p, v, t, "NotInCanon", NoFact).superseded_by = NoFact
    BY DEF NewFact
  <2> QED BY <1>2, <2>1, CreateKeepsAge DEF CreateFact
<1>3. ASSUME NEW f \in FactId, ApproveFact(f) \/ AbandonFact(f)
      PROVE  FactsAged'
  BY <1>3, RestatusKeepsAge DEF ApproveFact, AbandonFact, FactStatus
<1>4. ASSUME NEW old \in FactId, NEW new \in FactId, NEW e \in EntityId,
             NEW p \in Predicate, NEW v \in Value, NEW t \in StoryTime,
             SupersedeFact(old, new, e, p, v, t)
      PROVE  FactsAged'
  <2>1. NewFact(e, p, v, t, "Active", old).superseded_by = NoFact
    BY DEF NewFact
  <2> QED BY <1>4, <2>1, SupersedeKeepsAge DEF SupersedeFact
<1> QED BY <1>1, <1>2, <1>3, <1>4
        DEF LedgerNext, CreateEntity, CreateSnapshot, FreezeSnapshot

\* What replaced a fact, or the fact itself while nothing did.
Heir == [g \in DOMAIN facts |-> IF facts[g].superseded_by \in DOMAIN facts
                                THEN facts[g].superseded_by ELSE g]

\* A retired fact has an heir that is in Canon and came later; one in effect has
\* none.
LEMMA HeirStep ==
  ASSUME LedgerTypeOK, SupersessionLinked, NEW age, Aged(age), NEW g \in DOMAIN facts
  PROVE  /\ Heir[g] \in DOMAIN facts
         /\ facts[g].status = "Superseded" =>
              facts[Heir[g]].status \in InCanon /\ age[g] < age[Heir[g]]
         /\ facts[g].status = "Active" => Heir[g] = g
<1>1. NoFact \notin DOMAIN facts /\ g # NoFact
  BY LedgerAssumption DEF LedgerTypeOK
<1>2. CASE facts[g].superseded_by = NoFact
  BY <1>1, <1>2 DEF Heir, SupersessionLinked
<1>3. CASE facts[g].superseded_by # NoFact
  <2>1. /\ facts[g].superseded_by \in DOMAIN facts /\ facts[g].status = "Superseded"
        /\ facts[facts[g].superseded_by].supersedes = g
    BY <1>3 DEF SupersessionLinked
  <2>2. facts[facts[g].superseded_by].status \in InCanon
    BY <1>1, <2>1 DEF SupersessionLinked
  <2> QED BY <2>1, <2>2 DEF Heir, Aged
<1> QED BY <1>2, <1>3

\* Every heir is older than the one before by one at least, and there are not
\* more ages than facts: the heirs run out, and the last one is in effect.
LEMMA HeirsRunOut ==
  ASSUME LedgerTypeOK, SupersessionLinked, FactsAged,
         NEW f \in DOMAIN facts, facts[f].status = "Superseded",
         NEW heir \in [Nat -> DOMAIN facts],
         heir[0] = f, \A n \in Nat : heir[n + 1] = Heir[heir[n]]
  PROVE  facts[heir[Cardinality(DOMAIN facts)]].status = "Active"
<1>1. PICK age \in [DOMAIN facts -> Nat] : Aged(age)
  BY DEF FactsAged
<1>2. Cardinality(DOMAIN facts) \in Nat
  BY FS_CardinalityType DEF FactsAged
<1> DEFINE S == {n \in Nat : /\ facts[heir[n]].status \in InCanon
                             /\ facts[heir[n]].status = "Superseded" => n <= age[heir[n]]}
<1>3. 0 \in S
  BY DEF InCanon
<1>4. ASSUME NEW n \in Nat, n \in S
      PROVE  n + 1 \in S
  <2> DEFINE g == heir[n]
             h == heir[n + 1]
  <2>1. g \in DOMAIN facts /\ h \in DOMAIN facts /\ h = Heir[g] /\ n + 1 \in Nat
    OBVIOUS
  <2>2. age[g] \in Nat /\ age[h] \in Nat
    BY <2>1
  <2>3. CASE facts[g].status = "Active"
    BY <1>1, <2>1, <2>3, HeirStep DEF InCanon
  <2>4. CASE facts[g].status = "Superseded"
    <3>1. facts[h].status \in InCanon /\ age[g] < age[h] /\ n <= age[g]
      BY <1>1, <1>4, <2>1, <2>4, HeirStep
    <3> QED BY <2>1, <2>2, <3>1
  <2> QED BY <1>4, <2>3, <2>4 DEF InCanon
<1>5. Nat \subseteq S
  <2> HIDE DEF S
  <2> QED BY <1>3, <1>4, NatBySteps
<1>6. /\ facts[heir[Cardinality(DOMAIN facts)]].status \in InCanon
      /\ facts[heir[Cardinality(DOMAIN facts)]].status = "Superseded"
           => Cardinality(DOMAIN facts) <= age[heir[Cardinality(DOMAIN facts)]]
  BY <1>2, <1>5
<1>7. heir[Cardinality(DOMAIN facts)] \in DOMAIN facts
  BY <1>2
<1>8. age[heir[Cardinality(DOMAIN facts)]] < Cardinality(DOMAIN facts)
  BY <1>1, <1>7 DEF Aged
<1> QED BY <1>2, <1>6, <1>7, <1>8 DEF InCanon

LEMMA AgedHistoryEnds ==
  ASSUME LedgerTypeOK, SupersessionLinked, FactsAged
  PROVE  HistoryEndsInEffect
<1> SUFFICES ASSUME NEW f \in DOMAIN facts
             PROVE  LET last[n \in Nat] ==
                          IF n = 0 THEN f
                          ELSE LET g == last[n - 1]
                               IN IF facts[g].superseded_by \in DOMAIN facts
                                  THEN facts[g].superseded_by ELSE g
                    IN facts[f].status = "Superseded"
                         => facts[last[Cardinality(DOMAIN facts)]].status = "Active"
  BY DEF HistoryEndsInEffect
<1>1. PICK D, next : D = DOMAIN facts /\ next = Heir
  OBVIOUS
<1>2. next \in [D -> D] /\ f \in D
  BY <1>1 DEF Heir
<1>3. PICK h \in [Nat -> D] : Follows(h, next, f)
  BY <1>2, Iterates
<1> DEFINE Last(g, n) == IF n = 0 THEN f
                         ELSE IF facts[g[n - 1]].superseded_by \in DOMAIN facts
                              THEN facts[g[n - 1]].superseded_by ELSE g[n - 1]
<1>4. ASSUME NEW n \in Nat
      PROVE  h[n] = Last(h, n)
  <2>1. CASE n = 0
    BY <1>3, <2>1 DEF Follows
  <2>2. CASE n # 0
    <3>1. n - 1 \in Nat /\ (n - 1) + 1 = n
      BY <2>2
    <3>2. h[n] = Heir[h[n - 1]] /\ h[n - 1] \in DOMAIN facts
      BY <1>1, <1>3, <3>1 DEF Follows
    <3> QED BY <2>2, <3>2 DEF Heir
  <2> QED BY <2>1, <2>2
<1>5. h = [n \in Nat |-> Last(h, n)]
  BY <1>3, <1>4
<1> DEFINE last[n \in Nat] == IF n = 0 THEN f
                              ELSE LET g == last[n - 1]
                                   IN IF facts[g].superseded_by \in DOMAIN facts
                                      THEN facts[g].superseded_by ELSE g
<1>6. last = [n \in Nat |-> Last(last, n)]
  BY <1>5
<1> SUFFICES facts[f].status = "Superseded"
               => facts[last[Cardinality(DOMAIN facts)]].status = "Active"
  OBVIOUS
<1> HIDE DEF last
<1>7. last[0] = f
  BY <1>6
<1>8. ASSUME NEW n \in Nat, last[n] \in DOMAIN facts
      PROVE  last[n + 1] = Heir[last[n]] /\ last[n + 1] \in DOMAIN facts
  <2>1. n + 1 \in Nat /\ n + 1 # 0 /\ (n + 1) - 1 = n
    OBVIOUS
  <2>2. last[n + 1] = Last(last, n + 1)
    BY <1>6, <2>1
  <2> QED BY <1>8, <2>1, <2>2 DEF Heir
<1> DEFINE S == {n \in Nat : last[n] \in DOMAIN facts}
<1>9. Nat \subseteq S
  <2>1. 0 \in S /\ \A n \in Nat : n \in S => n + 1 \in S
    BY <1>7, <1>8
  <2> HIDE DEF S
  <2> QED BY <2>1, NatBySteps
<1>10. last \in [Nat -> DOMAIN facts] /\ \A n \in Nat : last[n + 1] = Heir[last[n]]
  BY <1>6, <1>8, <1>9
<1> QED BY <1>7, <1>10, HeirsRunOut

-----------------------------------------------------------------------------
(* Theorems *)

LedgerInv == LedgerTypeOK /\ SupersessionLinked /\ FactsAged /\ SnapshotFromCanon

LEMMA LedgerInvariant == LedgerSpec => []LedgerInv
<1>1. LedgerInit => LedgerInv
  BY LedgerInitType, LedgerInitAged
     DEF LedgerInit, LedgerInv, SupersessionLinked, SnapshotFromCanon, EmptyTable
<1>2. LedgerInv /\ [LedgerNext]_ledgerVars => LedgerInv'
  <2> SUFFICES ASSUME LedgerInv, [LedgerNext]_ledgerVars
               PROVE  LedgerInv'
    OBVIOUS
  <2>1. CASE LedgerNext
    BY <2>1, LedgerStepType, LedgerStepLinks, LedgerStepAged, LedgerStepSnapshots
       DEF LedgerInv
  <2>2. CASE UNCHANGED ledgerVars
    BY <2>2 DEF LedgerInv, LedgerTypeOK, SupersessionLinked, FactsAged, Aged,
                SnapshotFromCanon, ledgerVars
  <2> QED BY <2>1, <2>2
<1> QED BY <1>1, <1>2, PTL DEF LedgerSpec

\* The tables only ever hold rows of their kind, under ids of their kind.
THEOREM LedgerTypeCorrect == LedgerSpec => []LedgerTypeOK
<1>1. LedgerInv => LedgerTypeOK
  BY DEF LedgerInv
<1> QED BY <1>1, LedgerInvariant, PTL

\* However many facts are superseded, in whatever order, every retired fact
\* and the one that replaced it name each other (supersede_fact).
THEOREM SupersessionAlwaysLinked == LedgerSpec => []SupersessionLinked
<1>1. LedgerInv => SupersessionLinked
  BY DEF LedgerInv
<1> QED BY <1>1, LedgerInvariant, PTL

\* Following the replacements of a retired fact, of however many versions, ends
\* in one that is in effect: supersede_fact never closes a circle.
THEOREM HistoryAlwaysEnds == LedgerSpec => []HistoryEndsInEffect
<1>1. LedgerInv => HistoryEndsInEffect
  BY AgedHistoryEnds DEF LedgerInv
<1> QED BY <1>1, LedgerInvariant, PTL

\* A snapshot of any age names only facts that have been in Canon by the story
\* time it was taken for (create_snapshot).
THEOREM SnapshotsComeFromCanon == LedgerSpec => []SnapshotFromCanon
<1>1. LedgerInv => SnapshotFromCanon
  BY DEF LedgerInv
<1> QED BY <1>1, LedgerInvariant, PTL

\* No handler of the ledger takes a fact out of Canon, edits what it says, or
\* revives a superseded or abandoned one.
THEOREM LedgerNeverRewrites == LedgerSpec => CanonNeverRewritten
<1>1. LedgerInv /\ [LedgerNext]_ledgerVars
        => [\A f \in DOMAIN facts : Kept(f)]_ledgerVars
  BY LedgerStepKeeps DEF LedgerInv
<1>2. [\A f \in DOMAIN facts : Kept(f)]_ledgerVars
        => [\A f \in DOMAIN facts :
              /\ f \in DOMAIN facts'
              /\ Content(f)' = Content(f)
              /\ facts[f].status \in InCanon => facts'[f].status \in InCanon
              /\ facts[f].status \in {"Superseded", "Abandoned"} => facts'[f] = facts[f]
           ]_ledgerVars
  BY DEF Kept
<1> QED BY <1>1, <1>2, LedgerInvariant, PTL DEF LedgerSpec, CanonNeverRewritten

\* Replaying a snapshot reads live rows, yet it never tells another story: the
\* rows it names are kept and say what they said (replay_snapshot).
THEOREM ReplayNeverDrifts == LedgerSpec => ReplayIsStable
<1>1. LedgerInv /\ [LedgerNext]_ledgerVars
        => [\A s \in DOMAIN snapshots : \A t \in StoryTime \cup {NoTime} :
              {Content(f) : f \in Replay(s, t)} = {Content(f) : f \in Replay(s, t)}'
           ]_ledgerVars
  <2> SUFFICES ASSUME LedgerInv, LedgerNext,
                      NEW s \in DOMAIN snapshots, NEW t \in StoryTime \cup {NoTime}
               PROVE  {Content(f) : f \in Replay(s, t)} = {Content(f) : f \in Replay(s, t)}'
    OBVIOUS
  <2>1. snapshots[s].fact_ids \subseteq DOMAIN facts
    BY DEF LedgerInv, SnapshotFromCanon
  <2>2. \A f \in snapshots[s].fact_ids : Kept(f)
    BY <2>1, LedgerStepKeeps DEF LedgerInv
  <2>3. snapshots'[s].fact_ids = snapshots[s].fact_ids
    BY SnapshotKeepsFacts DEF LedgerInv
  <2>4. Replay(s, t)' = Replay(s, t)
    BY <2>1, <2>2, <2>3 DEF Replay, Kept, Content
  <2>5. \A f \in Replay(s, t) : Content(f)' = Content(f)
    BY <2>2 DEF Replay, Kept
  <2> HIDE DEF Content, Replay
  <2> QED BY <2>4, <2>5
<1> QED BY <1>1, LedgerInvariant, PTL DEF LedgerSpec, ReplayIsStable

-----------------------------------------------------------------------------
(* The inductive invariant *)

\* A run that is not over and holds candidate c.
Holds(r, c) == runs[r].state \in {"Queued", "Running"} /\ c \in runs[r].cands

\* Cancelling one of two runs that hold a candidate would leave the other one
\* with a candidate that no longer waits for it.
HeldOnce ==
  \A q, r \in DOMAIN runs : \A c \in runs[q].cands :
    Holds(q, c) /\ Holds(r, c) => q = r

ApprovedHasVerdict ==
  \A c \in DOMAIN cands : cands[c].status = "Approved" => cands[c].verdict = "Approve"

PipelineInv ==
  /\ PipelineTypeOK
  /\ SupersessionLinked
  /\ FactsAged
  /\ SnapshotFromCanon
  /\ RunsAgree
  /\ HeldOnce
  /\ VerdictNeedsPassedRun
  /\ ApprovedHasVerdict
  /\ SubmittedBacked

LEMMA PipelineInitInv == PipelineInit => PipelineInv
<1> SUFFICES ASSUME PipelineInit
             PROVE  PipelineInv
  OBVIOUS
<1>1. PipelineTypeOK
  BY LedgerInitType DEF PipelineInit, PipelineTypeOK, EmptyTable
<1>2. SupersessionLinked /\ FactsAged /\ SnapshotFromCanon
  BY LedgerInitAged
     DEF PipelineInit, LedgerInit, SupersessionLinked, SnapshotFromCanon, EmptyTable
<1>3. RunsAgree /\ HeldOnce
  BY DEF PipelineInit, RunsAgree, HeldOnce, EmptyTable
<1>4. VerdictNeedsPassedRun /\ ApprovedHasVerdict /\ SubmittedBacked
  BY DEF PipelineInit, VerdictNeedsPassedRun, ApprovedHasVerdict, SubmittedBacked, EmptyTable
<1> QED BY <1>1, <1>2, <1>3, <1>4 DEF PipelineInv

-----------------------------------------------------------------------------
(* What the operators of the handlers return *)

LEMMA MoveRows ==
  ASSUME PipelineTypeOK, NEW S, NEW status \in CandStatus
  PROVE  /\ DOMAIN Move(S, status) = DOMAIN cands
         /\ Move(S, status) \in [DOMAIN cands -> CandidateRow]
         /\ \A c \in DOMAIN cands :
              /\ c \notin S => Move(S, status)[c] = cands[c]
              /\ c \in S => Move(S, status)[c].status = status
              /\ Move(S, status)[c].verdict = cands[c].verdict
              /\ Move(S, status)[c].fact = cands[c].fact
  BY DEF PipelineTypeOK, Move, CandidateRow

LEMMA OutcomeType ==
  ASSUME NEW S, NEW sn, NEW forbidden \in BOOLEAN, NEW crashed \in BOOLEAN
  PROVE  OutcomeOf(S, sn, forbidden, crashed) \in Outcome
  BY DEF OutcomeOf, Outcome

LEMMA EntitiesAfterType ==
  ASSUME LedgerTypeOK, NEW c \in Candidate, NEW e \in EntityId,
         NEW table \in EntitiesAfter(c, e)
  PROVE  /\ DOMAIN table \subseteq EntityId
         /\ table \in [DOMAIN table -> Entity]
<1>1. CASE table = entities
  BY <1>1 DEF LedgerTypeOK
<1>2. ASSUME NEW y \in EntityType,
             table = Put(entities, e, [name |-> Text[c].subject, type |-> y])
      PROVE  /\ DOMAIN table \subseteq EntityId
             /\ table \in [DOMAIN table -> Entity]
  <2>1. [name |-> Text[c].subject, type |-> y] \in Entity
    BY PipelineAssumption DEF CandidateText, Entity
  <2> QED BY <1>2, <2>1 DEF LedgerTypeOK, Put
<1> QED BY <1>1, <1>2 DEF EntitiesAfter

\* The table after the commit of candidate c, whose fact is f: old, if it is a
\* fact, is retired in its favour, and no other row changes.
LEMMA CommittedRows ==
  ASSUME LedgerTypeOK, NEW c \in Candidate, NEW e \in EntityId,
         NEW f \in FactId \ DOMAIN facts, NEW old \in FactId \cup {NoFact},
         TargetUsable(old), facts' = Committed(c, e, f, old)
  PROVE  /\ DOMAIN facts' = DOMAIN facts \cup {f}
         /\ facts'[f] =
              NewFact(e, Text[c].predicate, Text[c].value, Text[c].time, "Active", old)
         /\ \A g \in DOMAIN facts : g # old => facts'[g] = facts[g]
<1> DEFINE row == NewFact(e, Text[c].predicate, Text[c].value, Text[c].time, "Active", old)
<1> HIDE DEF row
<1>1. CASE old = NoFact
  <2>1. facts' = Put(facts, f, row)
    BY <1>1 DEF Committed, row
  <2> QED BY <2>1 DEF Put, row
<1>2. CASE old # NoFact
  <2>1. facts' = Put(Retired(old, f), f, row)
    BY <1>2 DEF Committed, row
  <2> QED BY <1>2, <2>1 DEF Put, Retired, TargetUsable, row
<1> QED BY <1>1, <1>2

LEMMA CommittedTarget ==
  ASSUME LedgerTypeOK, NEW c \in Candidate, NEW e \in EntityId,
         NEW f \in FactId \ DOMAIN facts, NEW old \in FactId,
         TargetUsable(old), facts' = Committed(c, e, f, old)
  PROVE  /\ facts'[old].status = "Superseded"
         /\ facts'[old].supersedes = facts[old].supersedes
         /\ Content(old)' = Content(old)
<1>1. old # NoFact /\ old \in DOMAIN facts /\ facts[old] \in Fact /\ old # f
  BY LedgerAssumption DEF TargetUsable, LedgerTypeOK
<1>2. facts'[old] = [facts[old] EXCEPT !.status = "Superseded", !.superseded_by = f]
  BY <1>1 DEF Committed, Put, Retired
<1> QED BY <1>1, <1>2 DEF Fact, Content

LEMMA CommittedType ==
  ASSUME LedgerTypeOK, NEW c \in Candidate, NEW e \in EntityId,
         NEW f \in FactId \ DOMAIN facts, NEW old \in FactId \cup {NoFact}, TargetUsable(old)
  PROVE  /\ DOMAIN Committed(c, e, f, old) \subseteq FactId
         /\ Committed(c, e, f, old) \in [DOMAIN Committed(c, e, f, old) -> Fact]
<1> DEFINE row == NewFact(e, Text[c].predicate, Text[c].value, Text[c].time, "Active", old)
<1>1. row \in Fact
  BY PipelineAssumption, NewFactType DEF CandidateText, FactStatus
<1> HIDE DEF row
<1>2. CASE old = NoFact
  <2>1. Committed(c, e, f, old) = Put(facts, f, row)
    BY <1>2 DEF Committed, row
  <2> QED BY <1>1, <2>1 DEF LedgerTypeOK, Put
<1>3. CASE old # NoFact
  <2>1. Committed(c, e, f, old) = Put(Retired(old, f), f, row)
    BY <1>3 DEF Committed, row
  <2>2. /\ DOMAIN Retired(old, f) = DOMAIN facts
        /\ Retired(old, f) \in [DOMAIN facts -> Fact]
    BY <1>3, RetiredType DEF TargetUsable
  <2> QED BY <1>1, <2>1, <2>2 DEF LedgerTypeOK, Put
<1> QED BY <1>2, <1>3

-----------------------------------------------------------------------------
(* Types *)

LEMMA PipelineStepType ==
  ASSUME PipelineTypeOK, PipelineNext
  PROVE  PipelineTypeOK'
<1> USE DEF PipelineTypeOK
<1>0. autoRun' \in BOOLEAN
  BY DEF PipelineNext
<1>1. CASE CanonApi
  BY <1>0, <1>1, LedgerStepType DEF CanonApi
<1>2. ASSUME NEW S \in SUBSET Candidate, PersistExtracted(S)
      PROVE  PipelineTypeOK'
  <2>1. NewCandidate \in CandidateRow
    BY DEF NewCandidate, CandidateRow, CandStatus
  <2>2. UNCHANGED <<ledgerVars, runs>>
    BY <1>2 DEF PersistExtracted
  <2>3. /\ DOMAIN cands' \subseteq Candidate
        /\ cands' \in [DOMAIN cands' -> CandidateRow]
    BY <1>2, <2>1 DEF PersistExtracted
  <2> QED BY <1>0, <2>2, <2>3 DEF LedgerTypeOK, ledgerVars
<1>3. ASSUME NEW r \in RunId, NEW S \in SUBSET Candidate,
             NEW sn \in SnapshotId \cup {NoSnapshot},
             NEW forbidden \in BOOLEAN, NEW crashed \in BOOLEAN,
             TriggerRun(r, S, sn, forbidden, crashed)
      PROVE  PipelineTypeOK'
  <2> DEFINE outcome == OutcomeOf(S, sn, forbidden, crashed)
             state == IF autoRun THEN outcome ELSE "Queued"
             status == IF autoRun THEN StatusAfter(outcome) ELSE "Validating"
             row == [state |-> state, cands |-> S, snapshot |-> sn]
  <2>1. outcome \in Outcome
    BY OutcomeType
  <2>2. runs' = Put(runs, r, row) /\ cands' = Move(S, status) /\ UNCHANGED ledgerVars
    BY <1>3 DEF TriggerRun
  <2> HIDE DEF outcome
  <2>3. row \in Run
    BY <2>1 DEF Run, RunState, Outcome
  <2>4. status \in CandStatus
    BY <2>1 DEF StatusAfter, CandStatus, Outcome
  <2> HIDE DEF row, status
  <2>5. DOMAIN runs' \subseteq RunId /\ runs' \in [DOMAIN runs' -> Run]
    BY <2>2, <2>3, PutType
  <2>6. DOMAIN cands' \subseteq Candidate /\ cands' \in [DOMAIN cands' -> CandidateRow]
    BY <2>2, <2>4, MoveRows
  <2> QED BY <1>0, <2>2, <2>5, <2>6 DEF LedgerTypeOK, ledgerVars
<1>4. ASSUME NEW r \in RunId, CancelRun(r)
      PROVE  PipelineTypeOK'
  <2>1. [runs[r] EXCEPT !.state = "Cancelled"] \in Run
    BY <1>4 DEF CancelRun, Run, RunState
  <2>2. DOMAIN runs' \subseteq RunId /\ runs' \in [DOMAIN runs' -> Run]
    BY <1>4, <2>1, PutType DEF CancelRun
  <2>3. DOMAIN cands' \subseteq Candidate /\ cands' \in [DOMAIN cands' -> CandidateRow]
    BY <1>4, MoveRows DEF CancelRun, CandStatus
  <2> QED BY <1>0, <1>4, <2>2, <2>3 DEF CancelRun, LedgerTypeOK, ledgerVars
<1>5. ASSUME NEW c \in Candidate, ApproveCandidate(c) \/ RejectCandidate(c)
      PROVE  PipelineTypeOK'
  <2>1. PICK status \in {"Approved", "Rejected"}, verdict \in {"Approve", "Reject"} :
          /\ c \in DOMAIN cands
          /\ cands' = Verdict(c, status, verdict)
          /\ UNCHANGED <<ledgerVars, runs>>
    BY <1>5 DEF ApproveCandidate, RejectCandidate
  <2>2. [cands[c] EXCEPT !.status = status, !.verdict = verdict] \in CandidateRow
    BY <2>1 DEF CandidateRow, CandStatus
  <2>3. DOMAIN cands' \subseteq Candidate /\ cands' \in [DOMAIN cands' -> CandidateRow]
    BY <2>1, <2>2 DEF Verdict, Put
  <2> QED BY <1>0, <2>1, <2>3 DEF LedgerTypeOK, ledgerVars
<1>6. ASSUME NEW c \in Candidate, NEW e \in EntityId, NEW asked \in Asked \cup {NoFact},
             NEW f \in FactId, SubmitCandidate(c, e, asked, f)
      PROVE  PipelineTypeOK'
  <2>1. PICK old \in SupersedeTarget(c, e, asked) :
          /\ TargetUsable(old)
          /\ facts' = Committed(c, e, f, old)
          /\ cands' = Put(cands, c, [cands[c] EXCEPT !.status = "Submitted",
                                                     !.fact = f, !.superseded = old])
    BY <1>6 DEF SubmitCandidate
  <2>2. old \in FactId \cup {NoFact}
    BY <2>1 DEF TargetUsable, LedgerTypeOK
  <2>3. [cands[c] EXCEPT !.status = "Submitted", !.fact = f, !.superseded = old]
          \in CandidateRow
    BY <1>6, <2>2 DEF SubmitCandidate, CandidateRow, CandStatus
  <2>4. DOMAIN cands' \subseteq Candidate /\ cands' \in [DOMAIN cands' -> CandidateRow]
    BY <2>1, <2>3 DEF Put
  <2>5. DOMAIN facts' \subseteq FactId /\ facts' \in [DOMAIN facts' -> Fact]
    BY <1>6, <2>1, <2>2, CommittedType DEF SubmitCandidate
  <2>6. DOMAIN entities' \subseteq EntityId /\ entities' \in [DOMAIN entities' -> Entity]
    BY <1>6, EntitiesAfterType DEF SubmitCandidate
  <2>7. UNCHANGED <<snapshots, runs>>
    BY <1>6 DEF SubmitCandidate
  <2> QED BY <1>0, <2>4, <2>5, <2>6, <2>7 DEF LedgerTypeOK
<1>7. ASSUME NEW c \in Candidate, NEW e \in EntityId, NEW asked \in Asked,
             SubmitRefused(c, e, asked)
      PROVE  PipelineTypeOK'
  <2>1. DOMAIN entities' \subseteq EntityId /\ entities' \in [DOMAIN entities' -> Entity]
    BY <1>7, EntitiesAfterType DEF SubmitRefused
  <2> QED BY <1>0, <1>7, <2>1 DEF SubmitRefused, LedgerTypeOK
<1> QED BY <1>1, <1>2, <1>3, <1>4, <1>5, <1>6, <1>7 DEF PipelineNext

-----------------------------------------------------------------------------
(* The ledger under the loop *)

\* A commit is an entity at most, and then a fact that enters Canon, in place of
\* one in effect or not.
LEMMA CommitKeepsLinks ==
  ASSUME PipelineTypeOK, SupersessionLinked, NEW c \in Candidate, NEW e \in EntityId,
         NEW f \in FactId \ DOMAIN facts, NEW old \in FactId \cup {NoFact},
         TargetUsable(old), facts' = Committed(c, e, f, old)
  PROVE  SupersessionLinked'
<1> DEFINE row == NewFact(e, Text[c].predicate, Text[c].value, Text[c].time, "Active", old)
<1>1. LedgerTypeOK
  BY DEF PipelineTypeOK
<1>2. CASE old # NoFact
  <2>1. old \in DOMAIN facts /\ facts[old].status = "Active"
    BY <1>2 DEF TargetUsable
  <2>2. facts' = Put(Retired(old, f), f, row)
    BY <1>2 DEF Committed
  <2> QED BY <1>1, <2>1, <2>2, SupersedeKeepsLinks
<1>3. CASE old = NoFact
  <2>1. /\ DOMAIN facts' = DOMAIN facts \cup {f}
        /\ facts'[f] = row
        /\ \A g \in DOMAIN facts : g # old => facts'[g] = facts[g]
    BY <1>1, CommittedRows
  <2>3. \A g \in DOMAIN facts : g # old /\ g # f
    BY <1>1, <1>3, LedgerAssumption DEF LedgerTypeOK
  <2>2. row.status = "Active" /\ row.supersedes = NoFact /\ row.superseded_by = NoFact
    BY <1>3 DEF NewFact
  <2> HIDE DEF row
  <2> QED BY <2>1, <2>2, <2>3 DEF SupersessionLinked
<1> QED BY <1>2, <1>3

LEMMA CommitKeepsAge ==
  ASSUME PipelineTypeOK, SupersessionLinked, FactsAged, NEW c \in Candidate, NEW e \in EntityId,
         NEW f \in FactId \ DOMAIN facts, NEW old \in FactId \cup {NoFact},
         TargetUsable(old), facts' = Committed(c, e, f, old)
  PROVE  FactsAged'
<1> DEFINE row == NewFact(e, Text[c].predicate, Text[c].value, Text[c].time, "Active", old)
<1>1. LedgerTypeOK
  BY DEF PipelineTypeOK
<1>2. row.superseded_by = NoFact
  BY DEF NewFact
<1>3. CASE old # NoFact
  <2>1. old \in DOMAIN facts /\ facts' = Put(Retired(old, f), f, row)
    BY <1>3 DEF TargetUsable, Committed
  <2> HIDE DEF row
  <2> QED BY <1>1, <1>2, <2>1, SupersedeKeepsAge
<1>4. CASE old = NoFact
  <2>1. facts' = Put(facts, f, row)
    BY <1>4 DEF Committed
  <2> HIDE DEF row
  <2> QED BY <1>1, <1>2, <2>1, CreateKeepsAge
<1> QED BY <1>3, <1>4

\* What a handler may do to the row of fact g: besides what the ledger keeps of
\* it, the fact it replaced.
KeptInLoop(g) == Kept(g) /\ facts'[g].supersedes = facts[g].supersedes

LEMMA CommitKeeps ==
  ASSUME PipelineTypeOK, NEW c \in Candidate, NEW e \in EntityId,
         NEW f \in FactId \ DOMAIN facts, NEW old \in FactId \cup {NoFact},
         TargetUsable(old), facts' = Committed(c, e, f, old), NEW g \in DOMAIN facts
  PROVE  KeptInLoop(g)
<1>1. LedgerTypeOK /\ facts[g] \in Fact
  BY DEF PipelineTypeOK, LedgerTypeOK
<1>2. /\ DOMAIN facts' = DOMAIN facts \cup {f}
      /\ g # old => facts'[g] = facts[g]
  BY <1>1, CommittedRows
<1>3. CASE g # old
  BY <1>2, <1>3 DEF KeptInLoop, Kept, Content
<1>4. CASE g = old
  <2>1. old \in FactId /\ facts[g].status = "Active"
    BY <1>1, <1>4, LedgerAssumption DEF LedgerTypeOK, TargetUsable
  <2>2. /\ facts'[g].status = "Superseded"
        /\ facts'[g].supersedes = facts[g].supersedes
        /\ Content(g)' = Content(g)
    BY <1>1, <1>4, <2>1, CommittedTarget
  <2> QED BY <1>2, <2>1, <2>2 DEF KeptInLoop, Kept, InCanon
<1> QED BY <1>3, <1>4

LEMMA LedgerStepKeepsSource ==
  ASSUME LedgerTypeOK, LedgerNext, NEW g \in DOMAIN facts
  PROVE  facts'[g].supersedes = facts[g].supersedes
<1>1. facts[g] \in Fact
  BY DEF LedgerTypeOK
<1>2. ASSUME NEW f \in FactId, NEW e \in EntityId, NEW p \in Predicate,
             NEW v \in Value, NEW t \in StoryTime, CreateFact(f, e, p, v, t)
      PROVE  facts'[g].supersedes = facts[g].supersedes
  BY <1>2 DEF CreateFact, Put
<1>3. ASSUME NEW f \in FactId, ApproveFact(f) \/ AbandonFact(f)
      PROVE  facts'[g].supersedes = facts[g].supersedes
  <2>1. PICK status \in {"Active", "Abandoned"} : facts' = Restatus(f, status)
    BY <1>3 DEF ApproveFact, AbandonFact
  <2>2. f \in DOMAIN facts
    BY <1>3 DEF ApproveFact, AbandonFact
  <2>3. /\ facts'[f] = [facts[f] EXCEPT !.status = status, !.version_status = status]
        /\ g # f => facts'[g] = facts[g]
    BY <2>1, <2>2, RestatusRows DEF FactStatus
  <2>4. CASE g = f
    BY <1>1, <2>3, <2>4 DEF Fact
  <2> QED BY <2>3, <2>4
<1>4. ASSUME NEW old \in FactId, NEW new \in FactId, NEW e \in EntityId,
             NEW p \in Predicate, NEW v \in Value, NEW t \in StoryTime,
             SupersedeFact(old, new, e, p, v, t)
      PROVE  facts'[g].supersedes = facts[g].supersedes
  <2>1. /\ facts'[old] = [facts[old] EXCEPT !.status = "Superseded", !.superseded_by = new]
        /\ g # old => facts'[g] = facts[g]
    BY <1>4, SupersedeRows DEF SupersedeFact
  <2>2. CASE g = old
    BY <1>1, <2>1, <2>2 DEF Fact
  <2> QED BY <2>1, <2>2
<1> QED BY <1>2, <1>3, <1>4
        DEF LedgerNext, CreateEntity, CreateSnapshot, FreezeSnapshot

\* Only submit and the Canon API touch the ledger.
LEMMA LoopStep ==
  ASSUME PipelineTypeOK, PipelineNext
  PROVE  \/ LedgerNext /\ UNCHANGED <<cands, runs>>
         \/ /\ UNCHANGED <<facts, snapshots>>
            /\ \/ \E S \in SUBSET Candidate : PersistExtracted(S)
               \/ \E r \in RunId, S \in SUBSET Candidate, sn \in SnapshotId \cup {NoSnapshot},
                     forbidden, crashed \in BOOLEAN : TriggerRun(r, S, sn, forbidden, crashed)
               \/ \E r \in RunId : CancelRun(r)
               \/ \E c \in Candidate : ApproveCandidate(c) \/ RejectCandidate(c)
               \/ UNCHANGED <<cands, runs>>
         \/ \E c \in Candidate, e \in EntityId, f \in FactId \ DOMAIN facts :
              \E old \in FactId \cup {NoFact} :
                /\ c \in DOMAIN cands /\ cands[c].status = "Approved"
                /\ TargetUsable(old)
                /\ facts' = Committed(c, e, f, old)
                /\ cands' = Put(cands, c, [cands[c] EXCEPT !.status = "Submitted",
                                                           !.fact = f, !.superseded = old])
                /\ UNCHANGED <<snapshots, runs>>
<1>1. CASE CanonApi
  BY <1>1 DEF CanonApi
<1>2. CASE \E S \in SUBSET Candidate : PersistExtracted(S)
  BY <1>2 DEF PersistExtracted, ledgerVars
<1>3. ASSUME NEW r \in RunId, NEW S \in SUBSET Candidate,
             NEW sn \in SnapshotId \cup {NoSnapshot},
             NEW forbidden \in BOOLEAN, NEW crashed \in BOOLEAN,
             TriggerRun(r, S, sn, forbidden, crashed)
      PROVE  UNCHANGED <<facts, snapshots>>
  BY <1>3 DEF TriggerRun, ledgerVars
<1>4. CASE \E r \in RunId : CancelRun(r)
  BY <1>4 DEF CancelRun, ledgerVars
<1>5. CASE \E c \in Candidate : ApproveCandidate(c) \/ RejectCandidate(c)
  BY <1>5 DEF ApproveCandidate, RejectCandidate, ledgerVars
<1>6. ASSUME NEW c \in Candidate, NEW e \in EntityId, NEW asked \in Asked \cup {NoFact},
             NEW f \in FactId, SubmitCandidate(c, e, asked, f)
      PROVE  /\ f \notin DOMAIN facts
             /\ \E old \in FactId \cup {NoFact} :
                /\ c \in DOMAIN cands /\ cands[c].status = "Approved"
                /\ TargetUsable(old)
                /\ facts' = Committed(c, e, f, old)
                /\ cands' = Put(cands, c, [cands[c] EXCEPT !.status = "Submitted",
                                                           !.fact = f, !.superseded = old])
                /\ UNCHANGED <<snapshots, runs>>
  <2>1. \A old : TargetUsable(old) => old \in FactId \cup {NoFact}
    BY DEF TargetUsable, PipelineTypeOK, LedgerTypeOK
  <2> QED BY <1>6, <2>1 DEF SubmitCandidate
<1>7. CASE \E c \in Candidate, e \in EntityId, asked \in Asked : SubmitRefused(c, e, asked)
  BY <1>7 DEF SubmitRefused
<1> QED BY <1>1, <1>2, <1>3, <1>4, <1>5, <1>6, <1>7 DEF PipelineNext

LEMMA PipelineStepKeeps ==
  ASSUME PipelineTypeOK, PipelineNext, NEW g \in DOMAIN facts
  PROVE  KeptInLoop(g)
<1>1. CASE LedgerNext
  BY <1>1, LedgerStepKeeps, LedgerStepKeepsSource DEF KeptInLoop, PipelineTypeOK
<1>2. CASE UNCHANGED facts
  BY <1>2 DEF KeptInLoop, Kept, Content
<1>3. ASSUME NEW c \in Candidate, NEW e \in EntityId, NEW f \in FactId \ DOMAIN facts,
             NEW old \in FactId \cup {NoFact}, TargetUsable(old),
             facts' = Committed(c, e, f, old)
      PROVE  KeptInLoop(g)
  BY <1>3, CommitKeeps
<1> QED BY <1>1, <1>2, <1>3, LoopStep

LEMMA PipelineStepLinks ==
  ASSUME PipelineTypeOK, SupersessionLinked, PipelineNext
  PROVE  SupersessionLinked'
<1>1. CASE LedgerNext
  BY <1>1, LedgerStepLinks DEF PipelineTypeOK
<1>2. CASE UNCHANGED facts
  BY <1>2 DEF SupersessionLinked
<1>3. ASSUME NEW c \in Candidate, NEW e \in EntityId, NEW f \in FactId \ DOMAIN facts,
             NEW old \in FactId \cup {NoFact}, TargetUsable(old),
             facts' = Committed(c, e, f, old)
      PROVE  SupersessionLinked'
  BY <1>3, CommitKeepsLinks
<1> QED BY <1>1, <1>2, <1>3, LoopStep

LEMMA PipelineStepAged ==
  ASSUME PipelineTypeOK, SupersessionLinked, FactsAged, PipelineNext
  PROVE  FactsAged'
<1>1. CASE LedgerNext
  BY <1>1, LedgerStepAged DEF PipelineTypeOK
<1>2. CASE UNCHANGED facts
  BY <1>2 DEF FactsAged, Aged
<1>3. ASSUME NEW c \in Candidate, NEW e \in EntityId, NEW f \in FactId \ DOMAIN facts,
             NEW old \in FactId \cup {NoFact}, TargetUsable(old),
             facts' = Committed(c, e, f, old)
      PROVE  FactsAged'
  BY <1>3, CommitKeepsAge
<1> QED BY <1>1, <1>2, <1>3, LoopStep

LEMMA PipelineStepSnapshots ==
  ASSUME PipelineTypeOK, SnapshotFromCanon, PipelineNext
  PROVE  SnapshotFromCanon'
<1>1. CASE LedgerNext
  BY <1>1, LedgerStepSnapshots DEF PipelineTypeOK
<1>2. CASE UNCHANGED snapshots
  <2>1. \A g \in DOMAIN facts : Kept(g)
    BY PipelineStepKeeps DEF KeptInLoop
  <2> QED BY <1>2, <2>1 DEF SnapshotFromCanon, Kept, Content
<1> QED BY <1>1, <1>2, LoopStep

-----------------------------------------------------------------------------
(* Runs and candidates *)

\* Candidates that run r has checked are where its state says.
RunAgrees(r) ==
  \A c \in runs[r].cands : c \in DOMAIN cands /\ cands[c].status \in StatusesOf(runs[r].state)

LEMMA PersistKeepsRuns ==
  ASSUME PipelineInv, NEW S \in SUBSET Candidate, PersistExtracted(S)
  PROVE  RunsAgree' /\ HeldOnce' /\ VerdictNeedsPassedRun' /\ ApprovedHasVerdict'
<1>1. /\ UNCHANGED runs
      /\ DOMAIN cands' = DOMAIN cands \cup S
      /\ \A c \in DOMAIN cands : cands'[c] = cands[c]
      /\ \A c \in DOMAIN cands' \ DOMAIN cands : cands'[c] = NewCandidate
  BY DEF PersistExtracted
<1>2. RunsAgree'
  BY <1>1 DEF PipelineInv, RunsAgree, StatusesOf
<1>3. HeldOnce'
  BY <1>1 DEF PipelineInv, HeldOnce, Holds
<1>4. VerdictNeedsPassedRun' /\ ApprovedHasVerdict'
  BY <1>1 DEF PipelineInv, VerdictNeedsPassedRun, ApprovedHasVerdict, NewCandidate, StatusesOf
<1> QED BY <1>2, <1>3, <1>4

\* The candidates of a new run are Extracted, so no run that has an outcome, and
\* none that is queued, knows them.
LEMMA TriggerKeepsRuns ==
  ASSUME PipelineInv, NEW r \in RunId, NEW S \in SUBSET Candidate,
         NEW sn \in SnapshotId \cup {NoSnapshot},
         NEW forbidden \in BOOLEAN, NEW crashed \in BOOLEAN,
         TriggerRun(r, S, sn, forbidden, crashed)
  PROVE  RunsAgree' /\ HeldOnce' /\ VerdictNeedsPassedRun' /\ ApprovedHasVerdict'
<1> DEFINE outcome == OutcomeOf(S, sn, forbidden, crashed)
           state == IF autoRun THEN outcome ELSE "Queued"
           status == IF autoRun THEN StatusAfter(outcome) ELSE "Validating"
           row == [state |-> state, cands |-> S, snapshot |-> sn]
<1>1. outcome \in Outcome
  BY OutcomeType
<1>2. runs' = Put(runs, r, row) /\ cands' = Move(S, status) /\ r \notin DOMAIN runs
  BY DEF TriggerRun
<1>3. S \subseteq DOMAIN cands /\ \A c \in S : cands[c].status = "Extracted"
  BY DEF TriggerRun, MayValidate
<1> HIDE DEF outcome
<1>4. state \in {"Queued", "Passed", "RuleFailed", "ExecFailed"} /\ status \in CandStatus
  BY <1>1 DEF Outcome, StatusAfter, CandStatus
<1>5. status \in StatusesOf(state)
  BY <1>1 DEF Outcome, StatusAfter, StatusesOf
<1>6. status \in StatusesOf("Passed") => state = "Passed"
  BY <1>1 DEF Outcome, StatusAfter, StatusesOf
<1>7. status # "Approved"
  BY <1>1 DEF Outcome, StatusAfter
<1>8. row.state = state /\ row.cands = S
  OBVIOUS
<1> HIDE DEF state, status, row
<1>9. /\ DOMAIN runs' = DOMAIN runs \cup {r}
      /\ runs'[r] = row
      /\ \A q \in DOMAIN runs : q # r /\ runs'[q] = runs[q]
  BY <1>2 DEF Put
<1>10. /\ DOMAIN cands' = DOMAIN cands
       /\ \A c \in DOMAIN cands :
            /\ c \notin S => cands'[c] = cands[c]
            /\ c \in S => cands'[c].status = status
            /\ cands'[c].verdict = cands[c].verdict
  BY <1>2, <1>4, MoveRows DEF PipelineInv
<1>11. ASSUME NEW q \in DOMAIN runs, NEW c \in runs[q].cands, c \in S
       PROVE  runs[q].state = "Cancelled"
  <2>1. "Extracted" \in StatusesOf(runs[q].state)
    BY <1>3, <1>11 DEF PipelineInv, RunsAgree
  <2>2. runs[q].state \in RunState
    BY DEF PipelineInv, PipelineTypeOK, Run
  <2> QED BY <2>1, <2>2 DEF StatusesOf, RunState
<1>12. RunsAgree'
  <2>1. RunAgrees(r)'
    BY <1>3, <1>5, <1>8, <1>9, <1>10 DEF RunAgrees
  <2>2. ASSUME NEW q \in DOMAIN runs
        PROVE  RunAgrees(q)'
    <3>1. ASSUME NEW c \in runs[q].cands
          PROVE  c \in DOMAIN cands' /\ cands'[c].status \in StatusesOf(runs[q].state)
      <4>1. c \in DOMAIN cands /\ cands[c].status \in StatusesOf(runs[q].state)
        BY DEF PipelineInv, RunsAgree
      <4>2. CASE c \in S
        BY <1>4, <1>10, <1>11, <4>1, <4>2 DEF StatusesOf
      <4>3. CASE c \notin S
        BY <1>10, <4>1, <4>3
      <4> QED BY <4>2, <4>3
    <3> QED BY <1>9, <3>1 DEF RunAgrees
  <2> QED BY <1>9, <2>1, <2>2 DEF RunsAgree, RunAgrees
<1>13. HeldOnce'
  <2>1. \A q \in DOMAIN runs : \A c \in S : ~Holds(q, c)
    BY <1>11 DEF Holds
  <2>2. \A q \in DOMAIN runs : \A c : Holds(q, c)' <=> Holds(q, c)
    BY <1>9 DEF Holds
  <2>3. \A c : Holds(r, c)' => c \in S
    BY <1>8, <1>9 DEF Holds
  <2>4. ASSUME NEW p \in DOMAIN runs', NEW q \in DOMAIN runs', NEW c,
               Holds(p, c)', Holds(q, c)'
        PROVE  p = q
    <3>1. CASE p \in DOMAIN runs /\ q \in DOMAIN runs
      BY <2>2, <2>4, <3>1 DEF PipelineInv, HeldOnce, Holds
    <3>2. CASE p = r \/ q = r
      BY <1>9, <2>1, <2>2, <2>3, <2>4, <3>2
    <3> QED BY <1>9, <3>1, <3>2
  <2> QED BY <2>4 DEF HeldOnce
<1>14. VerdictNeedsPassedRun'
  <2>1. ASSUME NEW c \in DOMAIN cands', cands'[c].status \in StatusesOf("Passed")
        PROVE  \E q \in DOMAIN runs' : runs'[q].state = "Passed" /\ c \in runs'[q].cands
    <3>1. CASE c \in S
      BY <1>6, <1>8, <1>9, <1>10, <2>1, <3>1
    <3>2. CASE c \notin S
      BY <1>9, <1>10, <2>1, <3>2 DEF PipelineInv, VerdictNeedsPassedRun
    <3> QED BY <3>1, <3>2
  <2> QED BY <2>1 DEF VerdictNeedsPassedRun, StatusesOf
<1>15. ApprovedHasVerdict'
  BY <1>7, <1>10 DEF PipelineInv, ApprovedHasVerdict
<1> QED BY <1>12, <1>13, <1>14, <1>15

\* No other run that is not over holds what a cancelled run gives back.
LEMMA CancelKeepsRuns ==
  ASSUME PipelineInv, NEW r \in RunId, CancelRun(r)
  PROVE  RunsAgree' /\ HeldOnce' /\ VerdictNeedsPassedRun' /\ ApprovedHasVerdict'
<1> DEFINE given == StillValidating(runs[r].cands)
<1>1. /\ r \in DOMAIN runs
      /\ runs[r].state \in {"Queued", "Running"}
      /\ runs' = Put(runs, r, [runs[r] EXCEPT !.state = "Cancelled"])
      /\ cands' = Move(given, "Extracted")
  BY DEF CancelRun
<1>2. \A c \in given : c \in runs[r].cands /\ cands[c].status = "Validating"
  BY DEF StillValidating
<1>3. runs[r] \in Run
  BY <1>1 DEF PipelineInv, PipelineTypeOK
<1> HIDE DEF given
<1>4. /\ DOMAIN runs' = DOMAIN runs
      /\ runs'[r].state = "Cancelled"
      /\ runs'[r].cands = runs[r].cands
      /\ \A q \in DOMAIN runs : q # r => runs'[q] = runs[q]
  BY <1>1, <1>3 DEF Put, Run
<1>5. /\ DOMAIN cands' = DOMAIN cands
      /\ \A c \in DOMAIN cands :
           /\ c \notin given => cands'[c] = cands[c]
           /\ c \in given => cands'[c].status = "Extracted"
           /\ cands'[c].verdict = cands[c].verdict
  BY <1>1, MoveRows DEF PipelineInv, CandStatus
<1>6. RunsAgree'
  <2>1. RunAgrees(r)'
    <3>1. \A c \in runs[r].cands : c \in DOMAIN cands'
      BY <1>1, <1>5 DEF PipelineInv, RunsAgree
    <3>2. \A c \in runs[r].cands : cands'[c].status \in CandStatus
      BY <1>5, <3>1 DEF PipelineInv, PipelineTypeOK, CandidateRow, CandStatus
    <3> QED BY <1>4, <3>1, <3>2 DEF RunAgrees, StatusesOf
  <2>2. ASSUME NEW q \in DOMAIN runs, q # r
        PROVE  RunAgrees(q)'
    <3>1. ASSUME NEW c \in runs[q].cands
          PROVE  c \in DOMAIN cands' /\ cands'[c].status \in StatusesOf(runs[q].state)
      <4>1. c \in DOMAIN cands /\ cands[c].status \in StatusesOf(runs[q].state)
        BY DEF PipelineInv, RunsAgree
      <4>2. CASE c \in given
        <5>1. c \in runs[r].cands /\ cands[c].status = "Validating"
          BY <1>2, <4>2
        <5>2. runs[q].state \notin {"Queued", "Running"}
          BY <1>1, <2>2, <5>1 DEF PipelineInv, HeldOnce, Holds
        <5>3. runs[q].state \in RunState
          BY DEF PipelineInv, PipelineTypeOK, Run
        <5>4. runs[q].state = "Cancelled"
          BY <4>1, <5>1, <5>2, <5>3 DEF StatusesOf, RunState
        <5> QED BY <1>5, <4>1, <4>2, <5>4 DEF StatusesOf, CandStatus
      <4>3. CASE c \notin given
        BY <1>5, <4>1, <4>3
      <4> QED BY <4>2, <4>3
    <3> QED BY <1>4, <2>2, <3>1 DEF RunAgrees
  <2> QED BY <1>1, <1>4, <2>1, <2>2 DEF RunsAgree, RunAgrees
<1>7. HeldOnce'
  BY <1>4 DEF PipelineInv, HeldOnce, Holds
<1>8. VerdictNeedsPassedRun'
  <2>1. ASSUME NEW c \in DOMAIN cands', cands'[c].status \in StatusesOf("Passed")
        PROVE  \E q \in DOMAIN runs' : runs'[q].state = "Passed" /\ c \in runs'[q].cands
    <3>1. c \in DOMAIN cands /\ cands'[c] = cands[c]
      BY <1>5, <2>1 DEF StatusesOf
    <3>2. PICK q \in DOMAIN runs : runs[q].state = "Passed" /\ c \in runs[q].cands
      BY <2>1, <3>1 DEF PipelineInv, VerdictNeedsPassedRun
    <3> QED BY <1>1, <1>4, <3>2
  <2> QED BY <2>1 DEF VerdictNeedsPassedRun, StatusesOf
<1>9. ApprovedHasVerdict'
  BY <1>5 DEF PipelineInv, ApprovedHasVerdict
<1> QED BY <1>6, <1>7, <1>8, <1>9

\* From AwaitingVerdict on every status is one that a passed run leaves behind.
LEMMA StatusKeepsRuns ==
  ASSUME PipelineInv, NEW c \in DOMAIN cands, UNCHANGED runs,
         cands[c].status \in StatusesOf("Passed"),
         DOMAIN cands' = DOMAIN cands,
         \A d \in DOMAIN cands : d # c => cands'[d] = cands[d],
         cands'[c].status \in StatusesOf("Passed"),
         cands'[c].status = "Approved" => cands'[c].verdict = "Approve"
  PROVE  RunsAgree' /\ HeldOnce' /\ VerdictNeedsPassedRun' /\ ApprovedHasVerdict'
<1>1. RunsAgree'
  <2>1. ASSUME NEW q \in DOMAIN runs, NEW d \in runs[q].cands
        PROVE  d \in DOMAIN cands /\ cands'[d].status \in StatusesOf(runs[q].state)
    <3>1. d \in DOMAIN cands /\ cands[d].status \in StatusesOf(runs[q].state)
      BY DEF PipelineInv, RunsAgree
    <3>2. CASE d = c
      <4>1. runs[q].state \in RunState
        BY DEF PipelineInv, PipelineTypeOK, Run
      <4>2. runs[q].state \in {"Passed", "Cancelled"}
        BY <3>1, <3>2, <4>1 DEF StatusesOf, RunState
      <4> QED BY <3>1, <3>2, <4>2 DEF StatusesOf, CandStatus
    <3>3. CASE d # c
      BY <3>1, <3>3
    <3> QED BY <3>2, <3>3
  <2> QED BY <2>1 DEF RunsAgree, StatusesOf
<1>2. HeldOnce'
  BY DEF PipelineInv, HeldOnce, Holds
<1>3. VerdictNeedsPassedRun'
  <2>1. \A d \in DOMAIN cands : cands'[d].status \in StatusesOf("Passed")
          => cands[d].status \in StatusesOf("Passed")
    OBVIOUS
  <2> QED BY <2>1 DEF PipelineInv, VerdictNeedsPassedRun, StatusesOf
<1>4. ApprovedHasVerdict'
  BY DEF PipelineInv, ApprovedHasVerdict
<1> QED BY <1>1, <1>2, <1>3, <1>4

LEMMA VerdictKeepsRuns ==
  ASSUME PipelineInv, NEW c \in Candidate, ApproveCandidate(c) \/ RejectCandidate(c)
  PROVE  RunsAgree' /\ HeldOnce' /\ VerdictNeedsPassedRun' /\ ApprovedHasVerdict'
<1>1. PICK status \in {"Approved", "Rejected"}, verdict \in {"Approve", "Reject"} :
        /\ c \in DOMAIN cands
        /\ cands[c].status \in {"AwaitingVerdict", "Approved"}
        /\ cands' = Verdict(c, status, verdict)
        /\ status = "Approved" => verdict = "Approve"
        /\ UNCHANGED runs
  BY DEF ApproveCandidate, RejectCandidate
<1>2. cands[c] \in CandidateRow
  BY <1>1 DEF PipelineInv, PipelineTypeOK
<1>3. /\ DOMAIN cands' = DOMAIN cands
      /\ \A d \in DOMAIN cands : d # c => cands'[d] = cands[d]
      /\ cands'[c].status = status /\ cands'[c].verdict = verdict
  BY <1>1, <1>2 DEF Verdict, Put, CandidateRow
<1>4. cands[c].status \in StatusesOf("Passed") /\ cands'[c].status \in StatusesOf("Passed")
  BY <1>1, <1>3 DEF StatusesOf
<1> QED BY <1>1, <1>3, <1>4, StatusKeepsRuns

LEMMA SubmitKeepsRuns ==
  ASSUME PipelineInv, NEW c \in DOMAIN cands, NEW f \in FactId,
         NEW old \in FactId \cup {NoFact}, cands[c].status = "Approved", UNCHANGED runs,
         cands' = Put(cands, c, [cands[c] EXCEPT !.status = "Submitted",
                                                 !.fact = f, !.superseded = old])
  PROVE  RunsAgree' /\ HeldOnce' /\ VerdictNeedsPassedRun' /\ ApprovedHasVerdict'
<1>1. cands[c] \in CandidateRow
  BY DEF PipelineInv, PipelineTypeOK
<1>2. /\ DOMAIN cands' = DOMAIN cands
      /\ \A d \in DOMAIN cands : d # c => cands'[d] = cands[d]
      /\ cands'[c].status = "Submitted"
  BY <1>1 DEF Put, CandidateRow
<1>3. cands[c].status \in StatusesOf("Passed") /\ cands'[c].status \in StatusesOf("Passed")
  BY <1>2 DEF StatusesOf
<1> QED BY <1>2, <1>3, StatusKeepsRuns

LEMMA PipelineStepRuns ==
  ASSUME PipelineInv, PipelineNext
  PROVE  RunsAgree' /\ HeldOnce' /\ VerdictNeedsPassedRun' /\ ApprovedHasVerdict'
<1>1. CASE UNCHANGED <<cands, runs>>
  BY <1>1 DEF PipelineInv, RunsAgree, HeldOnce, Holds, VerdictNeedsPassedRun,
              ApprovedHasVerdict, StatusesOf
<1>2. ASSUME NEW c \in Candidate, NEW f \in FactId, NEW old \in FactId \cup {NoFact},
             c \in DOMAIN cands, cands[c].status = "Approved", UNCHANGED runs,
             cands' = Put(cands, c, [cands[c] EXCEPT !.status = "Submitted",
                                                     !.fact = f, !.superseded = old])
      PROVE  RunsAgree' /\ HeldOnce' /\ VerdictNeedsPassedRun' /\ ApprovedHasVerdict'
  BY <1>2, SubmitKeepsRuns
<1>3. PipelineTypeOK
  BY DEF PipelineInv
<1> QED BY <1>1, <1>2, <1>3, LoopStep, PersistKeepsRuns, TriggerKeepsRuns,
           CancelKeepsRuns, VerdictKeepsRuns

-----------------------------------------------------------------------------
(* Candidates and their facts *)

\* One candidate of SubmittedBacked.
Backed(c) ==
  /\ cands[c].status # "Submitted" => cands[c].fact = NoFact
  /\ cands[c].status = "Submitted" =>
       /\ cands[c].verdict = "Approve"
       /\ cands[c].fact \in DOMAIN facts
       /\ facts[cands[c].fact].status \in InCanon
       /\ facts[cands[c].fact].predicate = Text[c].predicate
       /\ facts[cands[c].fact].value = Text[c].value
       /\ facts[cands[c].fact].supersedes = cands[c].superseded

LEMMA BackedEach == SubmittedBacked <=> \A c \in DOMAIN cands : Backed(c)
  BY DEF SubmittedBacked, Backed

\* The fact of a candidate keeps what it says, whoever works on Canon meanwhile.
LEMMA UntouchedStaysBacked ==
  ASSUME PipelineTypeOK, PipelineNext, NEW c \in DOMAIN cands, Backed(c),
         cands'[c].status = cands[c].status, cands'[c].verdict = cands[c].verdict,
         cands'[c].fact = cands[c].fact, cands'[c].superseded = cands[c].superseded
  PROVE  Backed(c)'
<1>1. CASE cands[c].status # "Submitted"
  BY <1>1 DEF Backed
<1>2. CASE cands[c].status = "Submitted"
  <2>1. cands[c].fact \in DOMAIN facts
    BY <1>2 DEF Backed
  <2>2. KeptInLoop(cands[c].fact)
    BY <2>1, PipelineStepKeeps
  <2> QED BY <1>2, <2>1, <2>2 DEF Backed, KeptInLoop, Kept, Content
<1> QED BY <1>1, <1>2

LEMMA SubmitBacks ==
  ASSUME PipelineTypeOK, NEW c \in Candidate, c \in DOMAIN cands, NEW e \in EntityId,
         NEW f \in FactId \ DOMAIN facts, NEW old \in FactId \cup {NoFact},
         TargetUsable(old), cands[c].verdict = "Approve",
         facts' = Committed(c, e, f, old),
         cands' = Put(cands, c, [cands[c] EXCEPT !.status = "Submitted",
                                                 !.fact = f, !.superseded = old])
  PROVE  Backed(c)'
<1> DEFINE row == NewFact(e, Text[c].predicate, Text[c].value, Text[c].time, "Active", old)
<1>1. cands[c] \in CandidateRow /\ LedgerTypeOK
  BY DEF PipelineTypeOK
<1>2. /\ cands'[c].status = "Submitted" /\ cands'[c].verdict = "Approve"
      /\ cands'[c].fact = f /\ cands'[c].superseded = old
  BY <1>1 DEF Put, CandidateRow
<1>3. /\ DOMAIN facts' = DOMAIN facts \cup {f}
      /\ facts'[f] = row
      /\ \A g \in DOMAIN facts : g # old => facts'[g] = facts[g]
  BY <1>1, CommittedRows
<1>4. /\ row.status = "Active" /\ row.supersedes = old
      /\ row.predicate = Text[c].predicate /\ row.value = Text[c].value
  BY DEF NewFact
<1> HIDE DEF row
<1> QED BY <1>2, <1>3, <1>4 DEF Backed, InCanon

LEMMA PipelineStepBacked ==
  ASSUME PipelineInv, PipelineNext
  PROVE  SubmittedBacked'
<1>0. PipelineTypeOK /\ \A c \in DOMAIN cands : Backed(c)
  BY BackedEach DEF PipelineInv
<1>1. ASSUME NEW c \in DOMAIN cands, cands'[c] = cands[c]
      PROVE  Backed(c)'
  BY <1>0, <1>1, UntouchedStaysBacked
<1>2. ASSUME NEW c \in DOMAIN cands, cands'[c].fact = cands[c].fact,
             cands[c].status # "Submitted", cands'[c].status # "Submitted"
      PROVE  Backed(c)'
  BY <1>0, <1>2 DEF Backed
<1>3. CASE UNCHANGED cands
  BY <1>1, <1>3 DEF SubmittedBacked, Backed
<1>4. ASSUME NEW S \in SUBSET Candidate, PersistExtracted(S)
      PROVE  SubmittedBacked'
  <2>1. /\ DOMAIN cands' = DOMAIN cands \cup S
        /\ \A c \in DOMAIN cands : cands'[c] = cands[c]
        /\ \A c \in DOMAIN cands' \ DOMAIN cands : cands'[c] = NewCandidate
    BY <1>4 DEF PersistExtracted
  <2>2. \A c \in DOMAIN cands' \ DOMAIN cands : Backed(c)'
    BY <2>1 DEF Backed, NewCandidate
  <2> QED BY <1>1, <2>1, <2>2 DEF SubmittedBacked, Backed
<1>5. ASSUME NEW S, NEW status \in CandStatus, cands' = Move(S, status),
             status # "Submitted",
             \A c \in S \cap DOMAIN cands : cands[c].status # "Submitted"
      PROVE  SubmittedBacked'
  <2>1. /\ DOMAIN cands' = DOMAIN cands
        /\ \A c \in DOMAIN cands :
             /\ c \notin S => cands'[c] = cands[c]
             /\ c \in S => cands'[c].status = status
             /\ cands'[c].fact = cands[c].fact
    BY <1>0, <1>5, MoveRows
  <2>2. ASSUME NEW c \in DOMAIN cands
        PROVE  Backed(c)'
    <3>1. CASE c \in S
      BY <1>2, <1>5, <2>1, <3>1
    <3>2. CASE c \notin S
      BY <1>1, <2>1, <3>2
    <3> QED BY <3>1, <3>2
  <2> QED BY <2>1, <2>2 DEF SubmittedBacked, Backed
<1>6. ASSUME NEW r \in RunId, NEW S \in SUBSET Candidate,
             NEW sn \in SnapshotId \cup {NoSnapshot},
             NEW forbidden \in BOOLEAN, NEW crashed \in BOOLEAN,
             TriggerRun(r, S, sn, forbidden, crashed)
      PROVE  SubmittedBacked'
  <2> DEFINE outcome == OutcomeOf(S, sn, forbidden, crashed)
             status == IF autoRun THEN StatusAfter(outcome) ELSE "Validating"
  <2>1. outcome \in Outcome
    BY OutcomeType
  <2>2. cands' = Move(S, status) /\ \A c \in S : cands[c].status = "Extracted"
    BY <1>6 DEF TriggerRun, MayValidate
  <2> HIDE DEF outcome
  <2>3. status \in CandStatus /\ status # "Submitted"
    BY <2>1 DEF StatusAfter, CandStatus, Outcome
  <2> HIDE DEF status
  <2> QED BY <1>5, <2>2, <2>3
<1>7. ASSUME NEW r \in RunId, CancelRun(r)
      PROVE  SubmittedBacked'
  <2> DEFINE given == StillValidating(runs[r].cands)
  <2>1. cands' = Move(given, "Extracted")
    BY <1>7 DEF CancelRun
  <2>2. \A c \in given : cands[c].status = "Validating"
    BY DEF StillValidating
  <2> HIDE DEF given
  <2> QED BY <1>5, <2>1, <2>2 DEF CandStatus
<1>8. ASSUME NEW c \in Candidate, ApproveCandidate(c) \/ RejectCandidate(c)
      PROVE  SubmittedBacked'
  <2>1. PICK status \in {"Approved", "Rejected"}, verdict \in {"Approve", "Reject"} :
          /\ c \in DOMAIN cands
          /\ cands[c].status \in {"AwaitingVerdict", "Approved"}
          /\ cands' = Verdict(c, status, verdict)
    BY <1>8 DEF ApproveCandidate, RejectCandidate
  <2>2. cands[c] \in CandidateRow
    BY <1>0, <2>1 DEF PipelineTypeOK
  <2>3. /\ DOMAIN cands' = DOMAIN cands
        /\ \A d \in DOMAIN cands : d # c => cands'[d] = cands[d]
        /\ cands'[c].status = status /\ cands'[c].fact = cands[c].fact
    BY <2>1, <2>2 DEF Verdict, Put, CandidateRow
  <2>4. Backed(c)'
    BY <1>2, <2>1, <2>3
  <2> QED BY <1>1, <2>3, <2>4 DEF SubmittedBacked, Backed
<1>9. ASSUME NEW c \in Candidate, NEW e \in EntityId, NEW f \in FactId \ DOMAIN facts,
             NEW old \in FactId \cup {NoFact},
             c \in DOMAIN cands, cands[c].status = "Approved", TargetUsable(old),
             facts' = Committed(c, e, f, old),
             cands' = Put(cands, c, [cands[c] EXCEPT !.status = "Submitted",
                                                     !.fact = f, !.superseded = old])
      PROVE  SubmittedBacked'
  <2>1. cands[c].verdict = "Approve"
    BY <1>9 DEF PipelineInv, ApprovedHasVerdict
  <2>2. Backed(c)'
    BY <1>0, <1>9, <2>1, SubmitBacks
  <2>3. DOMAIN cands' = DOMAIN cands /\ \A d \in DOMAIN cands : d # c => cands'[d] = cands[d]
    BY <1>9 DEF Put
  <2> QED BY <1>1, <2>2, <2>3 DEF SubmittedBacked, Backed
<1> QED BY <1>0, <1>3, <1>4, <1>6, <1>7, <1>8, <1>9, LoopStep

-----------------------------------------------------------------------------
(* Theorems: the loop *)

LEMMA PipelineStepInv == PipelineInv /\ [PipelineNext]_pipelineVars => PipelineInv'
<1> SUFFICES ASSUME PipelineInv, [PipelineNext]_pipelineVars
             PROVE  PipelineInv'
  OBVIOUS
<1>1. CASE PipelineNext
  <2>1. PipelineTypeOK /\ SupersessionLinked /\ FactsAged /\ SnapshotFromCanon
    BY DEF PipelineInv
  <2>2. PipelineTypeOK'
    BY <1>1, <2>1, PipelineStepType
  <2>3. SupersessionLinked' /\ FactsAged' /\ SnapshotFromCanon'
    BY <1>1, <2>1, PipelineStepLinks, PipelineStepAged, PipelineStepSnapshots
  <2>4. RunsAgree' /\ HeldOnce' /\ VerdictNeedsPassedRun' /\ ApprovedHasVerdict'
    BY <1>1, PipelineStepRuns
  <2>5. SubmittedBacked'
    BY <1>1, PipelineStepBacked
  <2> QED BY <2>2, <2>3, <2>4, <2>5 DEF PipelineInv
<1>2. CASE UNCHANGED pipelineVars
  <2> USE <1>2 DEF pipelineVars
  <2>1. PipelineTypeOK'
    BY DEF PipelineInv, PipelineTypeOK, LedgerTypeOK
  <2>2. SupersessionLinked' /\ FactsAged' /\ SnapshotFromCanon'
    BY DEF PipelineInv, SupersessionLinked, FactsAged, Aged, SnapshotFromCanon
  <2>3. RunsAgree' /\ HeldOnce' /\ VerdictNeedsPassedRun' /\ ApprovedHasVerdict'
    BY DEF PipelineInv, RunsAgree, HeldOnce, Holds, VerdictNeedsPassedRun,
           ApprovedHasVerdict, StatusesOf
  <2>4. SubmittedBacked'
    BY DEF PipelineInv, SubmittedBacked
  <2> QED BY <2>1, <2>2, <2>3, <2>4 DEF PipelineInv
<1> QED BY <1>1, <1>2

LEMMA PipelineInvariant == PipelineSpec => []PipelineInv
BY PipelineInitInv, PipelineStepInv, PTL DEF PipelineSpec

\* The tables of the loop and of the ledger below it hold rows of their kind.
THEOREM PipelineTypeCorrect == PipelineSpec => []PipelineTypeOK
<1>1. PipelineInv => PipelineTypeOK
  BY DEF PipelineInv
<1> QED BY <1>1, PipelineInvariant, PTL

\* However runs are triggered, executed and cancelled, a run and its candidates
\* say the same of each other (validation _run, cancel_run): no candidate waits
\* for two runs, which is what keeps a cancel from contradicting another run.
THEOREM RunsAlwaysAgree == PipelineSpec => []RunsAgree
<1>1. PipelineInv => RunsAgree
  BY DEF PipelineInv
<1> QED BY <1>1, PipelineInvariant, PTL

\* No way of driving the loop brings a candidate before the editor, or into
\* Canon, that no validation run has passed.
THEOREM VerdictAlwaysRestsOnRun == PipelineSpec => []VerdictNeedsPassedRun
<1>1. PipelineInv => VerdictNeedsPassedRun
  BY DEF PipelineInv
<1> QED BY <1>1, PipelineInvariant, PTL

\* Every Submitted candidate was approved and has its own fact in Canon, that
\* says what it says and names what it replaced, even after the direct Canon
\* API has superseded that fact (approval submit).
THEOREM SubmittedAlwaysBacked == PipelineSpec => []SubmittedBacked
<1>1. PipelineInv => SubmittedBacked
  BY DEF PipelineInv
<1> QED BY <1>1, PipelineInvariant, PTL

\* The change of one candidate in a step, and what it does to Canon.
MovesWithCanon(c) ==
  cands'[c] # cands[c] =>
    LET added == DOMAIN facts' \ DOMAIN facts
        retired == {f \in DOMAIN facts : facts'[f] # facts[f]}
    IN IF cands'[c].status = "Submitted"
       THEN /\ added = {cands'[c].fact}
            /\ facts'[cands'[c].fact].status = "Active"
            /\ retired = {cands'[c].superseded} \ {NoFact}
       ELSE added = {} /\ retired = {}

LEMMA SubmitIsWhole ==
  ASSUME PipelineTypeOK, NEW c \in Candidate, c \in DOMAIN cands, NEW e \in EntityId,
         NEW f \in FactId \ DOMAIN facts, NEW old \in FactId \cup {NoFact},
         TargetUsable(old), facts' = Committed(c, e, f, old),
         cands' = Put(cands, c, [cands[c] EXCEPT !.status = "Submitted",
                                                 !.fact = f, !.superseded = old])
  PROVE  MovesWithCanon(c)
<1> DEFINE row == NewFact(e, Text[c].predicate, Text[c].value, Text[c].time, "Active", old)
<1>1. cands[c] \in CandidateRow /\ LedgerTypeOK
  BY DEF PipelineTypeOK
<1>2. /\ cands'[c].status = "Submitted"
      /\ cands'[c].fact = f /\ cands'[c].superseded = old
  BY <1>1 DEF Put, CandidateRow
<1>3. /\ DOMAIN facts' = DOMAIN facts \cup {f}
      /\ facts'[f] = row
      /\ \A g \in DOMAIN facts : g # old => facts'[g] = facts[g]
  BY <1>1, CommittedRows
<1>4. row.status = "Active"
  BY DEF NewFact
<1> HIDE DEF row
<1>5. {g \in DOMAIN facts : facts'[g] # facts[g]} = {old} \ {NoFact}
  <2>1. CASE old = NoFact
    <3>1. \A g \in DOMAIN facts : g # old
      BY <1>1, <2>1, LedgerAssumption DEF LedgerTypeOK
    <3> QED BY <1>3, <2>1, <3>1
  <2>2. CASE old # NoFact
    <3>1. old \in DOMAIN facts /\ facts[old].status = "Active" /\ old \in FactId
      BY <2>2 DEF TargetUsable
    <3>2. facts'[old].status = "Superseded"
      BY <1>1, <3>1, CommittedTarget
    <3> QED BY <1>3, <2>2, <3>1, <3>2
  <2> QED BY <2>1, <2>2
<1> QED BY <1>2, <1>3, <1>4, <1>5 DEF MovesWithCanon

LEMMA PipelineStepIsWhole ==
  ASSUME PipelineInv, PipelineNext, NEW d \in DOMAIN cands
  PROVE  MovesWithCanon(d)
<1>0. PipelineTypeOK
  BY DEF PipelineInv
<1>1. CASE UNCHANGED cands
  BY <1>1 DEF MovesWithCanon
<1>2. CASE UNCHANGED facts /\ (cands'[d] = cands[d] \/ cands'[d].status # "Submitted")
  BY <1>2 DEF MovesWithCanon
<1>3. ASSUME NEW S \in SUBSET Candidate, PersistExtracted(S)
      PROVE  cands'[d] = cands[d]
  BY <1>3 DEF PersistExtracted
<1>4. ASSUME NEW r \in RunId, NEW S \in SUBSET Candidate,
             NEW sn \in SnapshotId \cup {NoSnapshot},
             NEW forbidden \in BOOLEAN, NEW crashed \in BOOLEAN,
             TriggerRun(r, S, sn, forbidden, crashed)
      PROVE  cands'[d] = cands[d] \/ cands'[d].status # "Submitted"
  <2> DEFINE outcome == OutcomeOf(S, sn, forbidden, crashed)
             status == IF autoRun THEN StatusAfter(outcome) ELSE "Validating"
  <2>1. outcome \in Outcome
    BY OutcomeType
  <2>2. cands' = Move(S, status)
    BY <1>4 DEF TriggerRun
  <2> HIDE DEF outcome
  <2>3. status \in CandStatus /\ status # "Submitted"
    BY <2>1 DEF StatusAfter, CandStatus, Outcome
  <2> HIDE DEF status
  <2> QED BY <1>0, <2>2, <2>3, MoveRows
<1>5. ASSUME NEW r \in RunId, CancelRun(r)
      PROVE  cands'[d] = cands[d] \/ cands'[d].status # "Submitted"
  <2> DEFINE given == StillValidating(runs[r].cands)
  <2>1. cands' = Move(given, "Extracted")
    BY <1>5 DEF CancelRun
  <2> HIDE DEF given
  <2> QED BY <1>0, <2>1, MoveRows DEF CandStatus
<1>6. ASSUME NEW c \in Candidate, ApproveCandidate(c) \/ RejectCandidate(c)
      PROVE  cands'[d] = cands[d] \/ cands'[d].status # "Submitted"
  <2>1. PICK status \in {"Approved", "Rejected"}, verdict \in {"Approve", "Reject"} :
          c \in DOMAIN cands /\ cands' = Verdict(c, status, verdict)
    BY <1>6 DEF ApproveCandidate, RejectCandidate
  <2>2. cands[c] \in CandidateRow
    BY <1>0, <2>1 DEF PipelineTypeOK
  <2> QED BY <2>1, <2>2 DEF Verdict, Put, CandidateRow
<1>7. ASSUME NEW c \in Candidate, NEW e \in EntityId, NEW f \in FactId \ DOMAIN facts,
             NEW old \in FactId \cup {NoFact},
             c \in DOMAIN cands, cands[c].status = "Approved", TargetUsable(old),
             facts' = Committed(c, e, f, old),
             cands' = Put(cands, c, [cands[c] EXCEPT !.status = "Submitted",
                                                     !.fact = f, !.superseded = old])
      PROVE  MovesWithCanon(d)
  <2>1. CASE d = c
    BY <1>0, <1>7, <2>1, SubmitIsWhole
  <2>2. CASE d # c
    <3>1. cands'[d] = cands[d]
      BY <1>7, <2>2 DEF Put
    <3> QED BY <3>1 DEF MovesWithCanon
  <2> QED BY <2>1, <2>2
<1> QED BY <1>0, <1>1, <1>2, <1>3, <1>4, <1>5, <1>6, <1>7, LoopStep

\* Only a submit writes Canon, and it writes all of its change in one step: one
\* fact in effect, and at most one retired, which the candidate names.
THEOREM CanonMovesWithSubmit == PipelineSpec => CommitIsWhole
<1>1. PipelineInv /\ [PipelineNext]_pipelineVars
        => [\A c \in DOMAIN cands : MovesWithCanon(c)]_pipelineVars
  BY PipelineStepIsWhole
<1>2. [\A c \in DOMAIN cands : MovesWithCanon(c)]_pipelineVars
        => [\A c \in DOMAIN cands :
              cands'[c] # cands[c] =>
                LET added == DOMAIN facts' \ DOMAIN facts
                    retired == {f \in DOMAIN facts : facts'[f] # facts[f]}
                IN IF cands'[c].status = "Submitted"
                   THEN /\ added = {cands'[c].fact}
                        /\ facts'[cands'[c].fact].status = "Active"
                        /\ retired = {cands'[c].superseded} \ {NoFact}
                   ELSE added = {} /\ retired = {}
           ]_pipelineVars
  BY DEF MovesWithCanon
<1> QED BY <1>1, <1>2, PipelineInvariant, PTL DEF PipelineSpec, CommitIsWhole

-----------------------------------------------------------------------------
(* Theorems: the ledger while the loop runs on it *)

\* With the approval loop beside the direct API, every retired fact and the one
\* that replaced it still name each other.
THEOREM LoopKeepsLinks == PipelineSpec => []SupersessionLinked
<1>1. PipelineInv => SupersessionLinked
  BY DEF PipelineInv
<1> QED BY <1>1, PipelineInvariant, PTL

\* A submit that supersedes closes no circle either: the replacements of every
\* retired fact lead to one in effect.
THEOREM LoopHistoryEnds == PipelineSpec => []HistoryEndsInEffect
<1>1. PipelineInv => HistoryEndsInEffect
  BY AgedHistoryEnds DEF PipelineInv, PipelineTypeOK
<1> QED BY <1>1, PipelineInvariant, PTL

\* The loop brings facts into Canon and retires them under the snapshots taken
\* before, which still name only what had been in Canon by their story time.
THEOREM LoopKeepsSnapshots == PipelineSpec => []SnapshotFromCanon
<1>1. PipelineInv => SnapshotFromCanon
  BY DEF PipelineInv
<1> QED BY <1>1, PipelineInvariant, PTL

LEMMA PipelineStepVars ==
  ASSUME PipelineInv, [PipelineNext]_pipelineVars, NEW g \in DOMAIN facts
  PROVE  Kept(g)
<1>1. CASE PipelineNext
  BY <1>1, PipelineStepKeeps DEF PipelineInv, KeptInLoop
<1>2. CASE UNCHANGED pipelineVars
  BY <1>2 DEF pipelineVars, Kept, Content
<1> QED BY <1>1, <1>2

\* Neither the loop nor the direct API ever takes a fact out of Canon, edits
\* what it says, or revives a superseded or abandoned one.
THEOREM LoopNeverRewrites == PipelineSpec => CanonNeverRewritten
<1>1. PipelineInv /\ [PipelineNext]_pipelineVars
        => [\A f \in DOMAIN facts :
              /\ f \in DOMAIN facts'
              /\ Content(f)' = Content(f)
              /\ facts[f].status \in InCanon => facts'[f].status \in InCanon
              /\ facts[f].status \in {"Superseded", "Abandoned"} => facts'[f] = facts[f]
           ]_ledgerVars
  <2> SUFFICES ASSUME PipelineInv, [PipelineNext]_pipelineVars, NEW f \in DOMAIN facts
               PROVE  Kept(f)
    BY DEF Kept
  <2> QED BY PipelineStepVars
<1> QED BY <1>1, PipelineInvariant, PTL DEF PipelineSpec, CanonNeverRewritten

\* A validation run that names an old snapshot is checked against what the
\* snapshot said when it was taken, however much has been submitted since.
THEOREM LoopReplaysTheSame == PipelineSpec => ReplayIsStable
<1>1. PipelineInv /\ [PipelineNext]_pipelineVars
        => [\A s \in DOMAIN snapshots : \A t \in StoryTime \cup {NoTime} :
              {Content(f) : f \in Replay(s, t)} = {Content(f) : f \in Replay(s, t)}'
           ]_ledgerVars
  <2> SUFFICES ASSUME PipelineInv, [PipelineNext]_pipelineVars,
                      NEW s \in DOMAIN snapshots, NEW t \in StoryTime \cup {NoTime}
               PROVE  {Content(f) : f \in Replay(s, t)} = {Content(f) : f \in Replay(s, t)}'
    OBVIOUS
  <2>1. snapshots[s].fact_ids \subseteq DOMAIN facts
    BY DEF PipelineInv, SnapshotFromCanon
  <2>2. \A f \in snapshots[s].fact_ids : Kept(f)
    BY <2>1, PipelineStepVars
  <2>3. snapshots'[s].fact_ids = snapshots[s].fact_ids
    <3>1. CASE UNCHANGED snapshots
      BY <3>1
    <3>2. CASE LedgerNext
      BY <3>2, SnapshotKeepsFacts DEF PipelineInv, PipelineTypeOK
    <3> QED BY <3>1, <3>2, LoopStep DEF PipelineInv, pipelineVars
  <2>4. Replay(s, t)' = Replay(s, t)
    BY <2>1, <2>2, <2>3 DEF Replay, Kept, Content
  <2>5. \A f \in Replay(s, t) : Content(f)' = Content(f)
    BY <2>2 DEF Replay, Kept
  <2> HIDE DEF Content, Replay
  <2> QED BY <2>4, <2>5
<1> QED BY <1>1, PipelineInvariant, PTL DEF PipelineSpec, ReplayIsStable

=============================================================================
