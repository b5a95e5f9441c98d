----------------------------- MODULE CanonLedger -----------------------------
(***************************************************************************)
(* The Canon of one story project: the entities, facts and snapshots that  *)
(* backend/slove_context/canon/service.py keeps in its repository.  A      *)
(* request handler runs to completion here (one action per handler);       *)
(* CanonThreads interleaves the steps of the handlers.                     *)
(*                                                                         *)
(* A repository is a dict, so a table is a function whose DOMAIN is the    *)
(* set of rows that exist; ids are uuid4 values, picked from a finite set  *)
(* which is the bound of the model.  Rows are never deleted by the code.   *)
(*                                                                         *)
(* An operator named X_Y is a mutant of X: a bug of kind Y that the        *)
(* properties are shown to catch.  No specification uses it.               *)
(***************************************************************************)
EXTENDS Naturals, FiniteSets

CONSTANTS
  EntityId, FactId, SnapshotId,  \* the ids that uuid4 may return
  EntityName,                    \* names of characters, places, things
  EntityType,                    \* the type given with a name
  Predicate,                     \* what a fact says of its entity
  Value,                         \* value_json, up to the conflict rule
  StoryTime,                     \* effective_story_time, ordered
  NoFact,                        \* Python None, for a fact id
  NoTime                         \* Python None, for as_of_story_time

ASSUME LedgerAssumption ==
  /\ StoryTime \subseteq Nat
  /\ NoTime \notin Nat
  /\ NoFact \notin FactId

VARIABLES
  entities,   \* entity id -> [name, type]
  facts,      \* fact id -> Fact
  snapshots   \* snapshot id -> Snapshot

ledgerVars == <<entities, facts, snapshots>>

-----------------------------------------------------------------------------
(* Rows *)

FactStatus ==
  {"NotInCanon", "Active", "Superseded", "Failed", "Abandoned", "Rework"}
NotYetActive == {"NotInCanon", "Failed", "Rework"}
InCanon == {"Active", "Superseded"}

Entity == [name: EntityName, type: EntityType]

Fact ==
  [entity: EntityId, predicate: Predicate, value: Value, time: StoryTime,
   status: FactStatus, version_status: FactStatus,
   supersedes: FactId \cup {NoFact}, superseded_by: FactId \cup {NoFact}]

Snapshot ==
  [fact_ids: SUBSET FactId, as_of: StoryTime \cup {NoTime}, frozen: BOOLEAN]

LedgerTypeOK ==
  /\ DOMAIN entities \subseteq EntityId
  /\ entities \in [DOMAIN entities -> Entity]
  /\ DOMAIN facts \subseteq FactId
  /\ facts \in [DOMAIN facts -> Fact]
  /\ DOMAIN snapshots \subseteq SnapshotId
  /\ snapshots \in [DOMAIN snapshots -> Snapshot]

EmptyTable == [x \in {} |-> x]

LedgerInit ==
  /\ entities = EmptyTable
  /\ facts = EmptyTable
  /\ snapshots = EmptyTable

\* The dict assignment behind every add_* and save_* of the repositories.
Put(table, id, row) ==
  [x \in DOMAIN table \cup {id} |-> IF x = id THEN row ELSE table[x]]

-----------------------------------------------------------------------------
(* Reading the ledger *)

\* One row of the result of list_facts_in_effect for an entity and predicate.
InEffect(e, p) ==
  {f \in DOMAIN facts : /\ facts[f].status = "Active"
                        /\ facts[f].entity = e
                        /\ facts[f].predicate = p}

\* That list is sorted by story time, then by id; ids are random, so any
\* member with the least story time may come first.
Earliest(S) == {f \in S : \A g \in S : facts[f].time <= facts[g].time}

TimeInEffect(time, as_of) == IF as_of = NoTime THEN TRUE ELSE time <= as_of

ActiveAsOf_AnyStatus(as_of) ==
  {f \in DOMAIN facts : TimeInEffect(facts[f].time, as_of)}

ActiveAsOf(as_of) ==
  {f \in DOMAIN facts : /\ facts[f].status = "Active"
                        /\ TimeInEffect(facts[f].time, as_of)}

\* What a reader of the story learns from a fact.
Content(f) ==
  <<facts[f].entity, facts[f].predicate, facts[f].value, facts[f].time>>

\* replay_snapshot: the rows named by the snapshot that hold at story time t.
Replay(s, t) ==
  {f \in snapshots[s].fact_ids \cap DOMAIN facts : TimeInEffect(facts[f].time, t)}

-----------------------------------------------------------------------------
(* Handlers *)

NewFact(e, p, v, t, status, old) ==
  [entity |-> e, predicate |-> p, value |-> v, time |-> t,
   status |-> status, version_status |-> status,
   supersedes |-> old, superseded_by |-> NoFact]

NameTaken(name, type) ==
  \E x \in DOMAIN entities : entities[x] = [name |-> name, type |-> type]

CreateEntity(e, name, type) ==
  /\ e \in EntityId \ DOMAIN entities
  /\ ~NameTaken(name, type)
  /\ entities' = Put(entities, e, [name |-> name, type |-> type])
  /\ UNCHANGED <<facts, snapshots>>

CreateFact(f, e, p, v, t) ==
  /\ f \in FactId \ DOMAIN facts
  /\ e \in DOMAIN entities
  /\ facts' = Put(facts, f, NewFact(e, p, v, t, "NotInCanon", NoFact))
  /\ UNCHANGED <<entities, snapshots>>

Restatus(f, status) ==
  Put(facts, f, [facts[f] EXCEPT !.status = status, !.version_status = status])

ApproveFact(f) ==
  /\ f \in DOMAIN facts
  /\ facts[f].status \in NotYetActive
  /\ facts' = Restatus(f, "Active")
  /\ UNCHANGED <<entities, snapshots>>

AbandonFact_InCanonToo(f) ==
  /\ f \in DOMAIN facts
  /\ facts[f].status # "Abandoned"
  /\ facts' = Restatus(f, "Abandoned")
  /\ UNCHANGED <<entities, snapshots>>

AbandonFact_AsRejected(f) ==
  /\ f \in DOMAIN facts
  /\ facts[f].status \in NotYetActive
  /\ facts' = Restatus(f, "Rejected")
  /\ UNCHANGED <<entities, snapshots>>

AbandonFact(f) ==
  /\ f \in DOMAIN facts
  /\ facts[f].status \in NotYetActive
  /\ facts' = Restatus(f, "Abandoned")
  /\ UNCHANGED <<entities, snapshots>>

Retired_NoBackLink(old, new) ==
  Put(facts, old, [facts[old] EXCEPT !.status = "Superseded"])

\* The old row keeps its text, and its version row keeps its status.
Retired(old, new) ==
  Put(facts, old, [facts[old] EXCEPT !.status = "Superseded",
                                     !.superseded_by = new])

SupersedeFact_NotYetActive(old, new, e, p, v, t) ==
  /\ old \in DOMAIN facts
  /\ facts[old].status = "Active"
  /\ new \in FactId \ DOMAIN facts
  /\ e \in DOMAIN entities
  /\ facts' = Put(Retired(old, new), new, NewFact(e, p, v, t, "NotInCanon", old))
  /\ UNCHANGED <<entities, snapshots>>

SupersedeFact_InPlace(old, new, e, p, v, t) ==
  /\ old \in DOMAIN facts
  /\ facts[old].status = "Active"
  /\ new \in FactId \ DOMAIN facts
  /\ e \in DOMAIN entities
  /\ facts' = Put(Put(facts, old, [Retired(old, new)[old] EXCEPT !.value = v]),
                  new, NewFact(e, p, v, t, "Active", old))
  /\ UNCHANGED <<entities, snapshots>>

\* The replacement may be about another entity or predicate: both default to
\* those of the old fact but the payload may override them.
SupersedeFact(old, new, e, p, v, t) ==
  /\ old \in DOMAIN facts
  /\ facts[old].status = "Active"
  /\ new \in FactId \ DOMAIN facts
  /\ e \in DOMAIN entities
  /\ facts' = Put(Retired(old, new), new, NewFact(e, p, v, t, "Active", old))
  /\ UNCHANGED <<entities, snapshots>>

CreateSnapshot(s, as_of) ==
  /\ s \in SnapshotId \ DOMAIN snapshots
  /\ snapshots' = Put(snapshots, s, [fact_ids |-> ActiveAsOf(as_of),
                                     as_of |-> as_of, frozen |-> FALSE])
  /\ UNCHANGED <<entities, facts>>

FreezeSnapshot(s) ==
  /\ s \in DOMAIN snapshots
  /\ ~snapshots[s].frozen
  /\ snapshots' = Put(snapshots, s, [snapshots[s] EXCEPT !.frozen = TRUE])
  /\ UNCHANGED <<entities, facts>>

LedgerNext ==
  \/ \E e \in EntityId, n \in EntityName, y \in EntityType : CreateEntity(e, n, y)
  \/ \E f \in FactId, e \in EntityId, p \in Predicate, v \in Value, t \in StoryTime :
       CreateFact(f, e, p, v, t)
  \/ \E f \in FactId : ApproveFact(f)
  \/ \E f \in FactId : AbandonFact(f)
  \/ \E old, new \in FactId, e \in EntityId, p \in Predicate, v \in Value, t \in StoryTime :
       SupersedeFact(old, new, e, p, v, t)
  \/ \E s \in SnapshotId, as_of \in StoryTime \cup {NoTime} : CreateSnapshot(s, as_of)
  \/ \E s \in SnapshotId : FreezeSnapshot(s)

LedgerSpec == LedgerInit /\ [][LedgerNext]_ledgerVars

-----------------------------------------------------------------------------
(* Properties *)

\* Supersession is a two-way link between exactly two rows: a retired fact
\* names the fact that replaced it, that fact names it back, and both have
\* been in Canon.  Hence a fact is replaced at most once, and truth that was
\* in Canon always has an heir in Canon (canon/service.py supersede_fact).
SupersessionLinked ==
  \A f \in DOMAIN facts :
    LET old == facts[f].supersedes
        new == facts[f].superseded_by
    IN /\ facts[f].status = "Superseded" <=> new # NoFact
       /\ new # NoFact => /\ new \in DOMAIN facts
                          /\ facts[new].supersedes = f
       /\ old # NoFact => /\ old \in DOMAIN facts
                          /\ facts[old].superseded_by = f
                          /\ facts[f].status \in InCanon

\* Following the replacements of a retired fact ends, and it ends in a fact
\* that is in effect: no cycle and no dead end in the history of a statement.
HistoryEndsInEffect ==
  \A f \in DOMAIN facts :
    LET last[n \in Nat] ==
          IF n = 0 THEN f
          ELSE LET g == last[n - 1]
               IN IF facts[g].superseded_by \in DOMAIN facts
                  THEN facts[g].superseded_by ELSE g
    IN facts[f].status = "Superseded"
         => facts[last[Cardinality(DOMAIN facts)]].status = "Active"

\* A snapshot only ever names facts that have been in Canon, none of them
\* dated after the story time it was taken for (create_snapshot).
SnapshotFromCanon ==
  \A s \in DOMAIN snapshots : \A f \in snapshots[s].fact_ids :
    /\ f \in DOMAIN facts
    /\ facts[f].status \in InCanon
    /\ TimeInEffect(facts[f].time, snapshots[s].as_of)

\* Replaying a snapshot at any point gives the same statements for ever,
\* whatever is approved, abandoned or superseded later (replay_snapshot reads
\* live rows by id, so this rests on facts being kept and never edited).
ReplayIsStable ==
  [][\A s \in DOMAIN snapshots : \A t \in StoryTime \cup {NoTime} :
       {Content(f) : f \in Replay(s, t)} = {Content(f) : f \in Replay(s, t)}'
    ]_ledgerVars

\* What has been in Canon is never taken out, edited or revived: a fact in
\* effect can only become superseded, a superseded row never changes again.
CanonNeverRewritten ==
  [][\A f \in DOMAIN facts :
       /\ f \in DOMAIN facts'
       /\ Content(f)' = Content(f)
       /\ facts[f].status \in InCanon => facts'[f].status \in InCanon
       /\ facts[f].status \in {"Superseded", "Abandoned"} => facts'[f] = facts[f]
    ]_ledgerVars

=============================================================================
