----------------------------- MODULE SceneCards -----------------------------
(***************************************************************************)
(* Scene cards, their place in the story and what they depend on           *)
(* (scene/service.py).  A request edits the stored row itself, so what it  *)
(* has written before it finds a reason to refuse stays written.           *)
(*                                                                         *)
(* A card is abstracted to its chapter, its place and its dependencies.    *)
(* An operator named X_Y is a mutant of X that the properties catch.       *)
(***************************************************************************)
EXTENDS Naturals, FiniteSets

CONSTANTS
  Scene,
  Chapter,
  Place      \* the story_order values in use

ASSUME CardsAssumption == Place \subseteq Nat \ {0} /\ IsFiniteSet(Scene)

VARIABLES
  arcs,      \* how many arcs there are (bound of the model: one)
  chapters,  \* the chapters created
  cards      \* scene -> its card, or NoCard

cardVars == <<arcs, chapters, cards>>

-----------------------------------------------------------------------------

CardStatus == {"draft", "approved", "published"}
Satisfying == {"approved", "published"}

Card == [status: CardStatus, chapter: Chapter, place: Place, deps: SUBSET Scene]
NoCard == [status |-> "none"]

Cards == {s \in Scene : cards[s] # NoCard}

CardsTypeOK ==
  /\ arcs \in 0 .. 1
  /\ chapters \subseteq Chapter
  /\ \A s \in Cards :
       /\ cards[s] \in Card
       /\ cards[s].chapter \in chapters
       /\ cards[s].deps \subseteq Cards \ {s}

CardsInit ==
  /\ arcs = 0
  /\ chapters = {}
  /\ cards = [s \in Scene |-> NoCard]

-----------------------------------------------------------------------------

\* As if a scene moved to another chapter did not count.  S: scenes left out of account.
PlaceTaken_InChapter(S, c, p) ==
  \E t \in Cards \ S : cards[t].place = p /\ cards[t].chapter = c

PlaceTaken(S, c, p) == \E t \in Cards \ S : cards[t].place = p

\* Follow the dependencies from s, as deep as there are scenes.
Reaches(deps, s) ==
  LET R[n \in Nat] ==
        IF n = 0 THEN deps[s] ELSE R[n-1] \cup UNION {deps[t] : t \in R[n-1]}
  IN R[Cardinality(Scene)]

Deps == [s \in Scene |-> IF s \in Cards THEN cards[s].deps ELSE {}]

\* As if only two scenes that name each other were a cycle.
Cyclic_Direct(deps) == \E s \in Scene : \E t \in deps[s] : s \in deps[t]

Cyclic(deps) == \E s \in Scene : s \in Reaches(deps, s)

Satisfies(s) == s \in Cards /\ cards[s].status \in Satisfying

-----------------------------------------------------------------------------
(* Requests *)

CreateArc ==
  /\ arcs = 0
  /\ arcs' = 1
  /\ UNCHANGED <<chapters, cards>>

CreateChapter(c) ==
  /\ arcs > 0
  /\ c \notin chapters
  /\ chapters' = chapters \cup {c}
  /\ UNCHANGED <<arcs, cards>>

\* The client may name the scene.  One that exists is made anew: its place counts
\* as taken, and what depends on it still does.
CreateScene(s, c, p) ==
  /\ c \in chapters
  /\ ~PlaceTaken({}, c, p)
  /\ cards' = [cards EXCEPT ![s] =
       [status |-> "draft", chapter |-> c, place |-> p, deps |-> {}]]
  /\ UNCHANGED <<arcs, chapters>>

\* The chapter is written first.  A place that is taken refuses the rest of the
\* request; one that contradicts the dependencies is noticed when all is written.
PatchScene(s, c, p) ==
  /\ ~Satisfies(s)
  /\ c \in chapters
  /\ cards' = [cards EXCEPT ![s].chapter = c,
                            ![s].place = IF PlaceTaken({s}, c, p) THEN @ ELSE p]
  /\ UNCHANGED <<arcs, chapters>>

\* Likewise a dependency told later is noticed when it is written.  The status
\* of the scene is not looked at.
SetDependencies(s, D) ==
  /\ s \notin D
  /\ ~Cyclic([Deps EXCEPT ![s] = D])
  /\ cards' = [cards EXCEPT ![s].deps = D]
  /\ UNCHANGED <<arcs, chapters>>

ApproveScene(s) ==
  /\ cards[s].status = "draft"
  /\ cards' = [cards EXCEPT ![s].status = "approved"]
  /\ UNCHANGED <<arcs, chapters>>

CardsNext ==
  \/ CreateArc
  \/ \E c \in Chapter : CreateChapter(c)
  \/ \E s \in Scene, c \in Chapter, p \in Place : CreateScene(s, c, p)
  \/ \E s \in Cards :
       \/ \E c \in Chapter, p \in Place : PatchScene(s, c, p)
       \/ \E D \in SUBSET Cards : SetDependencies(s, D)
       \/ ApproveScene(s)

CardsSpec == CardsInit /\ [][CardsNext]_cardVars

-----------------------------------------------------------------------------
(* Properties *)

\* However cards are created, moved and linked, two scenes never share a place
\* in the story and no scene waits for itself: list order and the scheduler's
\* waves, which take both for granted, stay well defined.
StoryStaysOrdered ==
  /\ \A s, t \in Cards : cards[s].place = cards[t].place => s = t
  /\ \A s \in Cards : s \notin Reaches(Deps, s)

\* Conflicts with the order of the story are rejected: a scene is told after
\* every scene it depends on.  The code does not keep this and no run checks it:
\* SetDependencies and PatchScene have written when they refuse.
DepsToldBefore ==
  \A s \in Cards : \A d \in cards[s].deps : cards[d].place < cards[s].place
=============================================================================
