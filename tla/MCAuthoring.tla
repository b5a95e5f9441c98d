---------------------------- MODULE MCAuthoring ----------------------------
(***************************************************************************)
(* What is settled before a scene is written: Authoring with three         *)
(* revisions, of which one or more kinds, and SceneCards with three scenes *)
(* in two chapters.                                                        *)
(***************************************************************************)
EXTENDS Authoring, SceneCards

deskVars == <<docVars, cardVars>>

DeskInit == AuthoringInit /\ CardsInit

DeskNext ==
  \/ AuthoringNext /\ UNCHANGED cardVars
  \/ CardsNext /\ UNCHANGED docVars

DeskSpec == DeskInit /\ [][DeskNext]_deskVars

\* The Spec, the revisions and the cards share nothing: one of them is explored
\* at a time.
OneDesk ==
  \/ spec = <<>> /\ revs = <<>>
  \/ spec = <<>> /\ arcs = 0
  \/ revs = <<>> /\ arcs = 0
=============================================================================
