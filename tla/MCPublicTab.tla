---------------------------- MODULE MCPublicTab ----------------------------
(***************************************************************************)
(* Explore: three startups, two of them added at once; pages of one card.  *)
(* Search: words of one and two letters, one of them in two cases.         *)
(* Canvas: three cards, one to three of them in view, and two slots.       *)
(***************************************************************************)
EXTENDS PublicTab, Integers, Sequences, TLC

CONSTANTS nova, notion

MCItems == 1..3
MCAdded == [s \in MCItems |-> IF s = 1 THEN 0 ELSE 1]
MCRaised == [s \in MCItems |-> IF s = 1 THEN 1 ELSE 0]
MCNamed == {1, 2}
MCSeed == {2, 3}
MCFold == [t \in Text |-> IF t = "No" THEN "no" ELSE t]
MCHits == [t \in Text |-> CASE t = "n" -> <<notion, nova>> [] t = "" -> <<>> [] OTHER -> <<nova>>]

\* What is not open starts in one way only; a visit to the grid starts with either sort, and
\* navigations reach the other queries.
MCInit ==
  /\ TabInit
  /\ open # "explore" => url = Grid!Default
  /\ url \in {Grid!Default, [Grid!Default EXCEPT !.sort = "raised"]}
  /\ open # "search" => place = Palette!Search("", "all")
  /\ open # "views" => saved = "flat" /\ reduced /\ code = "here"

MCSpec == MCInit /\ [][TabNext]_tabVars /\ WF_tabVars(Browser)
=============================================================================
