---------------------------- MODULE MCSlugClaims ----------------------------
(* Instances of SlugClaims for TLC. *)
EXTENDS SlugClaims, TLC

CONSTANTS e1, e2, acme, acme2, nova, name1, t1, t2, r1

\* One name, whose slug and first suffixed slug are among those people type.
MCCandidates == [n \in Name |-> <<acme, acme2>>]

MCSymmetry == Permutations(Entity) \cup Permutations(Tx)
=============================================================================
