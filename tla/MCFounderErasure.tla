--------------------------- MODULE MCFounderErasure ---------------------------
(***************************************************************************)
(* FounderErasure with two founders, one startup and one privacy request:  *)
(* three transactions at once with one stint (Erasure.cfg), or two with    *)
(* two stints of each founder (ErasureWaits.cfg).                          *)
(***************************************************************************)
EXTENDS FounderErasure, TLC

Interchangeable == Permutations(Founder) \cup Permutations(Stint) \cup Permutations(Tx)

\* Bound: three transactions run at once only when one of them is an erasure, and beside four audit
\* rows at most; a scrub takes them in every order.
Running == {t \in Tx : tx[t].op # "none"}
FewBesideThree ==
    Cardinality(Running) = 3 => Cardinality(audit) <= 4 /\ \E t \in Running : tx[t].op = "erase"
=============================================================================
