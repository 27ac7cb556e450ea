------------------------------ MODULE Listings ------------------------------
(***************************************************************************)
(* Lists made of sets, and of other lists, in an order.                    *)
(***************************************************************************)
EXTENDS Naturals, FiniteSets, Sequences

\* The elements of S, each once, every one before those it precedes.
Ordered(S, precedes) ==
  CHOOSE f \in [1 .. Cardinality(S) -> S] :
    \A i, j \in 1 .. Cardinality(S) : i < j => <<f[i], f[j]>> \in precedes

\* The entries of a sequence at some of its places, in their order.
EntriesAt(s, places) ==
  LET at == Ordered(places, {p \in places \X places : p[1] < p[2]})
  IN  [k \in DOMAIN at |-> s[at[k]]]
=============================================================================
