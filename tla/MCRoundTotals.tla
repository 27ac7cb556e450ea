---------------------------- MODULE MCRoundTotals ----------------------------
(* RoundTotals with rounds of a few kinds, so that totals and the latest round can differ. *)
EXTENDS RoundTotals

EquityEarly == [class |-> "equity", amount |-> 1, day |-> 1]
DebtRound == [class |-> "debt", amount |-> 4, day |-> 1]

TwoKinds == {EquityEarly, DebtRound}
OneKind == {EquityEarly}
=============================================================================
