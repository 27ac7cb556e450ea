CONSTANTS
  Startup = {s1}
  Round = {1, 2}
  Editor = {e1, e2}
  Repairer = {}
  Content <- OneKind
  NoRound = NoRound
  NoTotals = NoTotals
SPECIFICATION Spec
INVARIANTS TotalsMatch
\* Once every startup is deleted there is nothing left to do.
CHECK_DEADLOCK FALSE
