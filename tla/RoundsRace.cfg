CONSTANTS
  Startup = {s1}
  Round = {1, 2}
  Editor = {e1}
  Repairer = {p1}
  Content <- TwoKinds
  NoRound = NoRound
  NoTotals = NoTotals
SPECIFICATION FairSpec
INVARIANTS LatestWasPublished
PROPERTIES RecomputeExact TxFinishes
\* Once every startup is deleted there is nothing left to do.
CHECK_DEADLOCK FALSE
