SPECIFICATION MCSpec
CONSTANTS
  Record = {r1, r2, r3}
  Existing = {r1}
  Field = {f, g}
  Industry = {i, j}
  MaxCalls = 2
  MaxMoves = 3
  MaxOthers = 1
  New = New
  None = None
  ada = ada
  fund = fund
  w25 = w25
  Kind <- MCKind
  Name = {ada, fund, w25}
  RecordIds = {1, 2, 3, 4}
  First = fund
  LinkCalls = 2
  LinkMoves = 5
  Round = Round
INVARIANTS QuietMeansStored EntriesKept LinksKept
PROPERTIES SavesWhatWasSeen PublishedTogether
CHECK_DEADLOCK FALSE
