CONSTANTS
  Asset = {a1, a2}
  s1 = s1
  f2 = f2
  f1 = f1
  Record = {f1}
  SlotsOf <- OneFounder
  Request = {q1, q2}
  Sweeper = {g1}
  UploadWidth = {64}
  OgWidth = 1200
  NoAsset = NoAsset
  NoRecord = NoRecord
  MaxTitle = 1
  Faults = {"request", "tidy"}
SPECIFICATION FairSpec
PROPERTIES OrphanRowsSwept
