CONSTANTS
  Asset = {a1, a2}
  s1 = s1
  f1 = f1
  f2 = f2
  Record = {f1, f2}
  SlotsOf <- TwoFounders
  Request = {q1, q2}
  Sweeper = {g1}
  UploadWidth = {64, 128}
  OgWidth = 1200
  NoAsset = NoAsset
  NoRecord = NoRecord
  MaxTitle = 1
  Faults = {"request", "tidy", "sweep"}
SPECIFICATION Spec
INVARIANTS ImagesServable SoleOwner
PROPERTIES CardNeverBlanked SweepBlanksNothing ReleasedForGood
SYMMETRY Symmetric
