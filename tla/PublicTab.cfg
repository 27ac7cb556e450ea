SPECIFICATION MCSpec
CONSTANTS
  Items <- MCItems
  Added <- MCAdded
  Raised <- MCRaised
  Named <- MCNamed
  Seed <- MCSeed
  Limit = 1
  MaxDepth = 2
  MaxGridMoves = 2
  MaxChanges = 1
  Nothing = Nothing
  nova = nova
  notion = notion
  Text = {"", "n", "no", "No"}
  Short = {"", "n"}
  Fold <- MCFold
  Suggestions <- MCHits
  Slug = {nova, notion}
  Tab = {"all", "founders"}
  CacheSize = 1
  MaxRecent = 2
  MaxSearchMoves = 5
  MaxGestures = 5
  MaxRenderers = 4
  CardCount = 3
  Slots = 2
  MaxInputs = 3
INVARIANTS ListsWhole OnlyCrossingsLoseWishes CanvasInOrder
PROPERTIES ShowsItsCards OpensWhatWasMeant EverythingSettles
CHECK_DEADLOCK FALSE
