CONSTANTS
  discardA = discardA
  discardB = discardB
  riichiA = riichiA
  Cands <- MCCands
  Tile <- MCTile
  Analyses = {A, B}
  NoOne = NoOne
  NoRow = NoRow
  SeedChoices = {1}
  RunChoices = {1, 2}
  MaxOps = 3
  StartMethod = "spawn"
  Outlive = {}
SPECIFICATION Spec
INVARIANTS HistoryIsExact RowCoversItsGames
PROPERTY FreshCacheMeansFreshSeeds
CHECK_DEADLOCK FALSE
