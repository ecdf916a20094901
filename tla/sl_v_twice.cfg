CONSTANTS
  discardA = discardA
  discardB = discardB
  riichiA = riichiA
  Cands <- PlainCands
  Tile <- PlainTile
  Analyses = {A, B}
  NoOne = NoOne
  NoRow = NoRow
  SeedChoices = {1}
  RunChoices = {1, 2}
  MaxOps = 3
  StartMethod = "spawn"
  Outlive = {}
SPECIFICATION Spec
INVARIANT NoGameTwice
CHECK_DEADLOCK FALSE
