CONSTANTS
  Oya = 1
  Honba = 1
  Scores0 <- MCScores
  Kyotaku0 = 1
  Tiles = 8
  Kinds = {"E", "S", "middle", "dragon"}
  OyaPoints <- MCOyaPoints
  KoPoints <- MCKoPoints
  MaxYakuman = 1
  MaxCalls = 3
  Nobody = Nobody
  NoTile = NoTile
SPECIFICATION MCSpec
INVARIANTS PointsConserved KeepsContract DoraFollowsKan NoErrorPath RiichiSettled FourWindsExact
PROPERTIES FourKansStop EveryStepProgresses
CHECK_DEADLOCK FALSE
