CONSTANTS
  Oya = 0
  Honba = 0
  Scores0 <- MCScores
  Kyotaku0 = 0
  Tiles = 4
  Kinds = {"middle"}
  OyaPoints <- MCOyaPoints
  KoPoints <- MCKoPoints
  MaxYakuman = 1
  MaxCalls = 1
  Nobody = Nobody
  NoTile = NoTile
SPECIFICATION MCSpec
PROPERTY BlessedWinIsUninterrupted
CHECK_DEADLOCK FALSE
