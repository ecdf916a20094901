CONSTANTS
  Length = 8
  InitScores <- MCInitScores
  KyokuResults <- MCResults
  MaxHonba = 2
  NoResult = NoResult
  HandSize = 3
  DeadWall = 2
  Yama = 16
  Requests <- MCRequests
  Orders = {9}
  MaxSwaps = 1
  NoTile = NoTile
  Games = {1, 2, 3}
  Single = {3}
  Scenes <- MCScenes
  QuickEval = TRUE
  None = None
  MaxCycles = 2
  t1 = t1
  t2 = t2
  t3 = t3
  Movers = {0, 1}
  Winners = {1, 2, 3}
  Hands = {32000}
  MaxRounds = 2
  MaxTurns = 2
  MaxCallers = 1
  OwnOffers <- MCOwnOffers
  CallOffers <- MCCallOffers
  AlwaysKan = FALSE
  Discards = {1, 2}
  MaxLog = 7
  MaxKyoku = 2
SPECIFICATION EngineSpec
INVARIANTS
  GamePointsConserved EndIsDue RenchanHasPriority
  MadeUpGamesAreReal ScoreIsBest OwnAnswers EveryGameCounted
  StatisticsAddUp RecordsTellTheGame RowsFit
PROPERTIES NoWallTwice
CHECK_DEADLOCK FALSE
