CONSTANTS
  Games = {1, 2}
  Players = {0, 1, 2}
  target = 1
  Want = {"discard", "riichi", "tsumo", "ron", "pass", "chi", "pon", "daiminkan", "ryukyoku", "ankan"}
  Follow = {"none", "held", "missing"}
  Forced <- MCForced
  MaxPolls = 5
  None = None
SPECIFICATION FairSpec
INVARIANTS EachGameOnce LikelihoodOnce FirstActionIsRequested
PROPERTIES EveryGameIsReturned
CHECK_DEADLOCK FALSE
