CONSTANTS
  Kinds = {22, 23, 24, 25, 26, 27}
  Red = Red
  Five = 22
  Sets = 1
  Deals <- MCDeals
  Played = {22, 24, 27}
  Markers = {24}
  HasYaku <- MCHasYaku
  Callers = {1}
  Nobody = Nobody
SPECIFICATION Spec
INVARIANTS FuritenIsExact StateIsCurrent DiscardsAreRight
CHECK_DEADLOCK FALSE
