SPECIFICATION SpecOutOfOrder
CONSTANTS
  SuggestMax = 20
  Lens = {0, 3, 7, 17}
  MaxResp = 3
  MaxWrites = 4
  GrowTo = 0
CHECK_DEADLOCK FALSE
INVARIANT ReadsBack
