SPECIFICATION Spec
CONSTANTS
  SuggestMax = 20
  Lens = {0, 7, 14, 17}
  MaxResp = 3
  MaxWrites = 5
  GrowTo = 7
CHECK_DEADLOCK FALSE
INVARIANTS TypeOK ReadsBack 
