SPECIFICATION FairSpec
CONSTANTS
  p1 = p1
  p2 = p2
  p3 = p3
  Nobody = Nobody
  Absent = Absent
  NoMaster = NoMaster
  Proc <- TwoProcs
  Ops = {"new", "edit", "detach", "item", "zap", "attr", "freeze", "thaw"}
  Slots = 3
  MaxResp = 3
  MaxItems = 9
  FreezeAt = 1
  MaxJobs = 3
  Crashes = FALSE
CHECK_DEADLOCK FALSE
 
PROPERTIES AllReturn OnlyStaleHeadersThaw
