SPECIFICATION FairSpec
CONSTANTS
  p1 = p1
  p2 = p2
  p3 = p3
  Nobody = Nobody
  Absent = Absent
  NoMaster = NoMaster
  Proc <- TwoProcs
  Ops = {"attach", "zap"}
  Slots = 1
  MaxResp = 2
  MaxItems = 9
  FreezeAt = 9
  MaxJobs = 2
  Crashes = FALSE
CHECK_DEADLOCK FALSE
PROPERTY AllReturn
