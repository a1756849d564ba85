SPECIFICATION Spec
CONSTANTS
  p1 = p1
  p2 = p2
  p3 = p3
  Nobody = Nobody
  Absent = Absent
  NoMaster = NoMaster
  Proc <- TwoProcs
  Ops = {"new", "attach", "item", "zap", "attr"}
  Slots = 2
  MaxResp = 3
  MaxItems = 9
  FreezeAt = 9
  MaxJobs = 4
  Crashes = TRUE
CHECK_DEADLOCK FALSE
SYMMETRY Symm2
INVARIANTS TypeOK NumbersUnique TextsCounted ItemsExist AttachmentsExist DeletedGone
PROPERTY MasterAtomic
