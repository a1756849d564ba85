SPECIFICATION Spec
CONSTANTS
  Items = {1, 2}
  NBuf = 2
  MaxResp <- MCMaxResp
  MaxVer <- MCMaxVer
  Other = Other
INVARIANTS TypeOK NeverBack FreshIfAlone NotMissed TwinsByOthers
CHECK_DEADLOCK FALSE
