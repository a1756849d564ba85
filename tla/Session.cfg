SPECIFICATION FairSpec
CONSTANTS
  Pids = {1}
  Users = {"ann", "bob"}
  Anon = "anon"
  Reqs = {1, 2}
  Who <- WhoFirst
  NoReq = 0
  MaxTries = 2
  Backlog = 0
  RobotReject = TRUE
  Parallel = 2
  MaxFaults = 2
CHECK_DEADLOCK FALSE
INVARIANTS TypeOK OneUserEach RunOnce
PROPERTIES  Reaped
