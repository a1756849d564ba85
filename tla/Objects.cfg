SPECIFICATION Spec
CONSTANTS
  Procs = {p1, p2}
  Members = {"a", "b"}
  Inodes = {i1, i2}
  NoInode = NoInode
  None = None
  MaxWrites = 2
  MaxDeaths = 1
  MaxKills = 1
SYMMETRY Symmetric
INVARIANTS TypeOK Exclusive  LockProtects
CHECK_DEADLOCK FALSE
