SPECIFICATION Spec
CONSTANTS
  p1 = p1  p2 = p2  p3 = p3
  v1 = v1  v2 = v2
  Absent = Absent
  Partial = Partial
  Proc <- MCProc
  Val <- MCVal
  ViewModes <- Shared
  Kills = FALSE
  Faults = TRUE
SYMMETRY Symm
INVARIANT Durable
