SPECIFICATION Spec
CONSTANTS
  Processes = {p1, p2, p3}
  NoFile = NoFile
  Blank = Blank
  Stalls = FALSE
  MaxAttempts = 3
  MaxHolds = 2
SYMMETRY Symmetry
INVARIANT MutualExclusion
CHECK_DEADLOCK FALSE
