SPECIFICATION LoneSpec
CONSTANTS
  Processes = {p1, p2, p3}
  NoFile = NoFile
  Blank = Blank
  Stalls = FALSE
  MaxAttempts = 3
  MaxHolds = 2
SYMMETRY Symmetry
INVARIANT TypeOK
INVARIANT MutualExclusion
INVARIANT HolderNamed
PROPERTY NobodyRefusedAlone
PROPERTY OwnedByOne
CHECK_DEADLOCK FALSE
