SPECIFICATION MCSpec
CONSTANTS
  Callers = {c1, c2}
  Operations = {"describe", "add", "remove", "switch", "consent", "generate", "train"}
  MaxRefs = 2
  MaxCalls = 4
  MaxCrashes = 1
SYMMETRY Symmetry
INVARIANT TypeOK
INVARIANT LookIsKept
INVARIANT AnchorsReplaced
INVARIANT EditsAccepted
INVARIANT IdentityHasFile
INVARIANT OneIdentity
INVARIANT TrainsOnlyWilling
PROPERTY EditShows
CHECK_DEADLOCK FALSE
