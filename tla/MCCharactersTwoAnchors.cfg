SPECIFICATION OneByOneSpec
CONSTANTS
  Callers = {c1}
  Operations = {"describe", "add", "generate"}
  MaxRefs = 2
  MaxCalls = 3
  MaxCrashes = 0
INVARIANT OneAnchor
CHECK_DEADLOCK FALSE
