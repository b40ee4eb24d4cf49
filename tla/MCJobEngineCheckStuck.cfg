SPECIFICATION Spec
CONSTANTS
  Jobs = {1}
  Workers = {w1}
  Callers = {c1}
  Boot = Boot
  None = None
  Operations = {"create", "check"}
  Duplicates = {TRUE, FALSE}
  Faults = {"staging"}
  MaxCalls = 2
  MaxBoots = 1
  MaxUnreachable = 1
INVARIANT NoOrphan
CHECK_DEADLOCK FALSE
