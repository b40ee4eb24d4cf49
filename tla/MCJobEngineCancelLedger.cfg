SPECIFICATION Spec
CONSTANTS
  Jobs = {1}
  Workers = {w1}
  Callers = {c1}
  Boot = Boot
  None = None
  Operations = {"create", "cancel"}
  Duplicates = {FALSE}
  Faults = {}
  MaxCalls = 2
  MaxBoots = 1
  MaxUnreachable = 0
INVARIANT CompletedIsCharged
CHECK_DEADLOCK FALSE
