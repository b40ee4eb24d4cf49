SPECIFICATION FairSpec
CONSTANTS
  Jobs = {1, 2}
  Workers = {w1}
  Callers = {c1}
  Boot = Boot
  None = None
  Operations = {"create", "retry", "cancel", "check"}
  Duplicates = {FALSE}
  Faults = {"output", "sharedStaging"}
  MaxCalls = 2
  MaxBoots = 2
  MaxUnreachable = 1
INVARIANT NoOrphan
PROPERTY AcceptedJobSettles
CHECK_DEADLOCK FALSE
