SPECIFICATION MCSpec
CONSTANTS
  Jobs = {1}
  Workers = {w1, w2}
  Callers = {c1, c2}
  Boot = Boot
  None = None
  Operations = {"create", "retry", "cancel", "check"}
  Duplicates = {TRUE, FALSE}
  Faults = {"output", "sharedStaging"}
  MaxCalls = 4
  MaxBoots = 3
  MaxUnreachable = 1
SYMMETRY Symmetry
INVARIANT TypeOK
INVARIANT NoOrphan
INVARIANT SettledHasLedger
INVARIANT CompletedHasAsset
INVARIANT ChargedForWork
INVARIANT SubmissionsAreConfirmed
INVARIANT RowUnlessMet
INVARIANT ChargeUnlessMet
INVARIANT OutputUnlessMet
PROPERTY HandleUnlessMet
CHECK_DEADLOCK FALSE
