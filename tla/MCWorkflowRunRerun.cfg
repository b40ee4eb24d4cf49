SPECIFICATION InTurn
CONSTANTS
  N = 1
  Deps <- OneStep
  Barriers = {}
  Gate <- HardGate
  Conditional = {}
  OnFail <- Fails
  Retries <- Never
  Alternates <- Never
  c1 = c1
  c2 = c2
  Callers = {c1}
  Operations = {"start", "approve", "retry"}
  MaxCalls = 3
  MaxBoots = 0
INVARIANT RerunAsksAgain
CHECK_DEADLOCK FALSE
