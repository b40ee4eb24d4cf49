SPECIFICATION MCSpec
CONSTANTS
  N = 2
  Deps <- Graph
  Barriers = {1}
  Gate <- Approvals
  Conditional = {2}
  OnFail <- Policies
  Retries <- Once
  Alternates <- Once
  c1 = c1
  c2 = c2
  Callers = {c1, c2}
  Operations = {"start", "approve", "deny", "cancel", "retry"}
  MaxCalls = 3
  MaxBoots = 1
INVARIANT TypeOK
INVARIANT NoForgottenRun
INVARIANT PaidOnlyWhenAsked
INVARIANT GateBeforeWork
PROPERTY RunRests
CHECK_DEADLOCK FALSE
