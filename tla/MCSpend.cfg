SPECIFICATION Spec
CONSTANTS
  j1 = j1
  c1 = c1
  c2 = c2
  Jobs = {j1}
  Calls = {c1, c2}
  Kinds <- CallKinds
  Estimate <- Prices
  Quote <- Quotes
  Caps <- Limits
  DaysPerMonth = 2
  MaxDay = 1
  MaxAsks = 1
  MaxCrashes = 1
INVARIANT TypeOK
INVARIANT CapsHold
INVARIANT BilledIsCounted
INVARIANT NoForgottenHold
CHECK_DEADLOCK FALSE
