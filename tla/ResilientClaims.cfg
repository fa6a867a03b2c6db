\* Claims the code does not keep: uncomment one of the last lines at a time.
SPECIFICATION Spec
CONSTANTS
  FailureThreshold = 2
  Cooldown = 1
  HalfOpenMaxCalls = 1
  CountCap = 3
  Resettable = FALSE
  Callers = {c1, c2, c3}
  AsyncCallers = {c1, c2, c3}
  MaxAttempts = 2
SYMMETRY CallerSymmetry
PROPERTY OnlyDocumentedTransitions
\* INVARIANT ConcurrentTrialsBounded
\* INVARIANT ExhaustionIsReported
