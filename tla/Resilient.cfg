SPECIFICATION FairSpec
CONSTANTS
  FailureThreshold = 2
  Cooldown = 2
  HalfOpenMaxCalls = 2
  CountCap = 3
  Resettable = TRUE
  Callers = {c1, c2, c3}
  AsyncCallers = {c1, c2}
  MaxAttempts = 2
INVARIANTS Coherent SlotsAreHeld QuietBeforeTrial
PROPERTIES MeetsContract AsyncCallsEnd TrialResolves Recovers
