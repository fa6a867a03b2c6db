SPECIFICATION FairSpec
CONSTANTS
  Clients = {c1, c2}
  MaxAttempts = 5
  Durations = {1, 2, 7, 10}
  PerMilli = 2
  Bits = 2
INVARIANTS EffectMatchesOutcome BackoffIsCappedExponential
PROPERTY CallsEnd
CHECK_DEADLOCK FALSE
