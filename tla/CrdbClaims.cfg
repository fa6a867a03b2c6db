SPECIFICATION CrdbSpec
CONSTANTS
  Clients = {c1}
  MaxAttempts = 5
  Durations = {1, 10}
  PerMilli = 2
  Bits = 3
INVARIANT BackoffGrows
CHECK_DEADLOCK FALSE
