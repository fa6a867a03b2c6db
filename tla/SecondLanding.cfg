SPECIFICATION Spec
CONSTANTS
  Clients = {c1}
  Jobs = {k1}
  MaxAttempts = 3
  FeeMode = "legacy"
  BumpMilli = 1125
  BaseFee = 4
  BasePriority = 0
  FetchPending = TRUE
  Retransmits = FALSE
  Threshold = 2
  Cooldown = 1
  CountCap = 2
INVARIANT NeverLandsTwice
CHECK_DEADLOCK FALSE
