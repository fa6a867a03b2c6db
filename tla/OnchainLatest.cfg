SPECIFICATION Spec
CONSTANTS
  Clients = {c1}
  Jobs = {k1}
  MaxAttempts = 4
  FeeMode = "legacy"
  BumpMilli = 1125
  BaseFee = 4
  BasePriority = 0
  FetchPending = FALSE
  Retransmits = TRUE
  Threshold = 2
  Cooldown = 0
  CountCap = 2
INVARIANTS LandingsBoundedByRefreshes ResendOutbids
CHECK_DEADLOCK FALSE
