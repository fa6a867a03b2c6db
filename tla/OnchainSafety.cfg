SPECIFICATION Spec
CONSTANTS
  Clients = {c1, c2}
  Jobs = {k1, k2}
  MaxAttempts = 2
  FeeMode = "eip1559"
  BumpMilli = 1125
  BaseFee = 4
  BasePriority = 1
  FetchPending = TRUE
  Retransmits = TRUE
  Threshold = 2
  Cooldown = 1
  CountCap = 2
SYMMETRY ClientSymmetry
INVARIANTS LandingsBoundedByRefreshes ResendOutbids SuccessLanded
  DuplicatesExplained
CHECK_DEADLOCK FALSE
