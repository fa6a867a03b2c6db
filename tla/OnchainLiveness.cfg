SPECIFICATION FairSpec
CONSTANTS
  Clients = {c1, c2}
  Jobs = {k1}
  MaxAttempts = 2
  FeeMode = "legacy"
  BumpMilli = 1125
  BaseFee = 4
  BasePriority = 0
  FetchPending = TRUE
  Retransmits = FALSE
  Threshold = 1
  Cooldown = 0
  CountCap = 1
PROPERTY RunsEnd
CHECK_DEADLOCK FALSE
