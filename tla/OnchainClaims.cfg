\* Claims the code does not keep: uncomment one of the last lines at a time.
SPECIFICATION Spec
CONSTANTS
  Clients = {c1, c2, c3}
  Jobs = {k1}
  MaxAttempts = 2
  FeeMode = "legacy"
  BumpMilli = 1125
  BaseFee = 4
  BasePriority = 0
  FetchPending = TRUE
  Retransmits = FALSE
  Threshold = 1
  Cooldown = 1
  CountCap = 2
SYMMETRY ClientSymmetry
CHECK_DEADLOCK FALSE
PROPERTY NoSubmissionWhileOpen
\* INVARIANT OneTrial
\* INVARIANT OneRunBroadcasts
