\* Claims the code does not keep: uncomment one of the last lines at a time.
SPECIFICATION Spec
CONSTANTS
  Ledgers = {l1, l2}
  Events = {e1, e2}
  Forged = Forged
  Torn = Torn
  MaxAppends = 3
  MaxFaults = 1
SYMMETRY AuditSymmetry
INVARIANT NoFalseAlarm
CHECK_DEADLOCK FALSE
\* INVARIANT VerifyReports
