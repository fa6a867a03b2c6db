SPECIFICATION Spec
CONSTANTS
  Ledgers = {l1, l2}
  Events = {e1, e2}
  Forged = Forged
  Torn = Torn
  MaxAppends = 2
  MaxFaults = 2
SYMMETRY AuditSymmetry
INVARIANTS AcceptedWasAppended AppendsKept AlarmsExplained
CHECK_DEADLOCK FALSE
