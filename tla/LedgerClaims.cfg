\* Claims the code does not keep: uncomment one of the last lines at a time.
SPECIFICATION Spec
CONSTANTS
  Workers = {w1, w2}
  Keys = {k1, k2}
  Torn = Torn
  MaxTears = 1
  MaxReopens = 1
SYMMETRY LedgerSymmetry
INVARIANT RecordedKeysSurvive
\* INVARIANT NoDuplicateExecution
