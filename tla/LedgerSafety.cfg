SPECIFICATION Spec
CONSTANTS
  Workers = {w1, w2}
  Keys = {k1, k2, k3}
  Torn = Torn
  MaxTears = 2
  MaxReopens = 2
SYMMETRY LedgerSymmetry
INVARIANTS LossBoundedByTears MirrorFromFile
