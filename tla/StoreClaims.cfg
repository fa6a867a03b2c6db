\* Claims the code does not keep: uncomment one of the last lines at a time.
SPECIFICATION Spec
CONSTANTS
  MaxMisreads = 1
  Workers = {w1, w2}
  Keys = {k1}
INVARIANT ReplayedWasCompleted
\* INVARIANT NeverTwice
