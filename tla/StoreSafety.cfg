SPECIFICATION FairSpec
CONSTANTS
  MaxMisreads = 2
  Workers = {w1, w2}
  Keys = {k1, k2}
INVARIANTS AtMostOnce ReplayExplained ClaimsPersisted FileUsable
PROPERTIES KeepsContract RequestsEnd
