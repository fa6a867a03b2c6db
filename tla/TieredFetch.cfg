SPECIFICATION FairSpec
CONSTANTS
  Calls = {c1, c2}
  Deaf = {c2}
  MaxAttempts = 2
  Mocked = {c1}
  MaxAge = 0
  MaxAgeHard = 1
INVARIANTS ListenersMatchAttempts TrailIsComplete
PROPERTIES GivesUpWhenSpent AbortIsFinal Resolves
CHECK_DEADLOCK FALSE
