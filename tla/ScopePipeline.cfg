SPECIFICATION FairSpec
CONSTANTS
  good = good
  fine = fine
  bad = bad
  Analysts = {a1}
  Entities = {good, fine, bad}
  Allowlist = {good, fine}
  Requests <- MCRequests
  MaxWait = 2
  PollInterval = 2
  MaxResults = 3
  Sizes = {1, 3}
  MaxRuns = 1
  Ingesters = {i1, i2}
  MaxIngests = 1
  MaxVersion = 2
INVARIANTS ResultsTrue LeftoversReported FreshUnlessRaced
PROPERTIES TimeoutsAreReal AnalysesEnd
CHECK_DEADLOCK FALSE
