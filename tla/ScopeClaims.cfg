\* Claims the code does not keep: uncomment one of the last lines at a time.
SPECIFICATION Spec
CONSTANTS
  good = good
  fine = fine
  bad = bad
  Analysts = {a1}
  Entities = {good, fine, bad}
  Allowlist = {good, fine}
  Requests <- MCRequests
  MaxWait = 2
  PollInterval = 2
  MaxResults = 3
  Sizes = {1, 3}
  MaxRuns = 1
  Ingesters = {i1, i2}
  MaxIngests = 1
  MaxVersion = 2
CHECK_DEADLOCK FALSE
INVARIANT AllRowsReturned
\* PROPERTY StoredNewest
