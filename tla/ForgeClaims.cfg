\* Claims the code does not keep: uncomment one of the last lines at a time;
\* NeverRejects is about Wrapped = FALSE.
SPECIFICATION Spec
CONSTANTS
  Handlers = {h1}
  Ttl = 2
  Wrapped = TRUE
  Faulty = FALSE
  Deliveries = {}
  Secrets = {}
PROPERTY CachedWithinTtl
\* INVARIANT NeverRejects
