SPECIFICATION GuardSpec
CONSTANTS
  Guard = "checkProxyRequest"
  Inline = TRUE
  KeyFor = TRUE
  Clients = {c1, c2}
  Elsewhere = {x1, x2}
  MaxElsewhere = 1
  Proxies = 2
  TrustedProxyCount = 2
  Limit = 2
  Window = 3
SYMMETRY GuardSymmetry
INVARIANTS WindowBounded RetryAfterHonest
