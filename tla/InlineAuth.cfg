SPECIFICATION GuardSpec
CONSTANTS
  Guard = "requireAuth"
  Inline = TRUE
  KeyFor = TRUE
  Clients = {c1}
  Elsewhere = {x1}
  MaxElsewhere = 0
  Proxies = 1
  TrustedProxyCount = 1
  Limit = 2
  Window = 3
INVARIANT WindowBounded
