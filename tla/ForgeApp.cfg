SPECIFICATION FairSpec
CONSTANTS
  Handlers = {h1, h2}
  Ttl = 1
  Wrapped = TRUE
  Faulty = TRUE
  Deliveries = {d1}
  Secrets = {s1}
PROPERTIES OnlySignedIsStored CacheRecovers
