\* Two lookups race over three titles, one of them without a TMDB key, and a
\* cache of two entries, across parks, crashes and boots.
CONSTANTS
  Keys = {k1, k2, k3}
  Keyless = {k3}
  NoKey = NoKey
  Ids = {y}
  Requests = {r1, r2}
  CacheMax = 2
  Ttl = 2
  NegTtl = 2
  FailTtl = 1
  Grace = 1
  MaxNow = 4
SPECIFICATION Spec
SYMMETRY Symmetry
VIEW View
INVARIANTS
  NothingOutlivesItsWorth
  HitIsHonest
PROPERTIES
  FailureNeverWorsens
