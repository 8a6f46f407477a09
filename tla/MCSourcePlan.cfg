\* One ask at a time over everything that can happen to the caches meanwhile.
CONSTANTS
  Requests = {r1}
  Lives = {3}
  FailTtl = 1
  Margin = 1
  MediaTtl = 1
  UnresolvedAge = 1
  MaxGen = 2
  MaxNow = 3
SPECIFICATION PlanFairSpec
INVARIANTS
  LeadsBuilt
  CachedStillPlays
  FramesFit
PROPERTIES
  AsksAnswered
