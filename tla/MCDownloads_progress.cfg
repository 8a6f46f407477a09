\* A viewer and two prewarms over one permit, under fair scheduling: no
\* symmetry, no view.
CONSTANTS
  BaseMs = 1
  CapMs = 2
  Jitters = {0}
  Vids = {v1, v2}
  NoVid = NoVid
  Requests = {r1}
  Prewarms = {p1, p2}
  InFlightMax = 2
  Concurrency = 1
  PrewarmMax = 1
  FailMax = 1
  LongTtl = 1
  ShortTtl = 1
  MaxGen = 2
  MaxNow = 1
SPECIFICATION FairSpec
INVARIANTS
  PrewarmLeavesRoom
PROPERTIES
  RetryIsFresh
  NoneWedged
