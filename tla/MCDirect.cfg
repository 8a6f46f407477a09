\* Two clients and two resolves of two keys over two permits and one worker, a
\* cache of one answer, restarts in between, and fair scheduling.
CONSTANTS
  BaseMs = 1
  CapMs = 2
  Jitters = {0}
  Keys = {k1, k2}
  NoKey = NoKey
  Clients = {c1, c2}
  ProbePermits = 2
  CacheMax = 1
  Lives = {2}
  UnknownLife = 1
  Margin = 1
  LongTtl = 2
  ShortTtl = 1
  MaxJobs = 2
  MaxNow = 1
SPECIFICATION FairSpec
INVARIANTS
  AnswersPaired
  MemoryServesGood
PROPERTIES
  OneResolvePerKey
  PlayableIsKept
  ClientsAnswered
