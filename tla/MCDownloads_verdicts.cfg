\* More ids than the failure memory, and than the downloads in flight, hold:
\* a viewer who asks, leaves and asks again, a clock that lets verdicts and
\* pauses lapse.
CONSTANTS
  BaseMs = 1
  CapMs = 2
  Jitters = {0}
  Vids = {v1, v2, v3}
  NoVid = NoVid
  Requests = {r1}
  Prewarms = {}
  InFlightMax = 2
  Concurrency = 1
  PrewarmMax = 1
  FailMax = 2
  LongTtl = 2
  ShortTtl = 1
  MaxGen = 4
  MaxNow = 1
SPECIFICATION Spec
SYMMETRY Symmetry
VIEW View
INVARIANTS
  ServedIsWhole
PROPERTIES
  OneDownloadPerId
  VerdictStands
  PauseIsOneEpisode
