\* One request and two background measurements of two ids over one permit, with
\* a cache of two, a memory of one, a parked file of one report, and restarts.
CONSTANTS
  Ids = {v1, v2}
  NoId = NoId
  Requests = {r1}
  Tasks = {t1, t2}
  ProbePermits = 1
  CropCacheMax = 2
  UnknownMax = 1
  UnknownTtl = 1
  FileMax = 1
  MaxEpoch = 1
  MaxNow = 1
SPECIFICATION FairSpec
INVARIANTS
  NoStaleYes
  OneMeasurement
PROPERTIES
  WholeFileStands
  MeasurementsEnd
