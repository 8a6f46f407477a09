\* Two ids, two permits, a cap of two blocks, and two processes one after the
\* other: a tick is longer than any download and longer than the grace.
CONSTANTS
  Vids = {v1, v2}
  Cap = 2
  Ttl = 1
  Grace = 0
  Life = 0
  Concurrency = 2
  MaxGen = 2
  MaxBoot = 2
SPECIFICATION VolumeFairSpec
INVARIANTS
  OneWriterPerTemp
PROPERTIES
  WritersUndisturbed
  Reclaimed
