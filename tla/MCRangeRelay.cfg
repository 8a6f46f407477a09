\* Every range of three small files, upstream cut into chunks of one to
\* three bytes, a channel of two.
CONSTANTS
  Sources = {"video", "audio"}
  Layouts <- MCLayouts
  Ranges <- MCRanges
  Span = 5
  Capacity = 2
  MaxChunk = 3
SPECIFICATION FairSpec
INVARIANTS
  ServedIsTheFile
  CleanEndIsWhole
PROPERTIES
  ProducerEnds
CHECK_DEADLOCK FALSE
