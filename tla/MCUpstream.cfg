\* Two lookups in flight over two hosts, with pauses shorter than, as long as and longer than a request may take.
CONSTANTS
  BaseMs = 3
  CapMs = 4
  Jitters = {0}
  Lookups = {l1, l2}
  Timeout = 2
  Hints = {1, 2, 4}
  MaxFails = 2
  MaxNow = 6
SPECIFICATION UpstreamSpec
SYMMETRY Symmetry
PROPERTIES
  StragglersAreOneEpisode
