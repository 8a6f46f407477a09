\* Two responses over one permit.  The system may stop: each response is
\* seen once, and when both are over and the clock is at its bound nothing is left.
CONSTANTS
  Responses = {r1, r2}
  Limit = 1
  Idle = 1
  Lifetime = 2
  MaxFrames = 2
  MaxNow = 3
SPECIFICATION FairSpec
INVARIANTS
  BodiesBounded
  CleanEndIsWhole
  CountedOnce
PROPERTIES
  PermitsReturn
CHECK_DEADLOCK FALSE
