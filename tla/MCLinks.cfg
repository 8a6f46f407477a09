\* Redeploys of every kind between the steps of a link's life.
CONSTANTS
  Installs = {i1}
  NoInstall = NoInstall
  GraceSpan = 1
  MediaTtl = 1
  MaxSecret = 2
  MaxKey = 2
  MaxEpoch = 1
  MaxNow = 2
SPECIFICATION Spec
VIEW View
INVARIANTS
  NothingOutstays
  RotationHolds
CHECK_DEADLOCK FALSE
