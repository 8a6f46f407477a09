\* One client and three builds over a cache of one layout, a stream that is
\* signed anew and replaced under its id, and restarts.
CONSTANTS
  v1 = v1
  a1 = a1
  Videos <- OneVideo
  Audible <- Sound
  Urls <- SomeUrls
  Clients = {c1}
  IndexMax = 1
  BuildMax = 2
  MaxJobs = 3
  MaxNow = 1
SPECIFICATION FairSpec
INVARIANTS
  IndexFitsUrl
  PermitsFollowBuilds
  FailureIsNotKept
PROPERTIES
  BuildsEnd
