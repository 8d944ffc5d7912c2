SPECIFICATION FairSpec
CONSTANTS
  Attempts = {a1, a2}
  Requests = {r1}
  Null = Null
  PoolSize = 2
  WarmCount = 1
  Duration = 1
  MaxTime = 0
  MaxExtensions = 0
  MaxPodLosses = 1
  Events = {"submit", "force", "register"}
PROPERTIES WaitersAreSeated
CHECK_DEADLOCK FALSE
