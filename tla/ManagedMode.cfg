\* Visits, polls, proxied requests and lock commands interleave.
SPECIFICATION LockFairSpec
CONSTANTS
  NULL = NULL
  Visitors = {v1}
  MaxAge = 2
  Slow = 1
  MaxEdits = 3
INVARIANT LockInv
PROPERTIES
  ReleaseNeedsSilence
  HubLearns
  EventuallyServed
