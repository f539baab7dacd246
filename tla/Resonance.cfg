\* Two requests at a time of one user, the service changing under them.
SPECIFICATION FairSpec
CONSTANTS
  NULL = NULL
  u1 = u1 r1 = r1 r2 = r2
  Requests = {r1, r2}
  Users = {u1}
  UserLimit = 2
  GlobalLimit = 2
  TestLimit = 1
  Window = 1
  ConfigThreshold = 2
  TransientThreshold = 3
  ConfigCooldown = 2
  TransientCooldown = 1
  MaxEdits = 1
INVARIANTS
  Inv
  UserShare
PROPERTIES
  EventuallyAvailable
