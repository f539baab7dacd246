\* A network of two servers, names, routes and subnets that are nested, resized and deleted.
SPECIFICATION FairSpec
CONSTANTS
  NULL = NULL
  a1 = a1 a2 = a2 m1 = m1 m2 = m2 h1 = h1 h2 = h2
  s1 = s1 s2 = s2 d1 = d1 v1 = v1
  IPs = {a1, a2}
  Macs = {m1, m2}
  Names = {h2}
  Collectors = {s1, s2, d1, v1}
  SubnetIds = {1, 2}
  Blocks <- MCBlocks
  MaxCopies = 2
  Category <- MCCategory
  LeaseInputs <- Trio
  DnsInputs <- Names1
  ArpInputs <- None
  RouteInputs <- Route1
  SubnetInputs <- Both
  UserMacs <- None
  UserNames <- NoName
  UserStatuses = {}
  InitSubnets <- StartGate
  MaxEdits = 3
INVARIANTS
  StillTrueIsOpen
  NetworkIsFlagged
  OneHome
  RollupCounts
PROPERTIES
  ResolutionStands
  EventuallyCurrent
