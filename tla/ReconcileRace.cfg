\* One address, one subnet: users, pollers and the tick interleave freely.
SPECIFICATION Spec
CONSTANTS
  NULL = NULL
  a1 = a1 a2 = a2 m1 = m1 m2 = m2 h1 = h1 h2 = h2
  s1 = s1 s2 = s2 d1 = d1 v1 = v1
  IPs = {a1}
  Macs = {m1, m2}
  Names = {h1, h2}
  Collectors = {s1, d1, v1}
  SubnetIds = {1}
  Blocks <- MCBlocks1
  MaxCopies = 1
  Category <- MCCategory
  LeaseInputs <- OneLease
  DnsInputs <- Names1
  ArpInputs <- Sighting1
  RouteInputs <- None
  SubnetInputs <- NarrowOnly
  UserMacs <- MCUserMacs
  UserNames <- MCUserNames
  UserStatuses = {"reserved"}
  InitSubnets <- StartNarrow
  MaxEdits = 4
INVARIANTS
  Inv
  ViewIsCurrent
  HistoryExplainsRow
PROPERTIES
  ManualRowsKept
  OwnValuesKept
