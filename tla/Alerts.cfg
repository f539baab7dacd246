\* Rules of all five kinds while subnets, conflicts and collectors change.
SPECIFICATION FairSpec
CONSTANTS
  NULL = NULL
  a1 = a1 c1 = c1
  RuleIds = {1}
  SubnetIds = {1, 2}
  IPs = {a1}
  Collectors = {c1}
  InitSubnets = {1}
  RuleInputs <- MCRules
  UtilInputs = {50, 90}
  FoundInputs <- MCFound
  MaxSame = 2
  MaxEdits = 4
INVARIANTS
  Inv
  BadIsShown
  ClearedIsResolved
PROPERTIES
  CooldownHeld
  EventuallyTold
