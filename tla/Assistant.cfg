\* Two people ask while their roles, settings and the listed rows change.
SPECIFICATION Spec
CONSTANTS
  NULL = NULL
  Users = {"root", "ann"}
  Askers = {"root", "ann"}
  InitRoles <- Staff
  RoleInputs = {"analyst"}
  Settings <- Changes
  Events = {1}
  RowIds = {11, 12, 13}
  InitRows <- TwoRows
  Listings = {"listSubnets", "searchIpAddresses", "listVlans", "searchApplicationLog"}
  PageSize = 2
  MaxEdits = 4
INVARIANT Inv
PROPERTIES
  ChangesArePermitted
  AckKept
