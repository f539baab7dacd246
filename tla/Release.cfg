\* An update, offered to the loop and to an administrator, kills and failures anywhere.
SPECIFICATION FairSpec
CONSTANTS
  NULL = NULL
  InitStored <- EarlyRows
  Releases = {1, 2}
  Scripts <- Migrations
  Appliers = {"loop", "request"}
  Packed <- NoDocs
  Day = 6
  CheckEvery = 2
  Windows <- Nightly
  MaxMishaps = 3
INVARIANT Inv
PROPERTY EventuallyUpdated
