\* The ring and the forwarder through kills, restarts, full queues and clears.
SPECIFICATION LogSpec
CONSTANTS
  NULL = NULL
  MaxRows = 3
  MaxQueue = 1
  MaxRecords = 5
  MaxLogMishaps = 2
INVARIANTS
  LogInv
