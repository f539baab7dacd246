\* Two clients of the planner, nested subnets, users and ticks in between.
SPECIFICATION Spec
CONSTANTS
  NULL = NULL
  Requests = {q1, q2}
  Width = 3
  SubnetIds = {1, 2, 3}
  PerSubnet = 1
  Total = 2
  MaxScan = 1
  MaxFallback = 4
  MaxReservation = 4
  InitNetworks <- Nested
  NetworkInputs <- Added
  HostInputs <- Asks
  RangeInputs <- Ranges
  Sighted = {5}
  MaxEdits = 3
SYMMETRY Everyone
INVARIANT Inv
PROPERTY ReservationsStand
