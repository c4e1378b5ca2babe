\* The same in sessions that use a vNPU, without symmetry, for liveness.
CONSTANTS
  c1 = c1
  c2 = c2
  Containers <- MCContainers
  PhysIds <- MCPhysIds
  VIds = {100, 101}
  ChipOf <- MCChipOf
  Requests <- LiveRequests
  IdMax = 65535
  VdevMax = 99999
  Free = Free
  Admin = Admin
  Orphan = Orphan
  NoChip = NoChip
  Empty = Empty
  MaxRounds = 2
  MaxFaults = 1
SPECIFICATION FairSpec
CHECK_DEADLOCK FALSE
PROPERTY EveryVNpuReturned
