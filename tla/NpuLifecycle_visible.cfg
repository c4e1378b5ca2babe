\* One container that asks for a split: what the unit test expects of it.
CONSTANTS
  c1 = c1
  c2 = c2
  Containers <- MCContainers
  PhysIds <- MCPhysIds
  VIds = {100, 70000, 100000}
  ChipOf <- MCChipOf
  Requests <- SplitRequests
  IdMax = 65535
  VdevMax = 99999
  Free = Free
  Admin = Admin
  Orphan = Orphan
  NoChip = NoChip
  Empty = Empty
  MaxRounds = 2
  MaxFaults = 0
SPECIFICATION Spec
CHECK_DEADLOCK FALSE
INVARIANT VisibleNamesVNpu
