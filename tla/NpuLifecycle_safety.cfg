\* Two containers, two sessions each, two faults, three vNPU ids:
\* one destroy accepts, one it refuses, one the runtime refuses as well.
CONSTANTS
  c1 = c1
  c2 = c2
  Containers <- MCContainers
  PhysIds <- MCPhysIds
  VIds = {100, 70000, 100000}
  ChipOf <- MCChipOf
  Requests <- AllRequests
  IdMax = 65535
  VdevMax = 99999
  Free = Free
  Admin = Admin
  Orphan = Orphan
  NoChip = NoChip
  Empty = Empty
  MaxRounds = 2
  MaxFaults = 2
SPECIFICATION Spec
SYMMETRY MCSymmetry
INVARIANTS
  TypeOK
  HooksNameOwn
  SplitIsolated
  NoSilentLeak
  HookIffDevices
PROPERTY ImplementsPool
CHECK_DEADLOCK FALSE
