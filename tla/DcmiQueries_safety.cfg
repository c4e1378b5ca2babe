\* Thirteen hosts, healthy and odd, with calls that fail.
CONSTANTS
  Hosts <- MCHosts
  Asks <- MCAsks
  MaxCards = 3
  MaxDevices = 2
  MaxLogic = 4
  IdMax = 65535
  RuntimeLimit = 100
  DestroyLimit = 10
  NotFound <- MCNotFound
  None = None
  MaxFaults = 3
SPECIFICATION FairSpec
INVARIANTS
  TypeOK
  VNpuOnAskedChip
  ManagerDevicesRight
  ErrorHasCause
  DestroyedOrCause
PROPERTY SessionEnds
CHECK_DEADLOCK FALSE
