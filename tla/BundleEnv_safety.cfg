\* Environments of every shape, two sessions on one bundle or two.
CONSTANTS
  Envs <- AllEnvs
  Texts <- MCTexts
  Templates = {"vir02"}
  VirtualWords = {"VIRTUAL"}
  HostType = "910"
  MaxDevice = 2
  InPlace = 3
  MaxOptions = 15
  MaxLines = 5
  c = c
  PhysIds <- MCPhysIds
  VIds = {100, 101}
  ChipOf <- MCChipOf
  IdMax = 200
  VdevMax = 200
  Free = Free
  Admin = Admin
  Orphan = Orphan
  NoChip = NoChip
  Empty = Empty
  MaxRounds = 2
  MaxFaults = 2
SPECIFICATION Spec
INVARIANTS
  TypeOK
  SplitSeesOnlyVNpu
  DevicesAsAsked
  HookFollows
  LibraryPathKept
PROPERTY ImplementsLifecycle
CHECK_DEADLOCK FALSE
