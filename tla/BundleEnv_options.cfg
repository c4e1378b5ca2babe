\* Options that are set to nothing.
CONSTANTS
  Envs <- EmptyOptions
  Texts <- MCTexts
  Templates = {"vir02"}
  VirtualWords = {"VIRTUAL"}
  HostType = "910"
  MaxDevice = 2
  InPlace = 3
  MaxOptions = 15
  MaxLines = 5
  c = c
  PhysIds <- MCPhysIds
  VIds = {100, 101}
  ChipOf <- MCChipOf
  IdMax = 200
  VdevMax = 200
  Free = Free
  Admin = Admin
  Orphan = Orphan
  NoChip = NoChip
  Empty = Empty
  MaxRounds = 1
  MaxFaults = 2
SPECIFICATION Spec
INVARIANT EmptyOptionsAccepted
CHECK_DEADLOCK FALSE
