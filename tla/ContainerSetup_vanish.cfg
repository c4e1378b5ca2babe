\* One path vanishes and comes back.
CONSTANTS
  p1 = p1
  p2 = p2
  p3 = p3
  Paths <- MCPaths
  WhiteList <- MCWhiteList
  ListOf <- MCListOf
  Requests <- OneRequest
  Hosts <- MCHosts
  Images <- MCImages
  MaxEntries = 2
  MaxMounts = 3
  MaxArgc = 15
  MaxChanges = 2
SPECIFICATION Spec
CHECK_DEADLOCK FALSE
INVARIANT MissingSourceRefused
