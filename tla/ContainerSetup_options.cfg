\* The options the hook accepts.
CONSTANTS
  p1 = p1
  p2 = p2
  p3 = p3
  Paths <- MCPaths
  WhiteList <- MCWhiteList
  ListOf <- MCListOf
  Requests <- MCRequests
  Hosts <- MCHosts
  Images <- MCImages
  MaxEntries = 2
  MaxMounts = 3
  MaxArgc = 15
  MaxChanges = 0
SPECIFICATION Spec
CHECK_DEADLOCK FALSE
INVARIANT OptionsUnderstood
