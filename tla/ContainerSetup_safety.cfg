\* Two paths that may become of every kind and one the cli does not know, two
\* changes of the host or failures that nobody notices; some requests are over
\* MAX_MOUNT_NR, MAX_ARGC or the entries of a list.
CONSTANTS
  p1 = p1
  p2 = p2
  p3 = p3
  Paths <- MCPaths
  WhiteList <- MCWhiteList
  ListOf <- MCListOf
  Requests <- MCRequests
  Hosts <- MCHosts
  Images <- MCImages
  MaxEntries = 2
  MaxMounts = 3
  MaxArgc = 15
  MaxChanges = 2
SPECIFICATION FairSpec
CHECK_DEADLOCK FALSE
INVARIANTS
  TypeOK
  StartedReadOnly
  StartedComplete
  MountsJustified
  StableVetted
PROPERTY SetupEnds
