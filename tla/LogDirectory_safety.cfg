\* Two walks, three changes; the directory may hold one name more than the
\* walk allows, and the first backup is a link.
CONSTANTS
  w1 = w1
  w2 = w2
  Walkers = {w1, w2}
  Backups <- MCBackups
  Strangers <- MCStrangers
  Linked = {1}
  Keep = 3
  MaxFileNum = 5
  MaxChanges = 3
SPECIFICATION FairSpec
INVARIANTS
  TypeOK
  FailureHasCause
  DoneReadOnly
PROPERTY WalksEnd
CHECK_DEADLOCK FALSE
