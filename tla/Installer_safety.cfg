\* Three runs of any kind, two engines, two paths, two faults anywhere.
CONSTANTS
  docker = docker
  isula = isula
  home = home
  opt = opt
  Engines = {docker, isula}
  Reserving = {isula}
  Paths = {home, opt}
  Types <- MCTypes
  SoTypes = {"A500A2"}
  Versions = {1, 2}
  Pids = {1, 2}
  Requests <- MCRequests
  FirstDaemons <- MCFirst
  None = None
  Missing = Missing
  Torn = Torn
  Other = Other
  MaxRuns = 3
  MaxFaults = 2
SPECIFICATION Spec
CHECK_DEADLOCK FALSE
INVARIANTS
  TypeOK
  NamedIsThere
  SuccessIsTrue
  UserSettingsKept
  DefaultDefined
  ErrorHasCause
