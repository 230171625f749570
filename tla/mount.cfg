SPECIFICATION Spec
CONSTANTS
  NumKeys = 2
  Values = {v1, bad}
  Accepted = {v1}
  Modes = {"rw-r--r--", "rw-------"}
  DefaultMode = "rw-r--r--"
  TempMode = "rw-------"
  Owners = {"confd", "other"}
  Euid = "confd"
  NoFile = NoFile
  Unset = Unset
  BadMode = BadMode
  Configs <- MountConfigs
  MaxChanges = 1
  MaxFaults = 1
  MaxCrashes = 1
INVARIANT ServiceRunsDestIfNoFault
PROPERTY Recovers
CHECK_DEADLOCK FALSE
