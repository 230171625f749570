SPECIFICATION Spec
CONSTANTS
  NumKeys = 2
  Values = {v1, bad}
  Accepted = {v1}
  Modes = {"rw-r--r--", "rw-------"}
  DefaultMode = "rw-r--r--"
  TempMode = "rw-------"
  Owners = {"confd", "other"}
  Euid = "confd"
  NoFile = NoFile
  Unset = Unset
  BadMode = BadMode
  Configs <- RenameConfigs
  MaxChanges = 2
  MaxFaults = 1
  MaxCrashes = 1
INVARIANTS TypeOK FreshWhenOk RenameInSync ServiceRunsDestIfNoFault NoLitter
PROPERTIES VettedReplace KeepsPromise Converges Settles
CHECK_DEADLOCK FALSE
