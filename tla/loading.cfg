SPECIFICATION Spec
CONSTANTS
  Places <- SomePlaces
  Sorted <- InOrder
  Matching <- TomlNames
  Starts <- SomeStarts
  News <- SomeNews
  NotToml <- NoTable
  PanicToml <- Panics
  Fields <- SomeFields
  Settings <- SomeSettings
  Urls <- SomeUrls
  Folded <- Folding
  Levels <- SomeLevels
  Euid = 7
  MaxChanges = 2
  MaxFaults = 1
INVARIANTS LoadsWhatIsThere TroubleHasACause FieldsFromTheirKeys
CHECK_DEADLOCK FALSE
