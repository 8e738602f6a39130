SPECIFICATION Spec
CONSTANTS
  NoURL = NoURL
  Specs <- SomeSpecs
  Published <- SomePackages
  Edits = 1
  Faults = 2
INVARIANTS ConnectorsInstalled ProcessorsInstalled OnlyFaultsFail
PROPERTY ServerStarts
CHECK_DEADLOCK FALSE
