SPECIFICATION FindingSpec
CONSTANTS
  None = None
  Specs <- FindingSpecs
  Supported <- Versions
  Unparsable <- NotVersions
  ExtValues = {}
  Operators = {"first"}
  Bounds <- OneEditBounds
PROPERTY RegistryReachesPod
CHECK_DEADLOCK FALSE
