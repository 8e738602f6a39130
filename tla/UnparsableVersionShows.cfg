SPECIFICATION FindingSpec
CONSTANTS
  None = None
  Specs <- FindingSpecs
  Supported <- Versions
  Unparsable <- NotVersions
  ExtValues = {}
  Operators = {"first"}
  Bounds <- OneEditBounds
PROPERTY UnparsableVersionShows
CHECK_DEADLOCK FALSE
