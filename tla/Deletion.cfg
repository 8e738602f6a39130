SPECIFICATION DeletionSpec
CONSTANTS
  None = None
  Specs <- DeletionSpecs
  Supported <- Versions
  Unparsable <- NotVersions
  ExtValues = {}
  Operators = {"first", "second"}
  Bounds <- DeletionBounds
PROPERTIES NoLostUpdate DeletionCompletes NothingLeftBehind
CHECK_DEADLOCK FALSE
