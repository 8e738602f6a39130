SPECIFICATION RolloutSpec
CONSTANTS
  None = None
  Specs <- RolloutSpecs
  Supported <- Versions
  Unparsable <- NotVersions
  ExtValues = {"x1"}
  Operators = {"first"}
  Bounds <- RolloutBounds
INVARIANTS PodRunsAnnotatedConfig ReadySumsUp
PROPERTIES StaysDone Converges UnsupportedNotReady
