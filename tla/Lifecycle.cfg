SPECIFICATION LifecycleSpec
CONSTANTS
  None = None
  Specs <- LifecycleSpecs
  Supported <- Versions
  Unparsable <- NotVersions
  ExtValues = {}
  Operators = {"first", "second"}
  Bounds <- LifecycleBounds
INVARIANTS TypeOK FinalizerFirst
PROPERTIES SpecBelongsToUser StatusOfCurrentSpec ImplementsLifecycle
CHECK_DEADLOCK FALSE
