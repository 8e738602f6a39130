SPECIFICATION Spec
CONSTANTS
  Types = {"ConfigReady", "SecretReady", "VolumeBound", "DeploymentRunning", "ServiceReady"}
  Causes = {"a"}
  MaxCalls = 5
INVARIANT Canonical
PROPERTIES TimeOfTransition ImplementsConditions
CHECK_DEADLOCK FALSE
