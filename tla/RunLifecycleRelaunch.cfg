SPECIFICATION Spec
CONSTANTS
  Providers = {"docker"}
  AutomaticRetryMaxRetries = 2
  MaxAttempts = 1
  MaxCrashes = 1
  MaxFaults = 0
INVARIANTS
  RelaunchReconciles
CHECK_DEADLOCK FALSE
