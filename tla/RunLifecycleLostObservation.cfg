SPECIFICATION Spec
CONSTANTS
  Providers = {"docker"}
  AutomaticRetryMaxRetries = 2
  MaxAttempts = 1
  MaxCrashes = 0
  MaxFaults = 1
PROPERTIES
  LostObservationTriggersRecovery
CHECK_DEADLOCK FALSE
