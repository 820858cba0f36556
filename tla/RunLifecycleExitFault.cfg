SPECIFICATION FairSpec
CONSTANTS
  Providers = {"docker"}
  AutomaticRetryMaxRetries = 2
  MaxAttempts = 1
  MaxCrashes = 0
  MaxFaults = 1
PROPERTIES
  NeverIndefinitelyRunning
CHECK_DEADLOCK FALSE
