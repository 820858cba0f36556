SPECIFICATION FairSpec
CONSTANTS
  Providers = {"docker"}
  AutomaticRetryMaxRetries = 2
  MaxAttempts = 3
  MaxCrashes = 1
  MaxFaults = 0
PROPERTIES
  RunSettles
  RetryIsDispatched
CHECK_DEADLOCK FALSE
