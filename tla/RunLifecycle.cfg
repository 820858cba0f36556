SPECIFICATION Spec
CONSTANTS
  Providers = {"docker", "trusted_host"}
  AutomaticRetryMaxRetries = 1
  MaxAttempts = 3
  MaxCrashes = 1
  MaxFaults = 2
INVARIANTS
  TypeOK
  LiveProcessIsOwned
  StoppedMeansDrained
  ReviewIsBacked
  AutoOnlyAfterRetryableFailure
  AutoBudget
  RefusedIsExplained
PROPERTIES
  AttemptsFollowTable
  StartupSettles
  ImplementsRunMachine
  ImplementsSupervisedProcess
CHECK_DEADLOCK FALSE
