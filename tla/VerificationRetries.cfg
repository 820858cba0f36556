SPECIFICATION FairSpec
CONSTANTS
  Commands = 1
  Criteria = {{1}}
  MaxAttempts = 2
  MaxTries = 2
  MaxCrashes = 0
  MaxFaults = 1
INVARIANTS
  OneVerifierPerRun
PROPERTIES
  ImplementsVerdictOnce
  VerificationSettles
CHECK_DEADLOCK FALSE
