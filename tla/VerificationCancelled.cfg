SPECIFICATION Spec
CONSTANTS
  Commands = 1
  Criteria = {{1}}
  MaxAttempts = 1
  MaxTries = 1
  MaxCrashes = 0
  MaxFaults = 0
INVARIANTS
  CancelledWasAsked
CHECK_DEADLOCK FALSE
