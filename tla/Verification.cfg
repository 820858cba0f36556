SPECIFICATION Spec
CONSTANTS
  Commands = 2
  Criteria = {{1, 2}, {2}}
  MaxAttempts = 1
  MaxTries = 2
  MaxCrashes = 1
  MaxFaults = 2
INVARIANTS
  TypeOK
  RecordsAgree
  VerdictIsEarned
  VerdictMatchesEvidence
  TerminalIsClean
  ReviewIsVerified
  StartupAccepts
  WaitingCanBeVerified
CHECK_DEADLOCK FALSE
