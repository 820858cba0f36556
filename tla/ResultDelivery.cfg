SPECIFICATION Spec
CONSTANTS
  Modes = {"legacy", "patch", "branch"}
  RepoCount = 2
  MaxEdits = 2
  MaxFaults = 2
  MaxOps = 4
CHECK_DEADLOCK FALSE
INVARIANTS
  TypeOK
  WritesAreAnnounced
  AppliedWasThere
  PreflightCoversAll
  ClosedLeftNothing
  FailedDidNothing
  OnePullRequest
  CleanupKeepsWork
  ArchivedIsSettled
PROPERTIES
  ImplementsOnceLedger
