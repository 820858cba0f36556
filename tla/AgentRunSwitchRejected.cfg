SPECIFICATION Spec
CONSTANTS
  Profiles = {"isolated_local", "trusted_local"}
  MaxTime = 3
  MaxVersion = 12
PROPERTIES
  RejectionBlocksRetry
CHECK_DEADLOCK FALSE
