SPECIFICATION Spec
CONSTANTS
  Profiles = {"isolated_local", "trusted_local"}
  MaxTime = 3
  MaxVersion = 12
INVARIANTS
  SaveNeverConflicts
CHECK_DEADLOCK FALSE
