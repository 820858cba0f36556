\* One Attempt on either target; two failing calls, two losses of the server,
\* a Task of two repositories and two edits of a person.
SPECIFICATION Spec
CONSTANTS
  Targets = {"trusted_host", "docker"}
  MaxFaults = 2
  MaxLosses = 2
  RepoCount = 2
  MaxEdits = 2
CHECK_DEADLOCK FALSE
INVARIANTS
  TypeOK
  DeathIsReal
  ChildIsOwned
  ImportIsWhole
PROPERTIES
  ImplementsSupervisedProcess
