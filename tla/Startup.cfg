\* Three containers on any volume, a kill and an edit.
SPECIFICATION FairSpec
CONSTANTS
  Networks = {"main", "chip"}
  Chipnet = "chip"
  Deployments <- MCDeployments
  MaxUps = 3
  MaxKills = 1
  MaxEdits = 1
CHECK_DEADLOCK FALSE
INVARIANTS RefusalIsSafe
PROPERTIES PolicyInForce ForeignUntouched UserDataKept ShutdownEnds
