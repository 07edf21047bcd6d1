\* The lab changes between the plan and the remediation.
SPECIFICATION Spec
CONSTANTS
  r1 = r1
  r2 = r2
  r3 = r3
  w1 = w1
  Creator = creator
  None = none
  Requests <- OneRequest
  Workers <- NoWorkers
  Triggers <- Manual
  Ops <- Approve
  LivePrincipals <- OnlyFirst
  RepoConfigured = TRUE
  MaxLab = 1
  Contradicted <- AtBoth
  Unreadable <- AtNone
  Unpatchable <- NoPatch
  MaxBusy = 1
  MaxCrashes = 0
  MaxFaults = 0
INVARIANTS
  ShipsWhatWasApproved
CHECK_DEADLOCK FALSE
