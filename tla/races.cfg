\* Two requests race each other and the creator's task, on a lab that changes.
SPECIFICATION Spec
CONSTANTS
  r1 = r1
  r2 = r2
  r3 = r3
  w1 = w1
  Creator = creator
  None = none
  Requests <- TwoRequests
  Workers <- NoWorkers
  Triggers <- Manual
  Ops <- AllOps
  LivePrincipals <- OnlySecond
  RepoConfigured = TRUE
  MaxLab = 1
  Contradicted <- AtFirst
  Unreadable <- AtNone
  Unpatchable <- MissingTarget
  MaxBusy = 3
  MaxCrashes = 0
  MaxFaults = 1
INVARIANTS
  TypeOK
  ApprovalGate
  ShipsWhatWasValidated
  PullRequestRowIsReal
  NoIllegalTransition
PROPERTIES
  KeepsShared
CHECK_DEADLOCK FALSE
