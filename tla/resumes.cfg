\* A worker resumes what the tasks of the API drive; nothing fails, and the approver may not push.
SPECIFICATION FairSpec
CONSTANTS
  r1 = r1
  r2 = r2
  r3 = r3
  w1 = w1
  Creator = creator
  None = none
  Requests <- OneRequest
  Workers <- OneWorker
  Triggers <- Manual
  Ops <- RunOps
  LivePrincipals <- Nobody
  RepoConfigured = TRUE
  MaxLab = 0
  Contradicted <- AtFirst
  Unreadable <- AtNone
  Unpatchable <- NoPatch
  MaxBusy = 2
  MaxCrashes = 0
  MaxFaults = 0
INVARIANTS
  LiveGate
PROPERTIES
  UndisturbedSettles
CHECK_DEADLOCK FALSE
