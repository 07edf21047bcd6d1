\* One thread at a time, with crashes, faults, retries and a worker that takes over.
SPECIFICATION FairSpec
CONSTANTS
  r1 = r1
  r2 = r2
  r3 = r3
  w1 = w1
  Creator = creator
  None = none
  Requests <- ThreeRequests
  Workers <- OneWorker
  Triggers <- Manual
  Ops <- RunOps
  LivePrincipals <- OnlyFirst
  RepoConfigured = TRUE
  MaxLab = 2
  Contradicted <- AtFirstAndThird
  Unreadable <- AtSecond
  Unpatchable <- ZeroUnits
  MaxBusy = 1
  MaxCrashes = 1
  MaxFaults = 1
INVARIANTS
  IncidentMirrorsRun
PROPERTIES
  KeepsMachine
  EnterableMoves
CHECK_DEADLOCK FALSE
