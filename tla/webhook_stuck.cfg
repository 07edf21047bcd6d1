\* A run that a Shopify webhook created, with a worker that polls.
SPECIFICATION FairSpec
CONSTANTS
  r1 = r1
  r2 = r2
  r3 = r3
  w1 = w1
  Creator = creator
  None = none
  Requests <- OneRequest
  Workers <- OneWorker
  Triggers <- Webhook
  Ops <- Approve
  LivePrincipals <- OnlyFirst
  RepoConfigured = TRUE
  MaxLab = 0
  Contradicted <- AtFirst
  Unreadable <- AtNone
  Unpatchable <- NoPatch
  MaxBusy = 1
  MaxCrashes = 0
  MaxFaults = 0
PROPERTIES
  NothingStranded
CHECK_DEADLOCK FALSE
