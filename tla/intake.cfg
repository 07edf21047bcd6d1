\* Two processes, three webhooks: one in order, one malformed, one of a
\* topic that is not accepted.
SPECIFICATION IntakeSpec
CONSTANTS
  p1 = p1
  p2 = p2
  update = update
  broken = broken
  order = order
  None = none
  Processes <- TwoProcesses
  Webhooks <- ThreeWebhooks
  AllowedTopic <- Accepted
  WellFormed <- Readable
  MaxCrashes = 1
  MaxResets = 1
SYMMETRY Symmetry
INVARIANTS
  IntakeTypeOK
  OnlyVerifiedRuns
  NothingLostInPeace
PROPERTIES
  KeepsInbox
CHECK_DEADLOCK FALSE
