\* The API process, its installs and the watchdog over it.
SPECIFICATION FairSpec
CONSTANTS
  Shops = {ours, theirs}
  DemoShop = DemoShop
  States = {s1, s2}
  Callbacks = {c1, c2}
  Scripts = {script}
  parity = parity
  Rules = {parity}
  Versions = {1, 2}
  Sources = {"a", "b"}
  Builds <- ThreeBuilds
  FirstBuild <- OldBuild
  Configured = {"datahub", "github"}
  None = None
  TTL = 1
  Cooldown = 2
  MaxStart = 1
  Scenarios <- SmallScenarios
INVARIANTS
  TypeOK
  OneTenant
  ServingIsReady
  InstalledIsReal
PROPERTIES
  AdmittedOnce
  NoRestartLoop
  Heals
CHECK_DEADLOCK FALSE
