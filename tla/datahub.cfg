SPECIFICATION Spec
CONSTANTS
  fed = fed
  manifest = manifest
  first = first
  second = second
  Projections <- TwoProjections
  Owned = {fed}
  Source = Source
  Runs = {first}
  Others = {second}
  NoRun = NoRun
  ToolSets <- SmallToolSets
  Parts <- SmallParts
  Scenarios <- SmallScenarios
INVARIANTS
  TypeOK
  SeedConverges
  VerifiedGraphIsTraversable
  BlastRadiusIsLineage
  OnlyAffectedAnnotated
  VerifiedWasCarried
  TraceExplains
CHECK_DEADLOCK FALSE
