\* Two workers over more runs than one sweep takes.
SPECIFICATION Spec
CONSTANTS
  w1 = w1
  w2 = w2
  None = none
  Workers <- TwoWorkers
  Limit = 2
  MaxRuns = 3
  MaxEvents = 1
PROPERTIES
  Served
CHECK_DEADLOCK FALSE
