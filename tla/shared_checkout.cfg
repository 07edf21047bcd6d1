\* Publishers and the demo reset overlap.
SPECIFICATION Spec
CONSTANTS
  Runs = {r1, r2}
  Files = {feed, policy}
  Versions = {old, new}
  First = old
  Reviewed = Reviewed
  None = None
  MaxBusy = 2
  MaxCrashes = 0
  MaxTries = 1
  MaxOutside = 0
INVARIANTS
  PushedIsValidated
CHECK_DEADLOCK FALSE
