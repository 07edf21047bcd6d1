\* Two runs and the demo reset share the checkout; one dies inside.
SPECIFICATION Spec
CONSTANTS
  Runs = {r1, r2}
  Files = {feed, policy}
  Versions = {old, new}
  First = old
  Reviewed = Reviewed
  None = None
  MaxBusy = 2
  MaxCrashes = 1
  MaxTries = 2
  MaxOutside = 1
SYMMETRY Symmetry
INVARIANTS
  TypeOK
  PushedIsValidatedAlone
  CheckoutRestored
  ReviewKept
CHECK_DEADLOCK FALSE
