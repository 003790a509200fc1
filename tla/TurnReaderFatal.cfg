CONSTANTS
  Limits = {1}
  MaxUnits = 1
  MaxContent = 2
  MaxStream = 1
SPECIFICATION Spec
INVARIANT
  FatalErrorFailsTheTurn
