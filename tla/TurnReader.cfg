CONSTANTS
  Limits = {1, 2}
  MaxUnits = 2
  MaxContent = 3
  MaxStream = 2
SPECIFICATION FairSpec
INVARIANTS
  TextIsWholeOrCut
  UsageIsFinal
  FatalWinsAtTheEnd
PROPERTIES
  KeepsOutputContract
  EveryReadReturns
