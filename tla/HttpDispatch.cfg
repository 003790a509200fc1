CONSTANTS
  Capacity = 2
  Limit = 3
  MaxChunks = 5
SPECIFICATION FairSpec
INVARIANTS
  FramesAreWellFormed
  AggregatesAreLimited
PROPERTIES
  KeepsRelayContract
  EveryExchangeEnds
