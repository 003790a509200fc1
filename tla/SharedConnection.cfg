CONSTANTS
  Requests = {r1, r2}
  Nobody = nobody
  Reader = reader
SPECIFICATION FairSpec
INVARIANTS
  OneConnectionAlive
  NextRequestIsFresh
  HandshakeComesFirst
PROPERTY ProcessesAreReaped
