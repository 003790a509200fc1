SPECIFICATION FairSpec
CONSTANTS
  MaxExecutable = 2
  MaxManifest = 2
  CodexDigest = "pinned"
  Environments <- MCEnvironments
  Files <- MCFiles
  Models = {"m1", "m2"}
  Configured <- MCConfigured
  Accounts = {"chatgpt", "apiKey"}
  Cursors = {"c1", "c2", "c3"}
  MaxPages = 3
INVARIANTS
  VerdictIsJustified
  NothingLeftBehind
  PinnedUnlessReplacedLate
PROPERTY
  EveryPreflightEnds
