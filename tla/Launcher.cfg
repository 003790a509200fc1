SPECIFICATION FairSpec
CONSTANTS
  MaxExecutable = 1
  MaxManifest = 2
  CodexDigest = "pinned"
  Catalogues = {"first", "second"}
  Acceptable = {"first"}
  Scopes = {"user", "project"}
  SettingsFiles <- MCSettingsFiles
  MaxSettings = 1
  HookInputs <- MCHookInputs
  Releases <- MCReleases
  Replies <- MCReplies
  Binaries <- MCBinaries
  StartupAttempts = 1
INVARIANTS
  OneCatalogue
  OnlyOfficialClaude
  SettingsStaySafe
  NothingOutlivesTheLaunch
PROPERTY
  EveryLaunchEnds
