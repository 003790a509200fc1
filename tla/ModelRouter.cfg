CONSTANTS
  Requests = {r1, r2, r3}
  ClaudeSessions = {c1, c2}
  Routes = {p1, p2}
  ToolIds = {t1}
  NoTool = NoTool
  NoSession = NoSession
  Permits = 1
SPECIFICATION FairSpec
INVARIANTS
  PermitsAreAccountedFor
  ContinuesItsOwnTurn
  ToolCallStaysOpen
PROPERTIES
  KeepsConversations
  EveryRequestIsAnswered
  RetentionEnds
