SPECIFICATION Spec
CONSTANTS
  a = a
  b = b
  Turns = {a, b}
  ToolLists <- MCToolLists
  ValidNames = {"Read", "Write"}
  Messages <- MCMessages
  MaxFrame = 2
  MaxPipe = 2
  MaxLines = 3
CHECK_DEADLOCK FALSE
INVARIANTS
  FaultsHitTheirTurn
  ToolCallsKeepTheirMeaning
