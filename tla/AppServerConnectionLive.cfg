CONSTANTS
  Callers = {c1, c2}
  Threads = {t1}
  Reader = reader
  NoCaller = noCaller
  NoThread = noThread
  MaxId = 5
  MaxEvents = 1
SPECIFICATION PromptSpec
PROPERTIES
  FailureReachesEverySession
  EverySessionEnds
