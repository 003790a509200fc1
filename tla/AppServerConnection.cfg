CONSTANTS
  Callers = {c1, c2}
  Threads = {t1, t2}
  Reader = reader
  NoCaller = noCaller
  NoThread = noThread
  MaxId = 6
  MaxEvents = 1
SPECIFICATION Spec
SYMMETRY Symmetry
INVARIANTS
  RequestNeverStranded
  AnswerReachesItsRequest
  ReaderNeverStranded
  NoLeakedRegistration
  OnlyLeaversCutOthersOff
