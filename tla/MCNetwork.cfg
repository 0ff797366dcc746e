CONSTANTS
  c1 = c1
  c2 = c2
  NoOne = NoOne
  TheMain = TheMain
  TheListener = TheListener
  NumListeners = 2
  Conn <- TwoConns
  Faults <- LocalFaults
SPECIFICATION Spec
INVARIANTS
  TypeOK
  ListedIsLive
  RemovesWhatIsListed
  QuiescentAfterShutdown
  CrashesHaveACause
