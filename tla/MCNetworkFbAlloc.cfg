CONSTANTS
  c1 = c1
  c2 = c2
  NoOne = NoOne
  TheMain = TheMain
  TheListener = TheListener
  NumListeners = 1
  Conn <- TwoConns
  Faults <- FbAllocFault
SPECIFICATION FairSpec
PROPERTIES
  EveryConnectionIsServed
CHECK_DEADLOCK FALSE
