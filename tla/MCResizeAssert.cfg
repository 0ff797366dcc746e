CONSTANTS
  n1 = n1
  n2 = n2
  c1 = c1
  c2 = c2
  Shown = Shown
  Node <- MCNode
  Conn <- MCConn
  NodeOf <- MCNodeOf
  Size <- MCSize
  Pixel <- MCPixel
  MaxResizes = 1
SPECIFICATION Spec
INVARIANTS
  AssertionsHold
CHECK_DEADLOCK FALSE
