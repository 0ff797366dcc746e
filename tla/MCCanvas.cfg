CONSTANTS
  n1 = n1
  n2 = n2
  c1 = c1
  c2 = c2
  NoNode = NoNode
  Node <- MCNode
  Conn <- MCConn
  NodeOf <- MCNodeOf
  Cells = 2
  MaxDraws = 2
SPECIFICATION Spec
INVARIANTS
  TypeOK
PROPERTIES
  CollectedOnce
  DrawnIsShown
