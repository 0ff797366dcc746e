CONSTANTS
  Conn = {c1, c2}
  MaxReads = 3
  MaxFrames = 2
  Parts = 2
  Base = 2
  LastUnit = 3
  MaxSize = 30
SPECIFICATION Spec
CHECK_DEADLOCK FALSE
INVARIANTS
  TypeOK
  AnswersAreSnapshots
  CountedOnce
  UnitFitsValue
PROPERTY
  MainGoesOn
