CONSTANTS
  e1 = e1
  e2 = e2
  e3 = e3
  e4 = e4
  NULL = NULL
  Entry <- MCEntry
SPECIFICATION Spec
INVARIANTS
  TypeOK
  PointersAgree
  WalkSeesTheList
  FreesEachOnce
