CONSTANTS
  a = a
  b = b
  Size = 4
  Byte <- MCByte
  Chunks <- MCChunks
  Lengths <- MCLengths
SPECIFICATION Spec
INVARIANTS
  TypeOK
  OnlyAFullRingLooksLikeEOF
PROPERTIES
  IsByteQueue
