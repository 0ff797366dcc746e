CONSTANTS
  Byte <- MCByte
  Blank <- MCBlank
  NewLine <- MCNewLine
  PX <- MCPX
  SIZE <- MCSIZE
  OFFSET <- MCOFFSET
  Digit <- MCDigit
  HexDigit <- MCHexDigit
  ColorDigits = 1
  Channel = 16
  Word = 256
  Threshold = 3
  Capacity = 10
  Width = 2
  Height = 2
  Streams <- MCStreams
SPECIFICATION Spec
INVARIANTS
  TypeOK
  InOrder
  NothingLeftBehind
  KeepsGoodClients
  SkipsWhatIsNoVerb
