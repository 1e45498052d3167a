CONSTANTS
  Lines0 <- MCLines0
  Shift0 <- MCShift0
  Later <- MCLater
  MaxWrites = 2

SPECIFICATION CodecSpec
INVARIANT LinesInv
PROPERTY ImplementsRegisters
CHECK_DEADLOCK FALSE
