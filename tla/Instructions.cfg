SPECIFICATION Spec
CONSTANTS
  XLEN = 4
  Word = 16
  Registers <- MCRegisters
  Words <- MCWords
  OtherResults <- WordValue
INVARIANT TypeOK
INVARIANT ImmediatesRight
PROPERTY ImplementsRv32im
CHECK_DEADLOCK FALSE
