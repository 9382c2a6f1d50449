SPECIFICATION Spec
CONSTANTS
  XLEN = 2
  Word = 4
  Registers <- MCRegisters
  CsrNames <- MCCsrNames
PROPERTY ReadOnlyKept
CHECK_DEADLOCK FALSE
