SPECIFICATION Spec
CONSTANTS
  XLEN = 2
  Word = 4
  Registers <- MCRegisters
  CsrNames <- MCCsrNames
INVARIANT TypeOK
PROPERTY ImplementsZicsr
PROPERTY ExchangesAsNamed
PROPERTY UserKeptToGranted
CHECK_DEADLOCK FALSE
