SPECIFICATION Spec
CONSTANTS
  PteCount = 2
  UintMax = 2
  Ram <- IntRam
  InitialMemories <- IntMemories
  Entry = 8
  JumpTargets <- IntJumpTargets
  DataAddrs <- IntDataAddrs
  StoreWords <- IntStoreWords
  SstatusValues <- IntSstatus
  InterruptSets <- IntInterruptSets
  StvecValues <- IntStvec
  ScounterenValues <- IntScounteren
  ScauseValues <- IntScause
  SatpValues <- IntSatp
  InstrBits = InstrBits
PROPERTY UserKeepsSstatus
