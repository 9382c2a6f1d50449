SPECIFICATION Spec
CONSTANTS
  PteCount = 2
  UintMax = 2
  Ram <- PagRam
  InitialMemories <- PagMemories
  Entry = 24
  JumpTargets <- PagJumpTargets
  DataAddrs <- PagDataAddrs
  StoreWords <- PagStoreWords
  SstatusValues <- PagSstatus
  InterruptSets <- PagInterruptSets
  StvecValues <- PagStvec
  ScounterenValues <- PagScounteren
  ScauseValues <- PagScause
  SatpValues <- PagSatp
  InstrBits = InstrBits
INVARIANTS
  FetchPermitted
PROPERTIES
  LoadsPermitted
  StoresPermitted
  OnlyDeepTablesSpin
  UserStaysConfined
