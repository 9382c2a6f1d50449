SPECIFICATION Spec
CONSTANTS
  AddrSpace = 12
  Byte = 2
  XLEN = 4
  Registers <- MCRegisters
  Devices <- MCDevices
  Starts <- MCStarts
  Contents <- MCContents
  FileSizes = {0, 1, 2, 3, 4}
  Addrs = {2, 4, 5, 6, 7, 8}
  AmoOps = {"AMOADD", "AMOXOR", "AMOAND", "AMOOR", "AMOMIN", "AMOMAX", "AMOMINU", "AMOMAXU"}
  Threads = {t1, t2}
  PairedSoftware = TRUE
INVARIANT TypeOK
INVARIANT ImagesIntact
INVARIANT AtomicsAsNamed
PROPERTY ImplementsFlatMemory
PROPERTY ScOnlyAfterItsLr
PROPERTY LoadsAsNamed
SYMMETRY Swap
CHECK_DEADLOCK FALSE
