SPECIFICATION Spec
CONSTANTS
  AddrSpace = 16
  Byte = 2
  XLEN = 4
  Registers <- MCThreeRegisters
  Devices <- MCWordDevices
  Starts <- MCWordStarts
  Contents <- MCWordContents
  FileSizes = {2}
  Addrs = {4}
  AmoOps = {"AMOSWAP", "AMOADD", "AMOXOR", "AMOAND", "AMOOR", "AMOMIN", "AMOMAX", "AMOMINU", "AMOMAXU"}
  Threads = {t1, t2}
  PairedSoftware = TRUE
PROPERTY ImplementsFlatMemory
CHECK_DEADLOCK FALSE
