SPECIFICATION Spec
CONSTANTS
  AddrSpace = 16
  Byte = 2
  XLEN = 4
  Registers <- MCRegisters
  Devices <- MCWordDevices
  Starts <- MCWordStarts
  Contents <- MCWordContents
  FileSizes = {2}
  Addrs = {4, 8}
  AmoOps = {"AMOADD", "AMOXOR", "AMOAND", "AMOOR", "AMOMIN", "AMOMAX", "AMOMINU", "AMOMAXU"}
  Threads = {t1}
  PairedSoftware = FALSE
PROPERTY ScOnlyAfterItsLr
CHECK_DEADLOCK FALSE
