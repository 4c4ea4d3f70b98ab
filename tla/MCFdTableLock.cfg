SPECIFICATION FdSpec
CONSTANTS
  MaxFd = 7
  jtag_uart = jtag_uart
  Devices = {jtag_uart, null}
  Null = null
  Draining = {jtag_uart}
  Absent = absent
  NoDev = NoDev
  Stdio <- MCStdio
PROPERTY LockNeedsSoleDescriptor
