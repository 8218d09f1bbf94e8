SPECIFICATION Spec
CHECK_DEADLOCK FALSE
CONSTANTS
  jtag = jtag
  lcd = lcd
  fs = fs
  ffs = ffs
  ALT_MAX_FD = 5
  NULL = NULL
  dev_null = dev_null
  Devices = {jtag, lcd}
  FileSystems = {fs, ffs}
  Name <- MCName
  Openers = {lcd, fs, ffs}
  Paths <- MCPaths
  UserFlags = {{}, {"O_RDWR", "O_NONBLOCK"}}
  ALT_STDIN <- MCStdout
  ALT_STDOUT <- MCStdout
  ALT_STDERR <- MCStderr
INVARIANT FailedOpenLeavesNothing
PROPERTIES StreamsRedirected LockIsKept LockIsExclusive
