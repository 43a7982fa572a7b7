SPECIFICATION FairSpec
CONSTANTS
  Descriptors = 4
  MaxPlugged = 2
  Files = TRUE
  Unused = Unused
  Others = Others
  NoTty = NoTty
INVARIANTS
  DeviceTypeOK
  HeldOnce
  RawWhileOpen
  OwnDescriptor
PROPERTIES
  Reopened
CHECK_DEADLOCK FALSE
