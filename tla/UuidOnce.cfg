SPECIFICATION Spec
CONSTANTS
  a = a  b = b  c = c
  NoUuid = NoUuid
  Backends = {"amlogic", "mstar"}
  Uuids = {a, b, c}
  PARTS = 3
  MAXFD = 3
  ChipFaults = {"ioctl", "read", "write", "init"}
CHECK_DEADLOCK FALSE
INVARIANTS TypeOK NeverReburnt TrueIsBurnt
PROPERTY StoreSpec
