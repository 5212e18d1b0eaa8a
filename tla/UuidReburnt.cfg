SPECIFICATION Spec
CONSTANTS
  a = a  b = b  c = c
  NoUuid = NoUuid
  Backends = {"amlogic"}
  Uuids = {a, b}
  PARTS = 2
  MAXFD = 3
  ChipFaults = {"open"}
CHECK_DEADLOCK FALSE
INVARIANT NeverReburnt
