SPECIFICATION Spec
CONSTANTS
  a = a  b = b  c = c
  NoUuid = NoUuid
  Backends = {"dev_io"}
  Uuids = {a}
  PARTS = 2
  MAX_RETRY_COUNT = 2
  CHANGES = 0
  MediumFaults = {"write"}
CHECK_DEADLOCK FALSE
INVARIANT CheckedIsStored
