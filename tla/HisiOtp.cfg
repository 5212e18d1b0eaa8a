SPECIFICATION Spec
CONSTANTS
  a = a  b = b
  NoUuid = NoUuid
  Backends = {"hisi"}
  Uuids = {a, b}
  PARTS = 17
  MAX_RETRY_COUNT = 2
  CHANGES = 0
  MediumFaults = {"open", "write"}
  UuidBytes <- MCUuidBytes
CHECK_DEADLOCK FALSE
INVARIANTS CrcIsCrc32 GetIsWholeOrNull TrueIsReadBack
