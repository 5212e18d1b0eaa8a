SPECIFICATION Spec
CONSTANTS
  a = a  b = b  c = c
  NoUuid = NoUuid
  Backends = {"rtd1815", "dev_io", "marvell_bg2", "samsung", "hisi", "hisi3718", "gs702", "infotm", "mt6589",
              "wm8880", "marvell3108", "memory_debug", "default"}
  Uuids = {a, b, c}
  PARTS = 3
  MAX_RETRY_COUNT = 2
  CHANGES = 2
  MediumFaults = {"open", "read", "write", "save", "remove"}
CHECK_DEADLOCK FALSE
INVARIANTS TypeOK SetIsRead Durable TrueMeansSome NeverMixed RestKept
PROPERTY RegisterSpec
