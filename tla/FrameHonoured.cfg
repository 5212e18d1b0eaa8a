SPECIFICATION Spec
CONSTANTS
  u1 = u1  u2 = u2  u3 = u3
  t1 = t1  t2 = t2  t3 = t3
  NoClient = NoClient
  UnixClients = {}
  TcpClients = {t1}
  MAXPENDING = 0
  Payload <- MCPayload
  CutPoints = {12}
  Faults = {}
  SystemCmd = {t1}
CHECK_DEADLOCK FALSE
INVARIANT FrameHonoured
