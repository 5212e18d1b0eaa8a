SPECIFICATION FairSpec
CONSTANTS
  u1 = u1  u2 = u2  u3 = u3
  t1 = t1  t2 = t2  t3 = t3
  NoClient = NoClient
  UnixClients = {u1, u2}
  TcpClients = {t1}
  MAXPENDING = 0
  Payload <- MCPayload
  CutPoints = {}
  Faults = {"socket", "getsockopt", "kill_app"}
  SystemCmd = {u1, u2, t1}
CHECK_DEADLOCK FALSE
INVARIANTS NoCascade BoundedBypass
PROPERTIES ClickReturns Served
