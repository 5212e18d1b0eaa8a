SPECIFICATION Spec
CONSTANTS
  u1 = u1  u2 = u2  u3 = u3
  t1 = t1  t2 = t2  t3 = t3
  NoClient = NoClient
  UnixClients = {u1}
  TcpClients = {t2}
  MAXPENDING = 0
  Payload <- MCPayload
  CutPoints = {3, 8, 64}
  Faults = {"socket", "accept", "getsockopt", "command", "kill_server", "kill_app", "tcp_leaves"}
  SystemCmd = {u1, t2}
CHECK_DEADLOCK FALSE
INVARIANTS TypeOK DoneMeansRan
PROPERTY ServiceSpec
