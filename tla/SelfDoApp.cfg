SPECIFICATION Spec
CONSTANTS
  u1 = u1  u2 = u2  u3 = u3
  t1 = t1  t2 = t2  t3 = t3
  NoClient = NoClient
  UnixClients = {u1, u2}
  TcpClients = {}
  MAXPENDING = 0
  Payload <- MCPayload
  CutPoints = {}
  Faults = {"socket", "accept", "getsockopt", "command", "kill_server", "kill_app"}
  SystemCmd = {u1, u2}
CHECK_DEADLOCK FALSE
INVARIANTS NoSocketLeak DoneMeansRan NeverFailed NoMutualWait
PROPERTY ServiceSpec
