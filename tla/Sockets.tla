------------------------------ MODULE Sockets ------------------------------
(***************************************************************************)
(* The kernel objects that jconfigserver and its clients share: the two    *)
(* listening sockets, the queues of connections nobody has accepted yet,   *)
(* and the two ends of every connection.  None of this is code of the      *)
(* repository: it is what the calls in configserver.c and SocketClient.java*)
(* rely on (unix(7), tcp(7), Linux).                                       *)
(***************************************************************************)
EXTENDS Naturals, Sequences, FiniteSets

CONSTANTS UnixClients,  \* button clicks of the app: one LocalSocket each
          TcpClients,   \* peers of the TCP port 4444, outside the repository
          MAXPENDING,   \* backlog given to listen(): configserver.c:58
          Payload,      \* bytes of the message of a client, head excluded
          CutPoints,    \* numbers of bytes after which TCP may cut a stream
          Faults        \* failures of the environment that may happen

Clients == UnixClients \cup TcpClients
Listeners == {"unix", "tcp"}

ASSUME ClientsAssumption == UnixClients \cap TcpClients = {}
ASSUME BacklogAssumption == MAXPENDING \in Nat
ASSUME PayloadAssumption == Payload \in [Clients -> Nat \ {0}]
ASSUME CutPointsAssumption == CutPoints \subseteq Nat
ASSUME FaultsAssumption ==
  Faults \subseteq {"socket", "accept", "getsockopt", "command",
                    "kill_server", "kill_app", "tcp_leaves"}

VARIABLES
  fd,        \* fd[l]: the listening socket of the running server
  queue,     \* queue[l]: connections waiting for accept(), oldest first
  conn,      \* conn[c]: the connection of c, seen from the server's side
  open,      \* open[c]: c still holds its end
  shut,      \* TCP peers that have shut down their sending half only
  arrived,   \* arrived[c]: bytes of c that reached the server's socket
  reply,     \* reply[c]: what the server sent to c
  sockfile,  \* the path /dev/socket/jconfigserver exists
  timeWait   \* a closed connection still occupies port 4444

socketVars ==
  <<fd, queue, conn, open, shut, arrived, reply, sockfile, timeWait>>

HEAD == 4
Replies == {"none", "execute ok", "failed execute"}

ListenerOf(c) == IF c \in UnixClients THEN "unix" ELSE "tcp"
FrameLength(c) == HEAD + Payload[c]

SocketsTypeOK ==
  /\ fd \in [Listeners -> {"none", "listening", "failed", "inuse"}]
  /\ queue \in [Listeners -> Seq(Clients)]
  /\ conn \in [Clients -> {"none", "refused", "queued", "accepted",
                           "orphaned", "closed"}]
  /\ open \in [Clients -> BOOLEAN]
  /\ shut \subseteq TcpClients
  /\ arrived \in [Clients -> Nat]
  /\ reply \in [Clients -> Replies]
  /\ sockfile \in BOOLEAN
  /\ timeWait \in BOOLEAN

SocketsInit ==
  /\ fd = [l \in Listeners |-> "none"]
  /\ queue = [l \in Listeners |-> <<>>]
  /\ conn = [c \in Clients |-> "none"]
  /\ open = [c \in Clients |-> FALSE]
  /\ shut = {}
  /\ arrived = [c \in Clients |-> 0]
  /\ reply = [c \in Clients |-> "none"]
  /\ sockfile \in BOOLEAN      \* a path left behind by an earlier server
  /\ timeWait \in BOOLEAN      \* and a connection it closed a minute ago

-----------------------------------------------------------------------------
(* Linux lets backlog + 1 connections wait; the next connect() blocks.     *)
HasRoom(l) == Len(queue[l]) <= MAXPENDING

(* connect() of c is taken up: c enters the queue of its listener.         *)
Enqueue(c) ==
  LET l == ListenerOf(c)
  IN  /\ fd[l] = "listening"
      /\ HasRoom(l)
      /\ queue' = [queue EXCEPT ![l] = Append(@, c)]
      /\ conn' = [conn EXCEPT ![c] = "queued"]
      /\ open' = [open EXCEPT ![c] = TRUE]

(* A TCP connection that the server closes before its peer does stays in   *)
(* TIME_WAIT on the server's port.                                         *)
LeavesTimeWait(c) == c \in TcpClients /\ open[c] /\ c \notin shut

CloseServerEnd(c) ==
  /\ conn' = [conn EXCEPT ![c] = "closed"]
  /\ timeWait' = (timeWait \/ LeavesTimeWait(c))

(* What the kernel does with the sockets of a server that dies while it    *)
(* serves c: every listener and every connection is closed.  Only the      *)
(* descriptor of c lives on when a child of system() inherited it, since   *)
(* nobody set FD_CLOEXEC on an accepted socket.                            *)
ServerSocketsDie(c, inherited) ==
  /\ fd' = [l \in Listeners |-> "none"]
  /\ queue' = [l \in Listeners |-> <<>>]
  /\ conn' = [d \in Clients |->
                IF inherited /\ d = c THEN "orphaned"
                ELSE IF conn[d] \in {"queued", "accepted"} THEN "closed"
                ELSE conn[d]]
  /\ timeWait' = (timeWait \/ \E d \in Clients :
                    conn[d] = "accepted" /\ conn'[d] = "closed" /\ LeavesTimeWait(d))
  /\ UNCHANGED <<open, shut, arrived, reply, sockfile>>

(* The child of system() that outlived the server exits.                   *)
ChildExits(c) ==
  /\ conn[c] = "orphaned"
  /\ CloseServerEnd(c)
  /\ UNCHANGED <<fd, queue, open, shut, arrived, reply, sockfile>>

(* The 2 MSL timer of the closed connections on port 4444 runs out.        *)
TimeWaitExpires ==
  /\ timeWait
  /\ timeWait' = FALSE
  /\ UNCHANGED <<fd, queue, conn, open, shut, arrived, reply, sockfile>>
=============================================================================
