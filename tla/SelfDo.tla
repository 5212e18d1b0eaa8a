------------------------------- MODULE SelfDo -------------------------------
(***************************************************************************)
(* jconfigserver, the app's button threads and the TCP peers, together.    *)
(* The two programs share no variable: they meet in the sockets.           *)
(***************************************************************************)
EXTENDS ConfigServer, SocketClient

(* Every command of the app starts with "system".                          *)
ASSUME AppCommandsAssumption == UnixClients \subseteq SystemCmd

vars == <<socketVars, serverVars, clientVars>>

TypeOK == SocketsTypeOK /\ ServerTypeOK /\ ClientTypeOK

Init == SocketsInit /\ ServerInit /\ ClientInit

(* Steps of the server's process, and what happens to it from outside.     *)
Server == ServerStep /\ UNCHANGED clientVars

ServerEnvironment ==
  /\ SystemReturns \/ ServerKilled \/ Restart
  /\ UNCHANGED clientVars

(* Steps of a thread of the app, and what the user does.                   *)
Thread(c) == ThreadStep(c) /\ UNCHANGED serverVars

User ==
  /\ AppKilled \/ Launch \/ \E c \in UnixClients : Click(c)
  /\ UNCHANGED serverVars

TcpPeer(c) ==
  /\ TcpConnect(c) \/ TcpSegment(c) \/ TcpShutdown(c) \/ TcpLeaves(c)
  /\ UNCHANGED serverVars

Kernel ==
  /\ TimeWaitExpires \/ \E c \in Clients : ChildExits(c)
  /\ UNCHANGED <<serverVars, clientVars>>

Next ==
  \/ Server
  \/ ServerEnvironment
  \/ \E c \in UnixClients : Thread(c)
  \/ User
  \/ \E c \in TcpClients : TcpPeer(c)
  \/ Kernel

Spec == Init /\ [][Next]_vars

(* Both processes are scheduled.  Nothing is assumed of commands, users,   *)
(* TCP peers, restarts or timers.                                          *)
Fairness == WF_vars(Server) /\ \A c \in UnixClients : WF_vars(Thread(c))

FairSpec == Spec /\ Fairness

-----------------------------------------------------------------------------
(* Safety                                                                  *)

(* handle_set_fd() closes what it accepted on every one of its paths: the  *)
(* server never holds a connection that it is not serving.                 *)
NoSocketLeak ==
  \A c \in Clients : conn[c] = "accepted" => cur = c /\ pc \in Serving

(* When a button thread has ended, its command has run exactly once, as    *)
(* the whole text the thread sent, and the thread was told "execute ok".   *)
DoneMeansRan ==
  \A c \in UnixClients :
    cpc[c] = "done" =>
      /\ reply[c] = "execute ok"
      /\ ran[c] = 1
      /\ text[c] = "whole"
      /\ status[c] # "none"

(* The branch of readNetResponseSync() for "failed execute" is never taken *)
(* by the app: the server sends it only after recv() <= 0, and by then a   *)
(* thread that could read it is gone.                                      *)
NeverFailed == \A c \in UnixClients : reply[c] # "failed execute"

(* The server and a button thread never wait for each other: while recv()  *)
(* blocks on a connection of the app, the thread at its other end is still *)
(* about to write; and a thread that polls for its answer has its whole    *)
(* message in the socket, as long as the connection waits or is served.    *)
NoMutualWait ==
  \A c \in UnixClients :
    /\ cur = c /\ pc = "recv" /\ arrived[c] = 0 /\ open[c] => cpc[c] = "write"
    /\ cpc[c] = "read" /\ conn[c] \in {"queued", "accepted"} =>
         arrived[c] = FrameLength(c)

(* As long as nobody kills the server and no TCP peer misbehaves, the      *)
(* server dies only in the send() to a thread of the app that has ended    *)
(* unanswered, and threads end unanswered only because the app was ended   *)
(* or a connect() of it found no listener.                                 *)
Peaceful ==
  /\ Faults \cap {"kill_server", "tcp_leaves"} = {}
  /\ \A c \in TcpClients : FrameLength(c) < BUFSZ

Abandoned(c) == cpc[c] = "gone" /\ conn[c] = "closed" /\ reply[c] = "none"

NoCascade ==
  Peaceful =>
    /\ pc = "dead" => \E c \in UnixClients : Abandoned(c)
    /\ ~appUp \/ (\E c \in UnixClients : cpc[c] = "gone") =>
         "kill_app" \in Faults \/ \E c \in UnixClients : conn[c] = "refused"

(* poll() reports both listeners but handle_set_fd() accepts one           *)
(* connection of each: a waiting listener is overtaken at most twice,      *)
(* however many clients keep the other one busy, and at most once without  *)
(* being reported by the next poll().                                      *)
BoundedBypass ==
  \A l \in Listeners : overtaken[l] <= IF pc = "poll" THEN 1 ELSE 2

(* What the comments of readNetResponseSync() say ("Access to the command  *)
(* execution results", "success"): "execute ok" means the command          *)
(* succeeded.  The server does not look at what system() returns.          *)
ReplyTruthful ==
  \A c \in UnixClients : reply[c] = "execute ok" => status[c] = "zero"

(* What the comment of writeMess() says ("4bytes len head + loader"): a    *)
(* message is a length and as many bytes.  The server runs what one recv() *)
(* returned.                                                               *)
FrameHonoured == \A c \in Clients : ran[c] > 0 => text[c] = "whole"

-----------------------------------------------------------------------------
(* Liveness                                                                *)

(* The server waits for ever for a command that does not end, or for the   *)
(* first byte of a TCP peer; or nobody starts it again.                    *)
Stuck ==
  \/ pc = "system"
  \/ pc = "recv" /\ cur \in TcpClients /\ arrived[cur] = 0
  \/ pc = "dead"

(* Unless it gets stuck, the server takes up every connection that waits,  *)
(* whichever listener it waits on.                                         *)
Served ==
  \/ <>[]Stuck
  \/ \A c \in Clients : conn[c] = "queued" ~> conn[c] # "queued"

(* Unless the server gets stuck, every click comes to an end: its thread   *)
(* reads an answer, or ends with the app.  Only a connection that the      *)
(* server closed unanswered, because getsockopt() failed or the server     *)
(* died, leaves the thread polling for ever: readNetResponseSync() takes   *)
(* no notice of the end of the stream.                                     *)
ClickReturns ==
  \/ <>[]Stuck
  \/ \A c \in UnixClients :
       cpc[c] = "connect" ~>
         \/ cpc[c] \in {"done", "gone"}
         \/ conn[c] \in {"closed", "orphaned"} /\ reply[c] = "none"

-----------------------------------------------------------------------------
(* Refinement                                                              *)

(* How far the command of c has got, as CommandService counts it.  The     *)
(* child of system() that outlives its server is still at it.              *)
Phase(c) ==
  CASE reply[c] = "execute ok" -> "answered"
    [] reply[c] = "failed execute" -> "rejected"
    [] reply[c] = "none" /\ conn[c] \in {"refused", "closed"} -> "lost"
    [] reply[c] = "none" /\ conn[c] = "orphaned" -> "orphaned"
    [] conn[c] = "accepted" /\ pc = "system" -> "running"
    [] conn[c] = "accepted" /\ pc = "send_ok" ->
         IF ran[c] > 0 THEN "ran" ELSE "ignored"
    [] OTHER -> IF arrived[c] > 0 THEN "submitted" ELSE "new"

Service == INSTANCE CommandService WITH
  Requesters <- Clients,
  AppRequesters <- UnixClients,
  phase <- [c \in Clients |-> Phase(c)]

(* Seen from outside, the two programs are the command service: a server   *)
(* runs one command at a time, and only one that was running when a server *)
(* died goes on beside those of the next server; each command runs at most *)
(* once and is answered only after it ran.                                 *)
ServiceSpec == Service!Spec
=============================================================================
