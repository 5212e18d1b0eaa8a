-------------------------- MODULE SelfDoCalmProofs --------------------------
(***************************************************************************)
(* What the two processes do to each other: neither takes the other one    *)
(* with it (CalmInv), and neither listener keeps the other one waiting for *)
(* long (BypassInv).                                                       *)
(***************************************************************************)
EXTENDS SelfDoAnswerProofs

-----------------------------------------------------------------------------
(* Why neither process takes the other one with it.                        *)

(* A connection that the server still has is held by its client, or by a   *)
(* thread that ended with the app.                                         *)
Attended ==
  \A c \in Clients :
    conn[c] \in {"queued", "accepted"} =>
      open[c] \/ (c \in UnixClients /\ cpc[c] = "gone")

Excused == "kill_app" \in Faults \/ \E c \in UnixClients : conn[c] = "refused"

CalmInv ==
  /\ \A c \in Clients : arrived[c] <= FrameLength(c)
  /\ Peaceful => /\ Attended
                 /\ pc = "dead" => \E c \in UnixClients : Abandoned(c)
  /\ ~appUp \/ (\E c \in UnixClients : cpc[c] = "gone") => Excused

(* Nothing has gone wrong when the programs start.                         *)
LEMMA CalmInit == Init => CalmInv
BY FrameLengthType
DEF Init, SocketsInit, ServerInit, ClientInit, CalmInv, Attended

(* Nothing that fits recv()'s buffer with room to spare can overrun it.    *)
LEMMA NoOverrun ==
  ASSUME TypeOK, CalmInv, Peaceful, NEW c \in Clients
  PROVE  Received(c) # BUFSZ
<1>1. FrameLength(c) \in Nat /\ FrameLength(c) < 64
  <2>1. CASE c \in UnixClients
    BY <2>1, CommandAssumption DEF CommandLengths, FrameLength, HEAD
  <2>2. CASE c \in TcpClients
    BY <2>2, FrameLengthType DEF Peaceful, BUFSZ
  <2>3. QED
    BY <2>1, <2>2 DEF Clients
<1>2. arrived[c] \in Nat /\ arrived[c] <= FrameLength(c)
  BY AnswerTypes DEF CalmInv
<1>3. QED
  BY <1>1, <1>2 DEF Received, BUFSZ

(* Left in peace, the server dies in send() only, and of a thread that has *)
(* gone: recv() fits its buffer and every other peer is there.             *)
LEMMA CalmServer ==
  TypeOK /\ OwnInv /\ AnswerInv /\ CalmInv /\ (Server \/ ServerEnvironment)
    => CalmInv'
<1> SUFFICES ASSUME TypeOK, OwnInv, AnswerInv, CalmInv, Server \/ ServerEnvironment
             PROVE  CalmInv'
  OBVIOUS
<1>1. UNCHANGED <<appUp, cpc, shut, arrived, open>>
  BY DEF Server, ServerEnvironment, clientVars, ServerStep, StartUnixSocket,
         BindUnixSocket, StartTcpSocket, Poll, Accept, AcceptFails,
         GetsockoptSucceeds, GetsockoptFails, Recv, RecvNothing, SendReply,
         SendSigpipe, RecvOverruns, SystemReturns, ServerKilled, Restart,
         ServerDies, ServerSocketsDie, CloseServerEnd, socketVars
<1>2. /\ cur \in Clients <=> pc \in Serving
      /\ \A c \in Clients : conn[c] = "accepted" <=> c = cur
  BY DEF OwnInv, CurInv
<1>3. \A c \in Clients :
        /\ conn'[c] \in {"queued", "accepted"} => conn[c] \in {"queued", "accepted"}
        /\ conn[c] = "refused" => conn'[c] = "refused"
  <2>1. CASE UNCHANGED conn
    BY <2>1
  <2>2. CASE \E l \in Listeners : Accept(l)
    <3>1. PICK l \in Listeners : Accept(l)
      BY <2>2
    <3>2. Head(queue[l]) \in Clients /\ conn[Head(queue[l])] = "queued"
      BY <3>1, QueueShortened DEF OwnInv, Waiting
    <3>3. QED
      BY <3>1, <3>2, OwnTypes DEF Accept
  <2>3. CASE GetsockoptFails \/ SendReply
    BY <1>2, <2>3, OwnTypes DEF GetsockoptFails, SendReply, CloseServerEnd, Serving
  <2>4. CASE ServerDies
    BY <1>2, <2>4, OwnTypes DEF ServerDies, ServerSocketsDie
  <2>5. QED
    BY <2>1, <2>2, <2>3, <2>4
    DEF Server, ServerEnvironment, ServerStep, StartUnixSocket,
        BindUnixSocket, StartTcpSocket, Poll, AcceptFails, GetsockoptSucceeds,
        Recv, RecvNothing, SendSigpipe, RecvOverruns, SystemReturns,
        ServerKilled, Restart, socketVars
<1>4. Excused => Excused'
  BY <1>3 DEF Excused, Clients
<1>5. ASSUME Peaceful PROVE Attended'
  BY <1>1, <1>3, <1>5 DEF CalmInv, Attended
<1>6. ASSUME Peaceful, pc' = "dead" PROVE \E c \in UnixClients : Abandoned(c)'
  <2>1. ~ServerKilled
    BY <1>6 DEF Peaceful, ServerKilled
  <2>2. ~RecvOverruns
    BY <1>2, <1>6, NoOverrun DEF RecvOverruns, Serving
  <2>3. SendSigpipe
    BY <1>6, <2>1, <2>2
    DEF Server, ServerEnvironment, ServerStep, StartUnixSocket,
        BindUnixSocket, StartTcpSocket, Poll, Accept, AcceptFails,
        GetsockoptSucceeds, GetsockoptFails, Recv, RecvNothing, SendReply,
        SystemReturns, Restart, AfterHandle
  <2>4. cur \in Clients /\ conn[cur] = "accepted" /\ ~open[cur] /\ pc # "system"
    BY <1>2, <2>3 DEF SendSigpipe, Serving
  <2>5. cur \in UnixClients /\ cpc[cur] = "gone"
    BY <1>6, <2>4 DEF CalmInv, Attended
  <2>6. reply[cur] = "none"
    BY <2>4, <2>5 DEF AnswerInv, StageInv
  <2>7. conn'[cur] = "closed" /\ reply'[cur] = "none"
    BY <2>3, <2>4, <2>6 DEF SendSigpipe, ServerDies, ServerSocketsDie
  <2>8. QED
    BY <1>1, <2>5, <2>7 DEF Abandoned
<1>7. QED
  BY <1>1, <1>4, <1>5, <1>6 DEF CalmInv, Peaceful

(* When the app ends, its threads are gone, and what they leave open to    *)
(* the server is theirs.                                                   *)
LEMMA AttendedKept ==
  ASSUME TypeOK, WaitInv, Attended, AppDies PROVE Attended'
<1> SUFFICES ASSUME NEW c \in Clients, conn'[c] \in {"queued", "accepted"}, ~open'[c]
             PROVE  c \in UnixClients /\ cpc'[c] = "gone"
  BY DEF Attended
<1>1. conn[c] \in {"queued", "accepted"} /\ (open'[c] <=> open[c] /\ c \notin UnixClients)
  BY DEF AppDies
<1>2. CASE open[c]
  <2>1. c \in UnixClients /\ cpc[c] \in Live
    BY <1>1, <1>2 DEF WaitInv, Wait, Live
  <2>2. QED
    BY <2>1 DEF AppDies
<1>3. CASE ~open[c]
  BY <1>1, <1>3 DEF Attended, AppDies, Live
<1>4. QED
  BY <1>2, <1>3

(* A thread closes its socket only after its answer, and takes the app     *)
(* with it only after a refusal.                                           *)
LEMMA CalmThread ==
  /\ TypeOK /\ OwnInv /\ AnswerInv /\ WaitInv /\ CalmInv
  /\ \E c \in UnixClients : Thread(c)
  => CalmInv'
<1> SUFFICES ASSUME TypeOK, OwnInv, AnswerInv, WaitInv, CalmInv,
                    NEW d \in UnixClients, Thread(d)
             PROVE  CalmInv'
  OBVIOUS
<1>1. d \in Clients /\ UnixClients \subseteq Clients /\ UNCHANGED pc
  BY DEF Clients, Thread, serverVars
<1>2. cpc[d] = "connect" => conn[d] = "none"
  BY DEF OwnInv, FreshInv
<1>3. FrameLength(d) \in Nat
  BY <1>1, FrameLengthType
<1>4. /\ UNCHANGED reply
      /\ \A c \in Clients : c # d => conn'[c] = conn[c]
      /\ \A c \in UnixClients : cpc[c] = "gone" => c # d /\ cpc'[c] = "gone"
  BY <1>1, OwnTypes
  DEF Thread, ThreadStep, Connect, Enqueue, ConnectRefused, Write, WriteToNull,
      AppDies, ReadResponse, Live
<1>5. ASSUME NEW c \in UnixClients, Abandoned(c) PROVE Abandoned(c)'
  BY <1>1, <1>4, <1>5 DEF Abandoned
<1>6. Excused => Excused'
  <2>1. conn[d] = "refused" => conn'[d] = "refused"
    BY <1>1, <1>2, OwnTypes
    DEF Thread, ThreadStep, Connect, Enqueue, ConnectRefused, Write,
        WriteToNull, AppDies, ReadResponse
  <2>2. QED
    BY <1>1, <1>4, <2>1 DEF Excused
<1>7. CASE Connect(d)
  <2>1. Attended => Attended'
    BY <1>1, <1>4, <1>7, OwnTypes, AnswerTypes DEF Connect, Enqueue, Attended
  <2>2. UNCHANGED <<appUp, arrived>> /\ \A c \in UnixClients : cpc'[c] = "gone" => cpc[c] = "gone"
    BY <1>1, <1>7, OwnTypes DEF Connect
  <2>3. QED
    BY <1>1, <1>5, <1>6, <2>1, <2>2 DEF CalmInv, Peaceful
<1>8. CASE ConnectRefused(d)
  <2>1. Attended => Attended'
    BY <1>1, <1>4, <1>8, OwnTypes DEF ConnectRefused, Attended
  <2>2. UNCHANGED <<appUp, arrived>> /\ \A c \in UnixClients : cpc'[c] = "gone" => cpc[c] = "gone"
    BY <1>1, <1>8, OwnTypes DEF ConnectRefused
  <2>3. QED
    BY <1>1, <1>5, <1>6, <2>1, <2>2 DEF CalmInv, Peaceful
<1>9. CASE Write(d)
  <2>1. \A c \in Clients : arrived'[c] \in {arrived[c], FrameLength(c)}
    BY <1>9, AnswerTypes DEF Write
  <2>2. UNCHANGED <<conn, open, appUp>> /\ \A c \in UnixClients : cpc'[c] = "gone" => cpc[c] = "gone"
    BY <1>1, <1>9, OwnTypes DEF Write
  <2>3. Attended => Attended'
    BY <1>4, <2>2 DEF Attended
  <2>4. \A c \in Clients : arrived'[c] <= FrameLength(c)
    BY <2>1, FrameLengthType DEF CalmInv
  <2>5. QED
    BY <1>1, <1>5, <1>6, <2>2, <2>3, <2>4 DEF CalmInv, Peaceful
<1>10. CASE WriteToNull(d)
  <2>1. Excused' /\ UNCHANGED arrived
    BY <1>10 DEF WriteToNull, AppDies, Excused
  <2>2. Attended => Attended'
    BY <1>10, AttendedKept DEF WriteToNull
  <2>3. QED
    BY <1>1, <1>5, <2>1, <2>2 DEF CalmInv, Peaceful
<1>11. CASE ReadResponse(d)
  <2>1. conn[d] = "closed"
    BY <1>11 DEF ReadResponse, AnswerInv, StageInv
  <2>2. UNCHANGED <<conn, arrived, appUp>> /\ \A c \in UnixClients : cpc'[c] = "gone" => cpc[c] = "gone"
    BY <1>1, <1>11, OwnTypes DEF ReadResponse
  <2>3. Attended => Attended'
    BY <1>1, <1>4, <1>11, <2>1, AnswerTypes DEF ReadResponse, Attended
  <2>4. QED
    BY <1>1, <1>5, <1>6, <2>2, <2>3 DEF CalmInv, Peaceful
<1>12. QED
  BY <1>7, <1>8, <1>9, <1>10, <1>11 DEF Thread, ThreadStep

(* The end of the app is excused by its fault; clicks and launches disturb *)
(* nothing.                                                                *)
LEMMA CalmUser == TypeOK /\ WaitInv /\ CalmInv /\ User => CalmInv'
<1> SUFFICES ASSUME TypeOK, WaitInv, CalmInv, User PROVE CalmInv'
  OBVIOUS
<1>1. /\ UNCHANGED <<pc, conn, reply, arrived>>
      /\ \A c \in UnixClients : cpc[c] = "gone" => cpc'[c] = "gone"
  BY OwnTypes
  DEF User, AppKilled, AppDies, Launch, Click, socketVars, serverVars, Live
<1>2. \A c \in UnixClients : Abandoned(c) => Abandoned(c)'
  BY <1>1 DEF Abandoned
<1>3. CASE AppKilled
  BY <1>1, <1>2, <1>3, AttendedKept DEF AppKilled, CalmInv, Peaceful, Excused
<1>4. CASE Launch \/ \E c \in UnixClients : Click(c)
  <2>1. /\ UNCHANGED open /\ (~appUp' => ~appUp)
        /\ \A c \in UnixClients : cpc'[c] = "gone" => cpc[c] = "gone"
    BY <1>4, OwnTypes DEF Launch, Click, socketVars
  <2>2. (Attended => Attended') /\ (Excused => Excused')
    BY <1>1, <2>1 DEF Attended, Excused
  <2>3. QED
    BY <1>1, <1>2, <2>1, <2>2 DEF CalmInv, Peaceful
<1>5. QED
  BY <1>3, <1>4 DEF User

(* Nor do TCP peers that stay until they are answered.                     *)
LEMMA CalmTcpPeer ==
  TypeOK /\ CalmInv /\ (\E c \in TcpClients : TcpPeer(c)) => CalmInv'
<1> SUFFICES ASSUME TypeOK, CalmInv, NEW d \in TcpClients, TcpPeer(d)
             PROVE  CalmInv'
  OBVIOUS
<1>1. d \in Clients /\ d \notin UnixClients /\ UnixClients \subseteq Clients
  BY ClientsAssumption DEF Clients
<1>2. UNCHANGED <<pc, appUp, cpc, reply>>
  BY DEF TcpPeer, TcpConnect, TcpSegment, TcpShutdown, TcpLeaves,
         serverVars, clientVars
<1>3. \A c \in Clients : c # d => conn'[c] = conn[c] /\ open'[c] = open[c]
  BY <1>1, OwnTypes, AnswerTypes
  DEF TcpPeer, TcpConnect, Enqueue, TcpSegment, TcpShutdown, TcpLeaves
<1>4. (Excused => Excused') /\ \A c \in UnixClients : Abandoned(c) => Abandoned(c)'
  BY <1>1, <1>2, <1>3 DEF Excused, Abandoned
<1>5. ASSUME Peaceful, Attended PROVE Attended'
  <2>1. conn'[d] \in {"queued", "accepted"} =>
          open'[d] \/ (conn[d] \in {"queued", "accepted"} /\ open'[d] = open[d])
    BY <1>1, <1>5, OwnTypes, AnswerTypes
    DEF TcpPeer, TcpConnect, Enqueue, TcpSegment, TcpShutdown, TcpLeaves, Peaceful
  <2>2. QED
    BY <1>1, <1>2, <1>3, <1>5, <2>1 DEF Attended
<1>6. \A c \in Clients : arrived'[c] <= FrameLength(c)
  <2>1. CASE TcpSegment(d)
    <3>1. PICK n \in {m \in CutPoints : m < FrameLength(d)} \cup {FrameLength(d)} :
            arrived' = [arrived EXCEPT ![d] = n]
      BY <2>1 DEF TcpSegment
    <3>2. FrameLength(d) \in Nat /\ n \in Nat /\ n <= FrameLength(d)
      BY <1>1, FrameLengthType, CutPointsAssumption
    <3>3. QED
      BY <3>1, <3>2, AnswerTypes DEF CalmInv
  <2>2. CASE ~TcpSegment(d)
    BY <2>2 DEF TcpPeer, TcpConnect, TcpShutdown, TcpLeaves, CalmInv
  <2>3. QED
    BY <2>1, <2>2
<1>7. QED
  BY <1>2, <1>4, <1>5, <1>6 DEF CalmInv, Peaceful

(* Nor does the kernel: the end of an orphan and of a timer is of no       *)
(* account.                                                                *)
LEMMA CalmKernel == TypeOK /\ CalmInv /\ Kernel => CalmInv'
<1> SUFFICES ASSUME TypeOK, CalmInv, Kernel PROVE CalmInv'
  OBVIOUS
<1>1. UNCHANGED <<pc, appUp, cpc, open, arrived, reply>>
  BY DEF Kernel, TimeWaitExpires, ChildExits, serverVars, clientVars
<1>2. \A c \in Clients :
        conn'[c] = conn[c] \/ (conn[c] = "orphaned" /\ conn'[c] = "closed")
  BY OwnTypes DEF Kernel, TimeWaitExpires, ChildExits, CloseServerEnd
<1>3. /\ Attended => Attended'
      /\ Excused => Excused'
      /\ \A c \in UnixClients : Abandoned(c) => Abandoned(c)'
  BY <1>1, <1>2 DEF Attended, Excused, Abandoned, Clients
<1>4. QED
  BY <1>1, <1>3 DEF CalmInv, Peaceful

(* A step that changes nothing disturbs nothing.                           *)
LEMMA CalmStutter == CalmInv /\ UNCHANGED vars => CalmInv'
BY DEF CalmInv, Peaceful, Attended, Excused, Abandoned, vars, socketVars,
       serverVars, clientVars

(* Left in peace by TCP peers and by whoever kills servers, the server     *)
(* dies only of the answer to a thread of the app that has ended, and      *)
(* threads end unanswered only with an app that was killed or that found   *)
(* no listener.                                                            *)
THEOREM CascadeFree == Spec => []NoCascade
<1>1. TypeOK /\ OwnInv /\ AnswerInv /\ WaitInv /\ CalmInv /\ [Next]_vars => CalmInv'
  BY CalmServer, CalmThread, CalmUser, CalmTcpPeer, CalmKernel, CalmStutter
  DEF Next
<1>2. CalmInv => NoCascade
  BY DEF CalmInv, Excused, NoCascade
<1>3. QED
  BY CalmInit, <1>1, <1>2, TypeCorrect, Owned, Answered, WaitsKept, PTL DEF Spec

-----------------------------------------------------------------------------
(* How often a listener can be overtaken.                                  *)

StartInv ==
  /\ \A l \in Listeners : queue[l] # <<>> => fd[l] = "listening"
  /\ pc \in {"dead", "start_unix_socket", "bind"} => \A l \in Listeners : fd[l] = "none"
  /\ pc = "start_tcp_socket" => fd["tcp"] = "none"

(* How often l can have been overtaken, by what is left of the round.      *)
Bound(l) ==
  IF l \in ready
  THEN IF l = "tcp" /\ "unix" \notin ready THEN 2 ELSE 1
  ELSE IF ready = {} THEN 1 ELSE 0

TurnInv ==
  /\ pc \notin {"scan"} \cup Serving => ready = {}
  /\ \A l \in Listeners : overtaken[l] <= Bound(l)
  /\ \A l \in Listeners : queue[l] = <<>> => overtaken[l] = 0

BypassInv == StartInv /\ TurnInv

(* The facts about types that the proof on turns uses.                     *)
LEMMA BypassTypes ==
  TypeOK =>
    /\ ready \subseteq {"unix", "tcp"}
    /\ overtaken \in [Listeners -> Nat]
    /\ fd \in [Listeners -> {"none", "listening", "failed", "inuse"}]
    /\ queue \in [Listeners -> Seq(Clients)]
BY DEF TypeOK, SocketsTypeOK, ServerTypeOK, Listeners

(* Nobody is overtaken before the server listens.                          *)
LEMMA BypassInit == Init => BypassInv
BY DEF Init, SocketsInit, ServerInit, BypassInv, StartInv, TurnInv, Bound,
       Listeners, Serving

(* Steps between two turns.                                                *)
LEMMA BypassKept ==
  ASSUME BypassInv, UNCHANGED <<fd, queue, ready, overtaken>>,
         \/ pc' = pc
         \/ pc \in Serving /\ pc' \in Serving
         \/ pc \in Serving /\ pc' = AfterHandle(ready)
         \/ pc = "dead" /\ pc' = "start_unix_socket"
  PROVE  BypassInv'
BY DEF BypassInv, StartInv, TurnInv, Bound, Serving, AfterHandle

(* A connection that joins a queue overtakes nobody.                       *)
LEMMA BypassEnqueue ==
  ASSUME TypeOK, BypassInv, NEW c \in Clients, Enqueue(c),
         UNCHANGED <<fd, ready, overtaken, pc>>
  PROVE  BypassInv'
<1> DEFINE m == ListenerOf(c)
<1>1. /\ m \in Listeners /\ fd[m] = "listening"
      /\ queue' = [queue EXCEPT ![m] = Append(@, c)]
  BY DEF Enqueue, ListenerOf, Listeners
<1>2. queue'[m] # <<>> /\ \A l \in Listeners : l # m => queue'[l] = queue[l]
  BY <1>1, BypassTypes
<1>3. QED
  BY <1>1, <1>2 DEF BypassInv, StartInv, TurnInv, Bound

(* A turn of a listener: its own count starts afresh, that of the other    *)
(* grows.                                                                  *)
LEMMA BypassAccept ==
  ASSUME TypeOK, BypassInv, NEW m \in Listeners, Accept(m)
  PROVE  BypassInv'
<1>1. /\ pc = "scan" /\ pc' = "getsockopt" /\ UNCHANGED fd
      /\ queue' = [queue EXCEPT ![m] = Tail(@)] /\ queue[m] # <<>>
      /\ ready' = ready \ {m} /\ NextToHandle(m) /\ TurnOf(m)
  BY DEF Accept
<1>2. /\ m \in ready /\ (m = "tcp" => "unix" \notin ready)
      /\ Other(m) \in Listeners /\ Other(m) # m
      /\ \A l \in Listeners : l = m \/ l = Other(m)
      /\ ready \subseteq {m, Other(m)}
  BY <1>1, BypassTypes DEF NextToHandle, Other, Listeners
<1>3. /\ overtaken'[m] = 0
      /\ queue[Other(m)] = <<>> => overtaken'[Other(m)] = 0
      /\ queue[Other(m)] # <<>> => overtaken'[Other(m)] = overtaken[Other(m)] + 1
      /\ queue'[Other(m)] = queue[Other(m)]
  BY <1>1, <1>2, BypassTypes DEF TurnOf
<1>4. StartInv'
  <2>1. \A l \in Listeners : queue'[l] # <<>> => queue[l] # <<>>
    BY <1>1, <1>2, <1>3
  <2>2. QED
    BY <1>1, <2>1 DEF BypassInv, StartInv
<1>5. overtaken[Other(m)] + 1 <= Bound(Other(m))' /\ 0 <= Bound(Other(m))' /\ 0 <= Bound(m)'
  <2>1. overtaken[Other(m)] \in Nat /\ overtaken[Other(m)] <= Bound(Other(m))
    BY <1>2, BypassTypes DEF BypassInv, TurnInv
  <2>2. CASE m = "unix"
    <3>1. /\ "tcp" \in ready => Bound("tcp") = 1 /\ Bound("tcp")' = 2
          /\ "tcp" \notin ready => Bound("tcp") = 0 /\ Bound("tcp")' = 1
      BY <1>1, <1>2, <2>2 DEF Bound, Other
    <3>2. QED
      BY <2>1, <2>2, <3>1 DEF Bound, Other
  <2>3. CASE m = "tcp"
    <3>1. Bound("unix") = 0 /\ Bound("unix")' = 1
      BY <1>1, <1>2, <2>3 DEF Bound, Other
    <3>2. QED
      BY <2>1, <2>3, <3>1 DEF Bound, Other
  <2>4. QED
    BY <2>2, <2>3 DEF Listeners
<1>6. TurnInv'
  BY <1>1, <1>2, <1>3, <1>5 DEF BypassInv, TurnInv, Serving
<1>7. QED
  BY <1>4, <1>6 DEF BypassInv

(* An accept() that fails is a turn all the same.                          *)
LEMMA BypassAcceptFails ==
  ASSUME TypeOK, BypassInv, NEW m \in Listeners, AcceptFails(m)
  PROVE  BypassInv'
<1>1. /\ pc = "scan" /\ pc' = AfterHandle(ready') /\ UNCHANGED <<fd, queue>>
      /\ ready' = ready \ {m} /\ NextToHandle(m)
      /\ overtaken' = [overtaken EXCEPT ![m] = 0]
  BY DEF AcceptFails, socketVars
<1>2. /\ m \in ready /\ (m = "tcp" => "unix" \notin ready)
      /\ ready \subseteq {"unix", "tcp"}
  BY <1>1, BypassTypes DEF NextToHandle
<1>3. StartInv'
  BY <1>1 DEF BypassInv, StartInv, AfterHandle
<1>4. \A l \in Listeners : overtaken'[l] <= Bound(l)'
  <2>1. \A l \in Listeners : overtaken[l] \in Nat /\ overtaken[l] <= Bound(l)
    BY BypassTypes DEF BypassInv, TurnInv
  <2>2. \A l \in Listeners : l # m => Bound(l) <= Bound(l)'
    BY <1>1, <1>2 DEF Bound, Listeners
  <2>3. \A l \in Listeners : Bound(l) \in Nat /\ Bound(l)' \in Nat
    BY DEF Bound
  <2>4. QED
    BY <1>1, <2>1, <2>2, <2>3, BypassTypes
<1>5. TurnInv'
  BY <1>1, <1>4, BypassTypes DEF BypassInv, TurnInv, AfterHandle
<1>6. QED
  BY <1>3, <1>5 DEF BypassInv

(* poll() reports every listener on which a connection waits.              *)
LEMMA BypassPoll == ASSUME TypeOK, BypassInv, Poll PROVE BypassInv'
<1>1. /\ pc = "poll" /\ pc' = "scan" /\ ready' = Readable
      /\ UNCHANGED <<fd, queue, overtaken>>
  BY DEF Poll, socketVars
<1>2. ready = {} /\ \A l \in Listeners : overtaken[l] \in Nat /\ overtaken[l] <= 1
  BY <1>1, BypassTypes DEF BypassInv, TurnInv, Bound, Serving
<1>3. \A l \in Listeners : l \notin Readable => overtaken[l] = 0
  BY DEF BypassInv, StartInv, TurnInv, Readable
<1>4. \A l \in Listeners : Bound(l)' \in Nat /\ (l \in Readable => 1 <= Bound(l)')
  BY <1>1 DEF Bound
<1>5. QED
  BY <1>1, <1>2, <1>3, <1>4 DEF BypassInv, StartInv, TurnInv

(* A server that starts has empty queues and overtakes nobody.             *)
LEMMA BypassStart ==
  ASSUME TypeOK, BypassInv, StartUnixSocket \/ BindUnixSocket \/ StartTcpSocket PROVE BypassInv'
<1>1. UNCHANGED <<queue, ready, overtaken>>
  BY DEF StartUnixSocket, BindUnixSocket, StartTcpSocket
<1>2. pc' \in {"bind", "start_tcp_socket", "poll"} /\ ready = {}
  BY DEF StartUnixSocket, BindUnixSocket, StartTcpSocket, BypassInv, TurnInv, Serving
<1>3. StartInv'
  BY <1>1, BypassTypes DEF StartUnixSocket, BindUnixSocket, StartTcpSocket, BypassInv, StartInv, Listeners
<1>4. TurnInv'
  BY <1>1, <1>2 DEF BypassInv, TurnInv, Bound, Serving
<1>5. QED
  BY <1>3, <1>4 DEF BypassInv

(* A server that has died overtakes nobody.                                *)
LEMMA BypassDies == ASSUME ServerDies PROVE BypassInv'
BY DEF ServerDies, ServerSocketsDie, BypassInv, StartInv, TurnInv, Bound, Serving, Listeners

(* Every step of the system keeps the bound on turns.                      *)
LEMMA BypassStep == TypeOK /\ BypassInv /\ [Next]_vars => BypassInv'
<1> SUFFICES ASSUME TypeOK, BypassInv, [Next]_vars PROVE BypassInv'
  OBVIOUS
<1>1. CASE Server \/ ServerEnvironment
  <2>1. CASE GetsockoptSucceeds \/ GetsockoptFails \/ Recv \/ RecvNothing
    BY <2>1, BypassKept
    DEF GetsockoptSucceeds, GetsockoptFails, Recv, RecvNothing, Serving, socketVars
  <2>2. CASE SystemReturns \/ SendReply \/ Restart
    BY <2>2, BypassKept
    DEF SystemReturns, SendReply, Restart, Serving, socketVars
  <2>3. CASE SendSigpipe \/ RecvOverruns \/ ServerKilled
    BY <2>3, BypassDies DEF SendSigpipe, RecvOverruns, ServerKilled
  <2>4. QED
    BY <1>1, <2>1, <2>2, <2>3, BypassStart, BypassPoll, BypassAccept, BypassAcceptFails
    DEF Server, ServerStep, ServerEnvironment
<1>2. CASE \E c \in UnixClients : Thread(c)
  <2>1. PICK c \in UnixClients : Thread(c)
    BY <1>2
  <2>2. c \in Clients /\ UNCHANGED <<ready, overtaken, pc>>
    BY <2>1 DEF Clients, Thread, serverVars
  <2>3. CASE Connect(c)
    BY <2>2, <2>3, BypassEnqueue DEF Connect
  <2>4. CASE ConnectRefused(c) \/ Write(c) \/ WriteToNull(c) \/ ReadResponse(c)
    BY <2>2, <2>4, BypassKept
    DEF ConnectRefused, Write, WriteToNull, AppDies, ReadResponse
  <2>5. QED
    BY <2>1, <2>3, <2>4 DEF Thread, ThreadStep
<1>3. CASE User
  BY <1>3, BypassKept
  DEF User, AppKilled, AppDies, Launch, Click, serverVars, socketVars
<1>4. CASE \E c \in TcpClients : TcpPeer(c)
  <2>1. PICK c \in TcpClients : TcpPeer(c)
    BY <1>4
  <2>2. c \in Clients /\ UNCHANGED <<ready, overtaken, pc>>
    BY <2>1 DEF Clients, TcpPeer, serverVars
  <2>3. CASE TcpConnect(c)
    BY <2>2, <2>3, BypassEnqueue DEF TcpConnect
  <2>4. CASE TcpSegment(c) \/ TcpShutdown(c) \/ TcpLeaves(c)
    BY <2>2, <2>4, BypassKept DEF TcpSegment, TcpShutdown, TcpLeaves
  <2>5. QED
    BY <2>1, <2>3, <2>4 DEF TcpPeer
<1>5. CASE Kernel
  BY <1>5, BypassKept DEF Kernel, TimeWaitExpires, ChildExits, serverVars
<1>6. CASE UNCHANGED vars
  BY <1>6, BypassKept DEF vars, socketVars, serverVars
<1>7. QED
  BY <1>1, <1>2, <1>3, <1>4, <1>5, <1>6 DEF Next

(* A listener on which a connection waits is overtaken at most twice, and  *)
(* at most once before poll() reports it, whatever the other one has to    *)
(* serve.                                                                  *)
THEOREM BypassBounded == Spec => []BoundedBypass
<1>1. TypeOK /\ BypassInv => BoundedBypass
  <2>1. SUFFICES ASSUME TypeOK, BypassInv, NEW l \in Listeners
                 PROVE  overtaken[l] <= IF pc = "poll" THEN 1 ELSE 2
    BY DEF BoundedBypass
  <2>2. overtaken[l] \in Nat /\ overtaken[l] <= Bound(l)
    BY <2>1, BypassTypes DEF BypassInv, TurnInv
  <2>3. pc = "poll" => ready = {}
    BY <2>1 DEF BypassInv, TurnInv, Serving
  <2>4. QED
    BY <2>2, <2>3 DEF Bound
<1>2. QED
  BY BypassInit, BypassStep, <1>1, TypeCorrect, PTL DEF Spec
=============================================================================
