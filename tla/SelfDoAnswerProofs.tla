------------------------- MODULE SelfDoAnswerProofs -------------------------
(***************************************************************************)
(* Type correctness, and what becomes of a connection and of the command   *)
(* on it, for every set of clients, every backlog, every payload and every *)
(* combination of failures.  OwnInv says where a connection is: in one     *)
(* queue, or in the hands of handle_set_fd().  AnswerInv says, for each    *)
(* stage the server can be in, what has been done with the command it      *)
(* holds.  Each is inductive given the one before it.                      *)
(***************************************************************************)
EXTENDS SelfDo, TLAPS

-----------------------------------------------------------------------------
(* Type correctness: one lemma for each disjunct of Next.                  *)

(* The initial states are of the right types.                              *)
LEMMA TypeOKInit == Init => TypeOK
BY DEF Init, SocketsInit, ServerInit, ClientInit,
       TypeOK, SocketsTypeOK, ServerTypeOK, ClientTypeOK, Replies

(* The calls of jconfigserver.                                             *)
LEMMA TypeOKServer == TypeOK /\ Server => TypeOK'
<1> SUFFICES ASSUME TypeOK, Server PROVE TypeOK'
  OBVIOUS
<1>1. ClientTypeOK'
  BY DEF Server, TypeOK, ClientTypeOK, clientVars
<1>2. CASE StartUnixSocket \/ BindUnixSocket
  <2>1. SocketsTypeOK'
    BY <1>2 DEF TypeOK, SocketsTypeOK, StartUnixSocket, BindUnixSocket
  <2>2. ServerTypeOK'
    BY <1>2 DEF TypeOK, ServerTypeOK, StartUnixSocket, BindUnixSocket, runVars
  <2>3. QED
    BY <1>1, <2>1, <2>2 DEF TypeOK
<1>3. CASE StartTcpSocket
  <2>1. SocketsTypeOK'
    BY <1>3 DEF TypeOK, SocketsTypeOK, StartTcpSocket
  <2>2. ServerTypeOK'
    BY <1>3 DEF TypeOK, ServerTypeOK, StartTcpSocket, runVars
  <2>3. QED
    BY <1>1, <2>1, <2>2 DEF TypeOK
<1>4. CASE Poll
  <2>1. SocketsTypeOK'
    BY <1>4 DEF TypeOK, SocketsTypeOK, Poll, socketVars
  <2>2. ServerTypeOK'
    BY <1>4 DEF TypeOK, ServerTypeOK, Poll, Readable, runVars
  <2>3. QED
    BY <1>1, <2>1, <2>2 DEF TypeOK
<1>5. CASE \E l \in Listeners : Accept(l)
  <2>1. PICK l \in Listeners : Accept(l)
    BY <1>5
  <2>2. SocketsTypeOK'
    BY <2>1 DEF TypeOK, SocketsTypeOK, Accept
  <2>3. overtaken' \in [Listeners -> Nat]
    <3>1. overtaken \in [Listeners -> Nat]
      BY DEF TypeOK, ServerTypeOK
    <3>2. TurnOf(l)
      BY <2>1 DEF Accept
    <3>3. Other(l) \in Listeners
      BY DEF Other, Listeners
    <3>4. QED
      BY <2>1, <3>1, <3>2, <3>3 DEF TurnOf
  <2>4. cur' \in Clients
    BY <2>1 DEF TypeOK, SocketsTypeOK, Accept
  <2>5. ServerTypeOK'
    BY <2>1, <2>3, <2>4 DEF TypeOK, ServerTypeOK, Accept, runVars, Serving
  <2>6. QED
    BY <1>1, <2>2, <2>5 DEF TypeOK
<1>6. CASE \E l \in Listeners : AcceptFails(l)
  <2>1. SocketsTypeOK'
    BY <1>6 DEF TypeOK, SocketsTypeOK, AcceptFails, socketVars
  <2>2. ServerTypeOK'
    BY <1>6 DEF TypeOK, ServerTypeOK, AcceptFails, AfterHandle, runVars
  <2>3. QED
    BY <1>1, <2>1, <2>2 DEF TypeOK
<1>7. CASE GetsockoptSucceeds
  <2>1. SocketsTypeOK'
    BY <1>7 DEF TypeOK, SocketsTypeOK, GetsockoptSucceeds, socketVars
  <2>2. ServerTypeOK'
    BY <1>7 DEF TypeOK, ServerTypeOK, GetsockoptSucceeds, runVars, Serving
  <2>3. QED
    BY <1>1, <2>1, <2>2 DEF TypeOK
<1>8. CASE GetsockoptFails
  <2>1. SocketsTypeOK'
    BY <1>8 DEF TypeOK, SocketsTypeOK, GetsockoptFails, CloseServerEnd, LeavesTimeWait
  <2>2. ServerTypeOK'
    BY <1>8 DEF TypeOK, ServerTypeOK, GetsockoptFails, AfterHandle, runVars
  <2>3. QED
    BY <1>1, <2>1, <2>2 DEF TypeOK
<1>9. CASE Recv
  <2>1. SocketsTypeOK'
    BY <1>9 DEF TypeOK, SocketsTypeOK, Recv, socketVars
  <2>2. ServerTypeOK'
    BY <1>9 DEF TypeOK, ServerTypeOK, Recv, PossibleTexts, Serving
  <2>3. QED
    BY <1>1, <2>1, <2>2 DEF TypeOK
<1>10. CASE RecvNothing
  <2>1. SocketsTypeOK'
    BY <1>10 DEF TypeOK, SocketsTypeOK, RecvNothing, socketVars
  <2>2. ServerTypeOK'
    BY <1>10 DEF TypeOK, ServerTypeOK, RecvNothing, runVars, Serving
  <2>3. QED
    BY <1>1, <2>1, <2>2 DEF TypeOK
<1>11. CASE SendReply
  <2>1. SocketsTypeOK'
    BY <1>11 DEF TypeOK, SocketsTypeOK, SendReply, CloseServerEnd, Answer, LeavesTimeWait, Replies
  <2>2. ServerTypeOK'
    BY <1>11 DEF TypeOK, ServerTypeOK, SendReply, AfterHandle, runVars
  <2>3. QED
    BY <1>1, <2>1, <2>2 DEF TypeOK
<1>12. CASE SendSigpipe
  <2>1. SocketsTypeOK'
    BY <1>12 DEF TypeOK, SocketsTypeOK, SendSigpipe, ServerDies, ServerSocketsDie, LeavesTimeWait
  <2>2. ServerTypeOK'
    BY <1>12 DEF TypeOK, ServerTypeOK, SendSigpipe, ServerDies, runVars
  <2>3. QED
    BY <1>1, <2>1, <2>2 DEF TypeOK
<1>13. CASE RecvOverruns
  <2>1. SocketsTypeOK'
    BY <1>13 DEF TypeOK, SocketsTypeOK, RecvOverruns, ServerDies, ServerSocketsDie, LeavesTimeWait
  <2>2. ServerTypeOK'
    BY <1>13 DEF TypeOK, ServerTypeOK, RecvOverruns, ServerDies, runVars
  <2>3. QED
    BY <1>1, <2>1, <2>2 DEF TypeOK
<1>14. QED
  BY <1>2, <1>3, <1>4, <1>5, <1>6, <1>7, <1>8, <1>9, <1>10, <1>11, <1>12, <1>13 DEF Server, ServerStep

(* The end of a command, and the death and the restart of the server.      *)
LEMMA TypeOKServerEnvironment == TypeOK /\ ServerEnvironment => TypeOK'
<1> SUFFICES ASSUME TypeOK, ServerEnvironment PROVE TypeOK'
  OBVIOUS
<1>1. ClientTypeOK'
  BY DEF ServerEnvironment, TypeOK, ClientTypeOK, clientVars
<1>2. CASE SystemReturns
  <2>1. SocketsTypeOK'
    BY <1>2 DEF TypeOK, SocketsTypeOK, SystemReturns, socketVars
  <2>2. ServerTypeOK'
    BY <1>2 DEF TypeOK, ServerTypeOK, SystemReturns, Serving
  <2>3. QED
    BY <1>1, <2>1, <2>2 DEF TypeOK
<1>3. CASE ServerKilled
  <2>1. SocketsTypeOK'
    BY <1>3 DEF TypeOK, SocketsTypeOK, ServerKilled, ServerDies, ServerSocketsDie, LeavesTimeWait
  <2>2. ServerTypeOK'
    BY <1>3 DEF TypeOK, ServerTypeOK, ServerKilled, ServerDies, runVars
  <2>3. QED
    BY <1>1, <2>1, <2>2 DEF TypeOK
<1>4. CASE Restart
  <2>1. SocketsTypeOK'
    BY <1>4 DEF TypeOK, SocketsTypeOK, Restart, socketVars
  <2>2. ServerTypeOK'
    BY <1>4 DEF TypeOK, ServerTypeOK, Restart, runVars
  <2>3. QED
    BY <1>1, <2>1, <2>2 DEF TypeOK
<1>5. QED
  BY <1>2, <1>3, <1>4 DEF ServerEnvironment

(* A message has a length.                                                 *)
LEMMA FrameLengthType == \A c \in Clients : FrameLength(c) \in Nat
BY PayloadAssumption DEF FrameLength, HEAD

(* The calls of a button thread of the app.                                *)
LEMMA TypeOKThread == TypeOK /\ (\E c \in UnixClients : Thread(c)) => TypeOK'
<1> SUFFICES ASSUME TypeOK, NEW c \in UnixClients, Thread(c) PROVE TypeOK'
  OBVIOUS
<1>1. ServerTypeOK'
  BY DEF Thread, TypeOK, ServerTypeOK, serverVars
<1>2. c \in Clients
  BY DEF Clients
<1>3. CASE Connect(c)
  <2>1. SocketsTypeOK'
    BY <1>2, <1>3 DEF TypeOK, SocketsTypeOK, Connect, Enqueue, ListenerOf, Listeners
  <2>2. ClientTypeOK'
    BY <1>3 DEF TypeOK, ClientTypeOK, Connect, Live
  <2>3. QED
    BY <1>1, <2>1, <2>2 DEF TypeOK
<1>4. CASE ConnectRefused(c)
  <2>1. SocketsTypeOK'
    BY <1>2, <1>4 DEF TypeOK, SocketsTypeOK, ConnectRefused
  <2>2. ClientTypeOK'
    BY <1>4 DEF TypeOK, ClientTypeOK, ConnectRefused, Live
  <2>3. QED
    BY <1>1, <2>1, <2>2 DEF TypeOK
<1>5. CASE Write(c)
  <2>1. SocketsTypeOK'
    BY <1>2, <1>5, FrameLengthType DEF TypeOK, SocketsTypeOK, Write
  <2>2. ClientTypeOK'
    BY <1>5 DEF TypeOK, ClientTypeOK, Write, Live
  <2>3. QED
    BY <1>1, <2>1, <2>2 DEF TypeOK
<1>6. CASE WriteToNull(c)
  <2>1. SocketsTypeOK'
    BY <1>2, <1>6 DEF TypeOK, SocketsTypeOK, WriteToNull, AppDies
  <2>2. ClientTypeOK'
    BY <1>6 DEF TypeOK, ClientTypeOK, WriteToNull, AppDies, Live
  <2>3. QED
    BY <1>1, <2>1, <2>2 DEF TypeOK
<1>7. CASE ReadResponse(c)
  <2>1. SocketsTypeOK'
    BY <1>2, <1>7 DEF TypeOK, SocketsTypeOK, ReadResponse
  <2>2. ClientTypeOK'
    BY <1>7 DEF TypeOK, ClientTypeOK, ReadResponse, Live
  <2>3. QED
    BY <1>1, <2>1, <2>2 DEF TypeOK
<1>8. QED
  BY <1>3, <1>4, <1>5, <1>6, <1>7 DEF Thread, ThreadStep

(* Clicks, and the death and the launch of the app.                        *)
LEMMA TypeOKUser == TypeOK /\ User => TypeOK'
<1> SUFFICES ASSUME TypeOK, User PROVE TypeOK'
  OBVIOUS
<1>1. ServerTypeOK'
  BY DEF User, TypeOK, ServerTypeOK, serverVars
<1>2. CASE AppKilled
  <2>1. SocketsTypeOK'
    BY <1>2 DEF TypeOK, SocketsTypeOK, AppKilled, AppDies
  <2>2. ClientTypeOK'
    BY <1>2 DEF TypeOK, ClientTypeOK, AppKilled, AppDies, Live
  <2>3. QED
    BY <1>1, <2>1, <2>2 DEF TypeOK
<1>3. CASE Launch
  <2>1. SocketsTypeOK'
    BY <1>3 DEF TypeOK, SocketsTypeOK, Launch, socketVars
  <2>2. ClientTypeOK'
    BY <1>3 DEF TypeOK, ClientTypeOK, Launch
  <2>3. QED
    BY <1>1, <2>1, <2>2 DEF TypeOK
<1>4. CASE \E c \in UnixClients : Click(c)
  <2>1. SocketsTypeOK'
    BY <1>4 DEF TypeOK, SocketsTypeOK, Click, socketVars
  <2>2. ClientTypeOK'
    BY <1>4 DEF TypeOK, ClientTypeOK, Click, Live
  <2>3. QED
    BY <1>1, <2>1, <2>2 DEF TypeOK
<1>5. QED
  BY <1>2, <1>3, <1>4 DEF User

(* The steps of the peers of port 4444.                                    *)
LEMMA TypeOKTcpPeer == TypeOK /\ (\E c \in TcpClients : TcpPeer(c)) => TypeOK'
<1> SUFFICES ASSUME TypeOK, NEW c \in TcpClients, TcpPeer(c) PROVE TypeOK'
  OBVIOUS
<1>1. c \in Clients /\ FrameLength(c) \in Nat
  BY FrameLengthType DEF Clients
<1>2. ServerTypeOK' /\ ClientTypeOK'
  BY DEF TcpPeer, TcpConnect, TcpSegment, TcpShutdown, TcpLeaves,
         TypeOK, ServerTypeOK, serverVars, ClientTypeOK, clientVars
<1>3. CASE TcpConnect(c)
  <2>1. SocketsTypeOK'
    BY <1>1, <1>3 DEF TypeOK, SocketsTypeOK, TcpConnect, Enqueue, ListenerOf, Listeners
  <2>2. QED
    BY <1>2, <2>1 DEF TypeOK
<1>4. CASE TcpSegment(c)
  <2>1. SocketsTypeOK'
    BY <1>1, <1>4, CutPointsAssumption DEF TypeOK, SocketsTypeOK, TcpSegment
  <2>2. QED
    BY <1>2, <2>1 DEF TypeOK
<1>5. CASE TcpShutdown(c)
  <2>1. SocketsTypeOK'
    BY <1>1, <1>5 DEF TypeOK, SocketsTypeOK, TcpShutdown
  <2>2. QED
    BY <1>2, <2>1 DEF TypeOK
<1>6. CASE TcpLeaves(c)
  <2>1. SocketsTypeOK'
    BY <1>1, <1>6 DEF TypeOK, SocketsTypeOK, TcpLeaves
  <2>2. QED
    BY <1>2, <2>1 DEF TypeOK
<1>7. QED
  BY <1>3, <1>4, <1>5, <1>6 DEF TcpPeer

(* The exit of a child of system(), and the TIME_WAIT timer.               *)
LEMMA TypeOKKernel == TypeOK /\ Kernel => TypeOK'
BY DEF TypeOK, SocketsTypeOK, Kernel, TimeWaitExpires, ChildExits, CloseServerEnd,
       LeavesTimeWait, ServerTypeOK, serverVars, runVars, ClientTypeOK, clientVars

(* Steps that change nothing.                                              *)
LEMMA TypeOKStutter == TypeOK /\ UNCHANGED vars => TypeOK'
BY DEF TypeOK, SocketsTypeOK, ServerTypeOK, ClientTypeOK,
       vars, socketVars, serverVars, clientVars

(* Type correctness.  The invariant is inductive as it stands.             *)
THEOREM TypeCorrect == Spec => []TypeOK
<1>1. TypeOK /\ [Next]_vars => TypeOK'
  BY TypeOKServer, TypeOKServerEnvironment, TypeOKThread, TypeOKUser,
     TypeOKTcpPeer, TypeOKKernel, TypeOKStutter
  DEF Next
<1>2. QED
  BY TypeOKInit, <1>1, PTL DEF Spec


-----------------------------------------------------------------------------
(* Who owns a connection: the queue of a listener, or the one call of      *)
(* handle_set_fd(), and never two of them.                                 *)

Within(q, W) == \A i \in 1 .. Len(q) : q[i] \in W
Distinct(q) == \A i, j \in 1 .. Len(q) : q[i] = q[j] => i = j

Waiting(l) == {c \in Clients : conn[c] = "queued" /\ ListenerOf(c) = l}

CurInv ==
  /\ cur \in Clients <=> pc \in Serving
  /\ \A c \in Clients : conn[c] = "accepted" <=> c = cur
FreshInv == \A c \in UnixClients : cpc[c] \in {"idle", "connect"} => conn[c] = "none"
QueueInv == \A l \in Listeners : Within(queue[l], Waiting(l)) /\ Distinct(queue[l])

OwnInv == CurInv /\ FreshInv /\ QueueInv

(* What append and tail do to a sequence without repetitions.              *)
LEMMA AppendDistinct ==
  ASSUME NEW S, NEW q \in Seq(S), NEW W, NEW c \in S,
         Within(q, W), Distinct(q), c \notin W
  PROVE  Within(Append(q, c), W \cup {c}) /\ Distinct(Append(q, c))
<1>1. /\ Len(Append(q, c)) = Len(q) + 1
      /\ Len(q) \in Nat
      /\ \A i \in 1 .. Len(q) : Append(q, c)[i] = q[i]
      /\ Append(q, c)[Len(q) + 1] = c
  OBVIOUS
<1>2. QED
  BY <1>1 DEF Within, Distinct

(* Accepting the oldest connection leaves the others, each once, and not   *)
(* the accepted one.                                                       *)
LEMMA TailDistinct ==
  ASSUME NEW S, NEW q \in Seq(S), NEW W,
         Within(q, W), Distinct(q), q # <<>>
  PROVE  /\ Head(q) \in W
         /\ Within(Tail(q), W \ {Head(q)})
         /\ Distinct(Tail(q))
<1>1. /\ Len(q) \in Nat \ {0}
      /\ Len(Tail(q)) = Len(q) - 1
      /\ \A i \in 1 .. Len(Tail(q)) : Tail(q)[i] = q[i + 1]
      /\ Head(q) = q[1]
  OBVIOUS
<1>2. QED
  BY <1>1 DEF Within, Distinct

(* An empty queue, as a server has when it starts, repeats nothing.        *)
LEMMA EmptyDistinct == \A W : Within(<<>>, W) /\ Distinct(<<>>)
BY DEF Within, Distinct

(* A queue within a set is within a larger one.                            *)
LEMMA WithinMore ==
  ASSUME NEW q, NEW V, NEW W, Within(q, V), V \subseteq W
  PROVE  Within(q, W)
BY DEF Within

(* The connections a step leaves waiting keep their place.                 *)
LEMMA QueueKept ==
  ASSUME QueueInv, UNCHANGED queue,
         \A c \in Clients : conn[c] = "queued" => conn'[c] = "queued"
  PROVE  QueueInv'
<1>1. \A l \in Listeners : Waiting(l) \subseteq Waiting(l)'
  BY DEF Waiting
<1>2. QED
  BY <1>1, WithinMore DEF QueueInv

(* The queues of a server that dies are empty.                             *)
LEMMA QueueDropped ==
  ASSUME queue' = [l \in Listeners |-> <<>>] PROVE QueueInv'
BY EmptyDistinct DEF QueueInv

(* connect() puts at the end of one queue a connection that waits on none. *)
LEMMA QueueAppended ==
  ASSUME TypeOK, QueueInv, NEW c \in Clients, conn[c] # "queued", Enqueue(c)
  PROVE  QueueInv'
<1> DEFINE m == ListenerOf(c)
<1>1. /\ m \in Listeners
      /\ queue \in [Listeners -> Seq(Clients)]
      /\ queue' = [queue EXCEPT ![m] = Append(@, c)]
      /\ \A d \in Clients : conn'[d] = IF d = c THEN "queued" ELSE conn[d]
  BY DEF TypeOK, SocketsTypeOK, Enqueue, ListenerOf, Listeners
<1>2. SUFFICES ASSUME NEW l \in Listeners
               PROVE  Within(queue'[l], Waiting(l)') /\ Distinct(queue'[l])
  BY DEF QueueInv
<1>3. Within(queue[l], Waiting(l)) /\ Distinct(queue[l])
  BY DEF QueueInv
<1>4. CASE l = m
  <2>1. c \notin Waiting(l)
    BY DEF Waiting
  <2>2. Within(Append(queue[l], c), Waiting(l) \cup {c}) /\ Distinct(Append(queue[l], c))
    BY <1>1, <1>3, <2>1, AppendDistinct
  <2>3. Waiting(l) \cup {c} \subseteq Waiting(l)'
    BY <1>1, <1>4 DEF Waiting
  <2>4. QED
    BY <1>1, <1>4, <2>2, <2>3, WithinMore
<1>5. CASE l # m
  <2>1. Waiting(l) \subseteq Waiting(l)'
    BY <1>1 DEF Waiting
  <2>2. QED
    BY <1>1, <1>3, <1>5, <2>1, WithinMore
<1>6. QED
  BY <1>4, <1>5

(* accept() takes from one queue its oldest connection, which was there    *)
(* once.                                                                   *)
LEMMA QueueShortened ==
  ASSUME TypeOK, QueueInv, NEW m \in Listeners, Accept(m)
  PROVE  Head(queue[m]) \in Waiting(m) /\ QueueInv'
<1> DEFINE c == Head(queue[m])
<1>1. /\ queue \in [Listeners -> Seq(Clients)]
      /\ queue[m] # <<>>
      /\ queue' = [queue EXCEPT ![m] = Tail(@)]
      /\ \A d \in Clients : conn'[d] = IF d = c THEN "accepted" ELSE conn[d]
  BY DEF TypeOK, SocketsTypeOK, Accept
<1>2. \A l \in Listeners : Within(queue[l], Waiting(l)) /\ Distinct(queue[l])
  BY DEF QueueInv
<1>3. /\ c \in Waiting(m)
      /\ Within(Tail(queue[m]), Waiting(m) \ {c})
      /\ Distinct(Tail(queue[m]))
  BY <1>1, <1>2, TailDistinct
<1>4. ASSUME NEW l \in Listeners
      PROVE  Within(queue'[l], Waiting(l)') /\ Distinct(queue'[l])
  <2>1. Waiting(l) \ {c} \subseteq Waiting(l)'
    BY <1>1 DEF Waiting
  <2>2. CASE l = m
    BY <1>1, <1>3, <2>1, <2>2, WithinMore
  <2>3. CASE l # m
    <3>1. c \notin Waiting(l)
      BY <1>3, <2>3 DEF Waiting
    <3>2. Waiting(l) \subseteq Waiting(l)'
      BY <2>1, <3>1
    <3>3. QED
      BY <1>1, <1>2, <2>3, <3>2, WithinMore
  <2>4. QED
    BY <2>2, <2>3
<1>5. QED
  BY <1>3, <1>4 DEF QueueInv

(* Nobody owns a connection before the server starts.                      *)
LEMMA OwnInit == Init => OwnInv
BY EmptyDistinct, NoClientAssumption
DEF Init, SocketsInit, ServerInit, ClientInit, OwnInv, CurInv, FreshInv,
    QueueInv, Serving, Clients

(* The facts about types that the proofs on ownership use.                 *)
LEMMA OwnTypes ==
  TypeOK =>
    /\ conn \in [Clients -> {"none", "refused", "queued", "accepted", "orphaned", "closed"}]
    /\ queue \in [Listeners -> Seq(Clients)]
    /\ cur \in Clients \cup {NoClient}
    /\ cpc \in [UnixClients -> {"idle", "done", "gone"} \cup Live]
    /\ NoClient \notin Clients
    /\ UnixClients \subseteq Clients
BY NoClientAssumption
DEF TypeOK, SocketsTypeOK, ServerTypeOK, ClientTypeOK, Clients

(* Steps that leave connections, queues and the server's hands alone.      *)
LEMMA OwnQuiet ==
  ASSUME OwnInv, UNCHANGED <<conn, queue, cur>>,
         pc \in Serving <=> pc' \in Serving,
         \A c \in UnixClients : cpc'[c] \in {"idle", "connect"} =>
                                cpc[c] \in {"idle", "connect"}
  PROVE  OwnInv'
<1>1. QueueInv'
  BY QueueKept DEF OwnInv
<1>2. QED
  BY <1>1 DEF OwnInv, CurInv, FreshInv

(* The server closes the connection it serves.                             *)
LEMMA OwnClosed ==
  ASSUME TypeOK, OwnInv, pc \in Serving, pc' \notin Serving, cur' = NoClient,
         CloseServerEnd(cur), UNCHANGED <<queue, cpc>>
  PROVE  OwnInv'
<1>1. cur \in Clients /\ conn[cur] = "accepted"
  BY DEF OwnInv, CurInv
<1>2. QueueInv'
  BY <1>1, OwnTypes, QueueKept DEF OwnInv, CloseServerEnd
<1>3. CurInv'
  BY <1>1, OwnTypes DEF OwnInv, CurInv, CloseServerEnd
<1>4. FreshInv'
  BY <1>1, OwnTypes DEF OwnInv, FreshInv, CloseServerEnd
<1>5. QED
  BY <1>2, <1>3, <1>4 DEF OwnInv

(* The process ends: no queue is left, and nothing is being served.        *)
LEMMA OwnDies ==
  ASSUME TypeOK, OwnInv, ServerDies, UNCHANGED cpc
  PROVE  OwnInv'
<1>1. /\ pc' \notin Serving
      /\ cur' = NoClient
      /\ queue' = [l \in Listeners |-> <<>>]
  BY DEF ServerDies, ServerSocketsDie, Serving
<1>2. ServerSocketsDie(cur, pc = "system")
  BY DEF ServerDies
<1>3. \A c \in Clients : conn'[c] # "accepted"
  BY <1>2, OwnTypes DEF ServerSocketsDie
<1>4. \A c \in Clients : conn[c] = "none" => conn'[c] = "none"
  <2>1. cur \in Clients => conn[cur] = "accepted"
    BY DEF OwnInv, CurInv
  <2>2. QED
    BY <1>2, <2>1, OwnTypes DEF ServerSocketsDie
<1>5. CurInv'
  BY <1>1, <1>3, OwnTypes DEF CurInv
<1>6. FreshInv'
  BY <1>4, OwnTypes DEF OwnInv, FreshInv
<1>7. QED
  BY <1>1, <1>5, <1>6, QueueDropped DEF OwnInv

(* accept() moves a connection from a queue into the hands of              *)
(* handle_set_fd().                                                        *)
LEMMA OwnAccept ==
  ASSUME TypeOK, OwnInv, NEW l \in Listeners, Accept(l), UNCHANGED cpc
  PROVE  OwnInv'
<1>1. Head(queue[l]) \in Waiting(l) /\ QueueInv'
  BY QueueShortened DEF OwnInv
<1>2. /\ cur' = Head(queue[l])
      /\ conn' = [conn EXCEPT ![Head(queue[l])] = "accepted"]
      /\ pc = "scan" /\ pc' = "getsockopt"
  BY DEF Accept
<1>3. CurInv'
  BY <1>1, <1>2, OwnTypes DEF OwnInv, CurInv, Waiting, Serving
<1>4. FreshInv'
  BY <1>1, <1>2, OwnTypes DEF OwnInv, FreshInv, Waiting
<1>5. QED
  BY <1>1, <1>3, <1>4 DEF OwnInv

(* The calls of jconfigserver, its death and its restart keep the          *)
(* ownership.                                                              *)
LEMMA OwnServer == TypeOK /\ OwnInv /\ (Server \/ ServerEnvironment) => OwnInv'
<1> SUFFICES ASSUME TypeOK, OwnInv, Server \/ ServerEnvironment PROVE OwnInv'
  OBVIOUS
<1>1. UNCHANGED cpc
  BY DEF Server, ServerEnvironment, clientVars
<1>2. CASE StartUnixSocket \/ BindUnixSocket \/ StartTcpSocket \/ Poll \/ GetsockoptSucceeds
  BY <1>1, <1>2, OwnQuiet
  DEF StartUnixSocket, BindUnixSocket, StartTcpSocket, Poll, GetsockoptSucceeds, socketVars, Serving
<1>3. CASE Recv \/ RecvNothing \/ SystemReturns \/ Restart
  BY <1>1, <1>3, OwnQuiet
  DEF Recv, RecvNothing, SystemReturns, Restart, socketVars, Serving
<1>4. CASE \E l \in Listeners : AcceptFails(l)
  BY <1>1, <1>4, OwnQuiet DEF AcceptFails, AfterHandle, socketVars, Serving
<1>5. CASE \E l \in Listeners : Accept(l)
  BY <1>1, <1>5, OwnAccept
<1>6. CASE GetsockoptFails \/ SendReply
  BY <1>1, <1>6, OwnClosed
  DEF GetsockoptFails, SendReply, AfterHandle, Serving
<1>7. CASE SendSigpipe \/ RecvOverruns \/ ServerKilled
  BY <1>1, <1>7, OwnDies DEF SendSigpipe, RecvOverruns, ServerKilled
<1>8. QED
  BY <1>2, <1>3, <1>4, <1>5, <1>6, <1>7 DEF Server, ServerStep, ServerEnvironment

(* A new connection joins the end of its queue.                            *)
LEMMA OwnEnqueue ==
  ASSUME TypeOK, OwnInv, NEW c \in Clients, conn[c] = "none", Enqueue(c),
         UNCHANGED <<cur, pc>>,
         \A d \in UnixClients : cpc'[d] \in {"idle", "connect"} =>
                                d # c /\ cpc[d] \in {"idle", "connect"}
  PROVE  OwnInv'
<1>1. QueueInv'
  BY QueueAppended DEF OwnInv
<1>2. conn' = [conn EXCEPT ![c] = "queued"]
  BY DEF Enqueue
<1>3. CurInv'
  BY <1>2, OwnTypes DEF OwnInv, CurInv
<1>4. FreshInv'
  BY <1>2, OwnTypes DEF OwnInv, FreshInv
<1>5. QED
  BY <1>1, <1>3, <1>4 DEF OwnInv

(* So do the calls of a button thread of the app.                          *)
LEMMA OwnThread == TypeOK /\ OwnInv /\ (\E c \in UnixClients : Thread(c)) => OwnInv'
<1> SUFFICES ASSUME TypeOK, OwnInv, NEW c \in UnixClients, Thread(c) PROVE OwnInv'
  OBVIOUS
<1>1. UNCHANGED <<cur, pc>>
  BY DEF Thread, serverVars
<1>2. c \in Clients
  BY DEF Clients
<1>3. CASE Connect(c)
  <2>1. conn[c] = "none"
    BY <1>3 DEF Connect, OwnInv, FreshInv
  <2>2. Enqueue(c) /\ cpc' = [cpc EXCEPT ![c] = "write"]
    BY <1>3 DEF Connect
  <2>3. QED
    BY <1>1, <1>2, <2>1, <2>2, OwnTypes, OwnEnqueue
<1>4. CASE ConnectRefused(c)
  <2>1. /\ conn[c] = "none"
        /\ conn' = [conn EXCEPT ![c] = "refused"]
        /\ cpc' = [cpc EXCEPT ![c] = "write"]
        /\ UNCHANGED queue
    BY <1>4 DEF ConnectRefused, OwnInv, FreshInv
  <2>2. QueueInv'
    BY <1>2, <2>1, OwnTypes, QueueKept DEF OwnInv
  <2>3. CurInv'
    BY <1>1, <1>2, <2>1, OwnTypes DEF OwnInv, CurInv
  <2>4. FreshInv'
    BY <1>2, <2>1, OwnTypes DEF OwnInv, FreshInv
  <2>5. QED
    BY <2>2, <2>3, <2>4 DEF OwnInv
<1>5. CASE Write(c) \/ WriteToNull(c) \/ ReadResponse(c)
  BY <1>1, <1>5, OwnTypes, OwnQuiet DEF Write, WriteToNull, AppDies, ReadResponse
<1>6. QED
  BY <1>3, <1>4, <1>5 DEF Thread, ThreadStep

(* So do clicks, and the death and the launch of the app.                  *)
LEMMA OwnUser == TypeOK /\ OwnInv /\ User => OwnInv'
BY OwnTypes, OwnQuiet
DEF User, AppKilled, AppDies, Launch, Click, socketVars, serverVars

(* So do the steps of the peers of port 4444.                              *)
LEMMA OwnTcpPeer == TypeOK /\ OwnInv /\ (\E c \in TcpClients : TcpPeer(c)) => OwnInv'
<1> SUFFICES ASSUME TypeOK, OwnInv, NEW c \in TcpClients, TcpPeer(c) PROVE OwnInv'
  OBVIOUS
<1>1. c \in Clients /\ c \notin UnixClients
  BY ClientsAssumption DEF Clients
<1>2. UNCHANGED <<cur, pc, cpc>>
  BY DEF TcpPeer, TcpConnect, TcpSegment, TcpShutdown, TcpLeaves,
         serverVars, clientVars
<1>3. CASE TcpConnect(c)
  BY <1>1, <1>2, <1>3, OwnEnqueue DEF TcpConnect
<1>4. CASE TcpSegment(c) \/ TcpShutdown(c) \/ TcpLeaves(c)
  BY <1>2, <1>4, OwnQuiet DEF TcpSegment, TcpShutdown, TcpLeaves
<1>5. QED
  BY <1>3, <1>4 DEF TcpPeer

(* So do the exit of a child of system() and the TIME_WAIT timer.          *)
LEMMA OwnKernel == TypeOK /\ OwnInv /\ Kernel => OwnInv'
<1> SUFFICES ASSUME TypeOK, OwnInv, Kernel PROVE OwnInv'
  OBVIOUS
<1>1. UNCHANGED <<cur, pc, cpc, queue>>
  BY DEF Kernel, TimeWaitExpires, ChildExits, serverVars, clientVars
<1>2. CASE TimeWaitExpires
  BY <1>1, <1>2, OwnQuiet DEF TimeWaitExpires
<1>3. CASE \E c \in Clients : ChildExits(c)
  <2>1. PICK c \in Clients : conn[c] = "orphaned" /\ conn' = [conn EXCEPT ![c] = "closed"]
    BY <1>3 DEF ChildExits, CloseServerEnd
  <2>2. QueueInv'
    BY <1>1, <2>1, OwnTypes, QueueKept DEF OwnInv
  <2>3. CurInv' /\ FreshInv'
    BY <1>1, <2>1, OwnTypes DEF OwnInv, CurInv, FreshInv
  <2>4. QED
    BY <2>2, <2>3 DEF OwnInv
<1>4. QED
  BY <1>2, <1>3 DEF Kernel

(* A step that changes nothing keeps the ownership.                        *)
LEMMA OwnStutter == OwnInv /\ UNCHANGED vars => OwnInv'
BY OwnQuiet DEF vars, socketVars, serverVars, clientVars

(* A connection is always in one queue, in the hands of handle_set_fd(),   *)
(* or in neither.                                                          *)
LEMMA Owned == Spec => []OwnInv
<1>1. TypeOK /\ OwnInv /\ [Next]_vars => OwnInv'
  BY OwnServer, OwnThread, OwnUser, OwnTcpPeer, OwnKernel, OwnStutter DEF Next
<1>2. QED
  BY OwnInit, <1>1, TypeCorrect, PTL DEF Spec

(* Every connection that handle_set_fd() accepted is closed again when it  *)
(* returns, whichever of its paths it took: the server never keeps one.    *)
THEOREM NoLeak == Spec => []NoSocketLeak
<1>1. OwnInv /\ TypeOK => NoSocketLeak
  BY OwnTypes DEF OwnInv, CurInv, NoSocketLeak
<1>2. QED
  BY Owned, TypeCorrect, <1>1, PTL

-----------------------------------------------------------------------------
(* What the server knows of a command of the app, stage by stage.          *)

HasRun(c) == ran[c] = 1 /\ text[c] = "whole" /\ status[c] # "none"

StageInv(c) ==
  /\ arrived[c] \in {0, FrameLength(c)}
  /\ conn[c] \in {"none", "refused", "queued"} => ran[c] = 0
  /\ c = cur /\ pc \in {"getsockopt", "recv", "send_fail"} => ran[c] = 0
  /\ c = cur /\ pc = "system" => ran[c] = 1 /\ text[c] = "whole"
  /\ c = cur /\ pc = "send_ok" => HasRun(c)
  /\ c = cur /\ pc = "send_fail" => ~open[c]
  /\ reply[c] # "none" => conn[c] = "closed" /\ reply[c] = "execute ok" /\ HasRun(c)
  /\ cpc[c] = "done" => reply[c] # "none"

AnswerInv == \A c \in UnixClients : StageInv(c)

(* The facts about types that the proofs on answers use.                   *)
LEMMA AnswerTypes ==
  TypeOK =>
    /\ ran \in [Clients -> Nat]
    /\ text \in [Clients -> {"none", "whole", "prefix", "overrun"}]
    /\ status \in [Clients -> {"none", "zero", "nonzero"}]
    /\ reply \in [Clients -> Replies]
    /\ open \in [Clients -> BOOLEAN]
    /\ arrived \in [Clients -> Nat]
    /\ UnixClients \cap shut = {}
BY ClientsAssumption DEF TypeOK, SocketsTypeOK, ServerTypeOK

(* Before its click, a command has reached no stage.                       *)
LEMMA AnswerInit == Init => AnswerInv
BY NoClientAssumption
DEF Init, SocketsInit, ServerInit, ClientInit, AnswerInv, StageInv, Clients

(* A whole message of the app fits the buffer and starts with "system":    *)
(* recv() takes all of it, and system() is given all of it.                *)
LEMMA WholeCommand ==
  ASSUME NEW c \in UnixClients, arrived[c] = FrameLength(c)
  PROVE  IsSystem(c) /\ PossibleTexts(c) = {"whole"}
<1>1. Payload[c] \in {18, 17, 32, 15, 58} /\ c \in SystemCmd
  BY CommandAssumption, AppCommandsAssumption DEF CommandLengths
<1>2. Received(c) = FrameLength(c) /\ FrameLength(c) = 4 + Payload[c]
  BY <1>1 DEF Received, FrameLength, HEAD, BUFSZ
<1>3. QED
  BY <1>1, <1>2 DEF IsSystem, PossibleTexts, HEAD, SYSTEM_CMD_LEN, BUFSZ

(* Steps of others: a client's stage moves on only by its own steps and by *)
(* those of the server that serves it.                                     *)
LEMMA StageKept ==
  ASSUME NEW c \in UnixClients, StageInv(c),
         UNCHANGED <<ran, text, status, reply, cur, pc>>,
         arrived'[c] \in {arrived[c], FrameLength(c)},
         open'[c] => open[c] \/ c # cur,
         cpc'[c] = "done" => reply[c] # "none",
         \/ conn'[c] = conn[c]
         \/ conn[c] = "none" /\ conn'[c] \in {"queued", "refused"}
         \/ conn[c] = "orphaned" /\ conn'[c] = "closed"
  PROVE  StageInv(c)'
BY DEF StageInv, HasRun

(* The server moves a command from stage to stage: recv(), system(),       *)
(* send().                                                                 *)
LEMMA AnswerServer ==
  TypeOK /\ OwnInv /\ AnswerInv /\ (Server \/ ServerEnvironment) => AnswerInv'
<1> SUFFICES ASSUME TypeOK, OwnInv, AnswerInv, Server \/ ServerEnvironment,
                    NEW c \in UnixClients
             PROVE  StageInv(c)'
  BY DEF AnswerInv
<1>1. UNCHANGED <<cpc, shut, arrived, open>>
  BY DEF Server, ServerEnvironment, clientVars, ServerStep, StartUnixSocket,
         BindUnixSocket, StartTcpSocket, Poll, Accept, AcceptFails, GetsockoptSucceeds,
         GetsockoptFails, Recv, RecvNothing, SendReply, SendSigpipe,
         RecvOverruns, SystemReturns, ServerKilled, Restart, ServerDies,
         ServerSocketsDie, CloseServerEnd, socketVars
<1>2. StageInv(c) /\ c \in Clients
  BY DEF AnswerInv, Clients
<1>3. /\ cur \in Clients <=> pc \in Serving
      /\ \A d \in Clients : conn[d] = "accepted" <=> d = cur
  BY DEF OwnInv, CurInv
<1>4. CASE StartUnixSocket \/ BindUnixSocket \/ StartTcpSocket \/ Poll \/ Restart
  BY <1>1, <1>2, <1>3, <1>4
  DEF StartUnixSocket, BindUnixSocket, StartTcpSocket, Poll, Restart, socketVars, runVars,
      StageInv, HasRun, Serving
<1>5. CASE \E l \in Listeners : AcceptFails(l)
  BY <1>1, <1>2, <1>3, <1>5
  DEF AcceptFails, AfterHandle, socketVars, runVars, StageInv, HasRun, Serving
<1>6. CASE \E l \in Listeners : Accept(l)
  <2>1. PICK l \in Listeners : Accept(l)
    BY <1>6
  <2>2. conn[Head(queue[l])] = "queued" /\ Head(queue[l]) \in Clients
    BY <2>1, QueueShortened DEF OwnInv, Waiting
  <2>3. QED
    BY <1>1, <1>2, <2>1, <2>2, OwnTypes DEF Accept, runVars, StageInv, HasRun
<1>7. CASE GetsockoptSucceeds \/ RecvNothing
  BY <1>1, <1>2, <1>7, AnswerTypes
  DEF GetsockoptSucceeds, RecvNothing, socketVars, runVars, StageInv, HasRun
<1>8. CASE GetsockoptFails
  BY <1>1, <1>2, <1>3, <1>8, OwnTypes
  DEF GetsockoptFails, CloseServerEnd, AfterHandle, runVars, StageInv, HasRun, Serving
<1>9. CASE Recv
  <2>1. CASE c = cur
    <3>0. arrived[c] = FrameLength(c)
      <4>1. arrived[c] > 0
        BY <1>9, <2>1 DEF Recv
      <4>2. arrived[c] \in {0, FrameLength(c)}
        BY <1>2 DEF StageInv
      <4>3. QED
        BY <4>1, <4>2
    <3>1. IsSystem(cur) /\ PossibleTexts(cur) = {"whole"}
      BY <2>1, <3>0, WholeCommand
    <3>2. /\ ran' = [ran EXCEPT ![c] = @ + 1]
          /\ text' = [text EXCEPT ![c] = "whole"]
          /\ pc = "recv" /\ pc' = "system" /\ cur' = c
          /\ UNCHANGED <<conn, reply>>
      BY <1>9, <2>1, <3>1 DEF Recv, socketVars
    <3>3. QED
      <4>1. ran[c] = 0 /\ reply[c] = "none"
        BY <1>2, <1>3, <2>1, <3>2 DEF StageInv
      <4>2. ran'[c] = 1 /\ text'[c] = "whole" /\ conn'[c] = "accepted"
        BY <1>2, <1>3, <2>1, <3>2, <4>1, AnswerTypes
      <4>3. QED
        BY <1>1, <1>2, <2>1, <3>2, <4>1, <4>2 DEF StageInv
  <2>2. CASE c # cur
    <3>1. ran'[c] = ran[c] /\ text'[c] = text[c]
      BY <1>2, <1>9, <2>2, AnswerTypes DEF Recv
    <3>2. UNCHANGED <<cur, status, conn, reply>>
      BY <1>9 DEF Recv, socketVars
    <3>3. QED
      BY <1>1, <1>2, <2>2, <3>1, <3>2 DEF StageInv, HasRun
  <2>3. QED
    BY <2>1, <2>2
<1>10. CASE SystemReturns
  BY <1>1, <1>2, <1>10, AnswerTypes DEF SystemReturns, socketVars, StageInv, HasRun
<1>11. CASE SendReply
  <2>1. CASE c = cur
    <3>1. pc = "send_ok" /\ open[c] /\ c \notin TcpClients
      BY <1>2, <1>11, <2>1, ClientsAssumption DEF SendReply, StageInv
    <3>2. /\ reply' = [reply EXCEPT ![c] = "execute ok"]
          /\ conn' = [conn EXCEPT ![c] = "closed"]
          /\ cur' = NoClient
          /\ UNCHANGED <<ran, text, status>>
      BY <1>11, <2>1, <3>1 DEF SendReply, CloseServerEnd, Answer, runVars
    <3>3. QED
      BY <1>1, <1>2, <2>1, <3>1, <3>2, OwnTypes, AnswerTypes DEF StageInv, HasRun
  <2>2. CASE c # cur
    <3>1. /\ reply'[c] = reply[c]
          /\ conn'[c] = conn[c]
          /\ cur' = NoClient
          /\ UNCHANGED <<ran, text, status>>
      BY <1>2, <1>11, <2>2, OwnTypes, AnswerTypes
      DEF SendReply, CloseServerEnd, runVars
    <3>2. QED
      BY <1>1, <1>2, <3>1, OwnTypes DEF StageInv, HasRun
  <2>3. QED
    BY <2>1, <2>2
<1>12. CASE SendSigpipe \/ RecvOverruns \/ ServerKilled
  <2>1. /\ ServerSocketsDie(cur, pc = "system")
        /\ cur' = NoClient
        /\ UNCHANGED <<ran, text, status>>
    BY <1>12 DEF SendSigpipe, RecvOverruns, ServerKilled, ServerDies, runVars
  <2>2. /\ UNCHANGED reply
        /\ conn'[c] \in {"none", "refused", "queued", "closed"} =>
             conn'[c] = conn[c] \/ conn'[c] = "closed"
        /\ conn[c] = "closed" => conn'[c] = "closed"
    BY <1>2, <1>3, <2>1, OwnTypes DEF ServerSocketsDie
  <2>3. QED
    BY <1>1, <1>2, <2>1, <2>2, OwnTypes DEF StageInv, HasRun
<1>13. QED
  BY <1>4, <1>5, <1>6, <1>7, <1>8, <1>9, <1>10, <1>11, <1>12
  DEF Server, ServerStep, ServerEnvironment

(* A button thread connects, writes its command whole, and ends on an      *)
(* answer.                                                                 *)
LEMMA AnswerThread ==
  TypeOK /\ OwnInv /\ AnswerInv /\ (\E d \in UnixClients : Thread(d)) => AnswerInv'
<1> SUFFICES ASSUME TypeOK, OwnInv, AnswerInv, NEW d \in UnixClients, Thread(d),
                    NEW c \in UnixClients
             PROVE  StageInv(c)'
  BY DEF AnswerInv
<1>1. UNCHANGED <<ran, text, status, cur, pc>>
  BY DEF Thread, serverVars
<1>2. StageInv(c) /\ c \in Clients /\ d \in Clients
  BY DEF AnswerInv, Clients
<1>3. conn[c] = "none" => c # cur
  BY <1>2 DEF OwnInv, CurInv
<1>4. cpc[d] = "connect" => conn[d] = "none"
  BY DEF OwnInv, FreshInv
<1>5. cpc[c] = "done" => reply[c] # "none"
  BY <1>2 DEF StageInv
<1>6. CASE Connect(d)
  BY <1>1, <1>2, <1>3, <1>4, <1>5, <1>6, OwnTypes, AnswerTypes, StageKept
  DEF Connect, Enqueue
<1>7. CASE ConnectRefused(d)
  BY <1>1, <1>2, <1>3, <1>4, <1>5, <1>7, OwnTypes, AnswerTypes, StageKept
  DEF ConnectRefused
<1>8. CASE Write(d)
  BY <1>1, <1>2, <1>5, <1>8, OwnTypes, AnswerTypes, StageKept DEF Write
<1>9. CASE WriteToNull(d)
  BY <1>1, <1>2, <1>5, <1>9, OwnTypes, AnswerTypes, StageKept DEF WriteToNull, AppDies
<1>10. CASE ReadResponse(d)
  BY <1>1, <1>2, <1>5, <1>10, OwnTypes, AnswerTypes, StageKept DEF ReadResponse
<1>11. QED
  BY <1>6, <1>7, <1>8, <1>9, <1>10 DEF Thread, ThreadStep

(* Clicks, and the death and the launch of the app, move no command on.    *)
LEMMA AnswerUser == TypeOK /\ OwnInv /\ AnswerInv /\ User => AnswerInv'
<1> SUFFICES ASSUME TypeOK, AnswerInv, User, NEW c \in UnixClients
             PROVE  StageInv(c)'
  BY DEF AnswerInv
<1>1. UNCHANGED <<ran, text, status, cur, pc>>
  BY DEF User, serverVars
<1>2. StageInv(c) /\ c \in Clients
  BY DEF AnswerInv, Clients
<1>3. cpc[c] = "done" => reply[c] # "none"
  BY <1>2 DEF StageInv
<1>4. UNCHANGED <<arrived, conn, reply>> /\ (open'[c] => open[c])
  BY <1>2, AnswerTypes DEF User, AppKilled, AppDies, Launch, Click, socketVars
<1>5. cpc'[c] = "done" => cpc[c] = "done"
  BY OwnTypes DEF User, AppKilled, AppDies, Launch, Click, Live
<1>6. QED
  BY <1>1, <1>2, <1>3, <1>4, <1>5, StageKept

(* The peers of port 4444 do not touch a command of the app.               *)
LEMMA AnswerTcpPeer ==
  TypeOK /\ OwnInv /\ AnswerInv /\ (\E d \in TcpClients : TcpPeer(d)) => AnswerInv'
<1> SUFFICES ASSUME TypeOK, OwnInv, AnswerInv, NEW d \in TcpClients, TcpPeer(d),
                    NEW c \in UnixClients
             PROVE  StageInv(c)'
  BY DEF AnswerInv
<1>1. UNCHANGED <<ran, text, status, cur, pc>>
  BY DEF TcpPeer, serverVars
<1>2. StageInv(c) /\ c \in Clients /\ d \in Clients /\ c # d
  BY ClientsAssumption DEF AnswerInv, Clients
<1>3. cpc[c] = "done" => reply[c] # "none"
  BY <1>2 DEF StageInv
<1>4. /\ UNCHANGED <<reply, cpc>>
      /\ conn'[c] = conn[c] /\ open'[c] = open[c] /\ arrived'[c] = arrived[c]
  BY <1>2, OwnTypes, AnswerTypes
  DEF TcpPeer, TcpConnect, Enqueue, TcpSegment, TcpShutdown, TcpLeaves, clientVars
<1>5. QED
  BY <1>1, <1>2, <1>3, <1>4, StageKept

(* An orphaned connection that is closed at last was never answered.       *)
LEMMA AnswerKernel == TypeOK /\ OwnInv /\ AnswerInv /\ Kernel => AnswerInv'
<1> SUFFICES ASSUME TypeOK, OwnInv, AnswerInv, Kernel, NEW c \in UnixClients
             PROVE  StageInv(c)'
  BY DEF AnswerInv
<1>1. UNCHANGED <<ran, text, status, cur, pc, cpc, reply, arrived, open>>
  BY DEF Kernel, TimeWaitExpires, ChildExits, serverVars, clientVars
<1>2. StageInv(c) /\ c \in Clients
  BY DEF AnswerInv, Clients
<1>3. cpc[c] = "done" => reply[c] # "none"
  BY <1>2 DEF StageInv
<1>4. conn'[c] = conn[c] \/ (conn[c] = "orphaned" /\ conn'[c] = "closed")
  <2>1. CASE TimeWaitExpires
    BY <2>1 DEF TimeWaitExpires
  <2>2. CASE \E d \in Clients : ChildExits(d)
    BY <1>2, <2>2, OwnTypes DEF ChildExits, CloseServerEnd
  <2>3. QED
    BY <2>1, <2>2 DEF Kernel
<1>5. QED
  BY <1>1, <1>2, <1>3, <1>4, StageKept

(* A step that changes nothing moves no command on.                        *)
LEMMA AnswerStutter == AnswerInv /\ UNCHANGED vars => AnswerInv'
BY DEF AnswerInv, StageInv, HasRun, vars, socketVars, serverVars, clientVars

(* What StageInv says of each stage of a command of the app always holds.  *)
LEMMA Answered == Spec => []AnswerInv
<1>1. TypeOK /\ OwnInv /\ AnswerInv /\ [Next]_vars => AnswerInv'
  BY AnswerServer, AnswerThread, AnswerUser, AnswerTcpPeer, AnswerKernel,
     AnswerStutter DEF Next
<1>2. QED
  BY AnswerInit, <1>1, TypeCorrect, Owned, PTL DEF Spec

(* A button thread that has ended has had its command run: exactly once,   *)
(* whole, and to the end.                                                  *)
THEOREM DoneHasRun == Spec => []DoneMeansRan
<1>1. AnswerInv => DoneMeansRan
  BY DEF AnswerInv, StageInv, HasRun, DoneMeansRan
<1>2. QED
  BY Answered, <1>1, PTL

(* The app is never told "failed execute".                                 *)
THEOREM FailureUnread == Spec => []NeverFailed
<1>1. AnswerInv => NeverFailed
  BY DEF AnswerInv, StageInv, NeverFailed
<1>2. QED
  BY Answered, <1>1, PTL

-----------------------------------------------------------------------------
(* What a thread of the app can be waiting for.                             *)
Wait(c) ==
  /\ open[c] => cpc[c] \in {"write", "read"}
  /\ cpc[c] = "read" /\ conn[c] \in {"queued", "accepted"} =>
       arrived[c] = FrameLength(c)

WaitInv == \A c \in UnixClients : Wait(c)

(* The server and the other clients leave the waits of c alone: connections *)
(* are opened by their clients only.                                       *)
LEMMA WaitKept ==
  ASSUME NEW c \in UnixClients, Wait(c), UNCHANGED cpc,
         arrived'[c] = arrived[c], open'[c] = open[c],
         conn'[c] \in {"queued", "accepted"} => conn[c] \in {"queued", "accepted"}
  PROVE  Wait(c)'
BY DEF Wait

(* The calls of jconfigserver.                                             *)
LEMMA WaitServer ==
  TypeOK /\ OwnInv /\ WaitInv /\ (Server \/ ServerEnvironment) => WaitInv'
<1> SUFFICES ASSUME TypeOK, OwnInv, WaitInv, Server \/ ServerEnvironment,
                    NEW c \in UnixClients
             PROVE  Wait(c)'
  BY DEF WaitInv
<1>1. UNCHANGED <<cpc, arrived, open>>
  BY DEF Server, ServerEnvironment, clientVars, ServerStep, StartUnixSocket,
         BindUnixSocket, StartTcpSocket, Poll, Accept, AcceptFails, GetsockoptSucceeds,
         GetsockoptFails, Recv, RecvNothing, SendReply, SendSigpipe,
         RecvOverruns, SystemReturns, ServerKilled, Restart, ServerDies,
         ServerSocketsDie, CloseServerEnd, socketVars
<1>2. Wait(c) /\ c \in Clients
  BY DEF WaitInv, Clients
<1>3. conn'[c] \in {"queued", "accepted"} => conn[c] \in {"queued", "accepted"}
  <2>1. CASE \E l \in Listeners : Accept(l)
    <3>1. PICK l \in Listeners : Accept(l)
      BY <2>1
    <3>2. conn[Head(queue[l])] = "queued"
      BY <3>1, QueueShortened DEF OwnInv, Waiting
    <3>3. QED
      BY <1>2, <3>1, <3>2, OwnTypes DEF Accept
  <2>2. CASE GetsockoptFails \/ SendReply
    BY <1>2, <2>2, OwnTypes DEF GetsockoptFails, SendReply, CloseServerEnd
  <2>3. CASE SendSigpipe \/ RecvOverruns \/ ServerKilled
    BY <1>2, <2>3, OwnTypes
    DEF SendSigpipe, RecvOverruns, ServerKilled, ServerDies, ServerSocketsDie
  <2>4. CASE UNCHANGED conn
    BY <2>4
  <2>5. QED
    BY <2>1, <2>2, <2>3, <2>4
    DEF Server, ServerEnvironment, ServerStep, StartUnixSocket,
         BindUnixSocket, StartTcpSocket, Poll, AcceptFails, GetsockoptSucceeds, Recv,
        RecvNothing, SystemReturns, Restart, socketVars
<1>4. QED
  BY <1>1, <1>2, <1>3, WaitKept

(* The threads: connect() opens, write() delivers, the answer closes.      *)
LEMMA WaitThread ==
  TypeOK /\ OwnInv /\ WaitInv /\ (\E d \in UnixClients : Thread(d)) => WaitInv'
<1> SUFFICES ASSUME TypeOK, OwnInv, WaitInv, NEW d \in UnixClients, Thread(d),
                    NEW c \in UnixClients
             PROVE  Wait(c)'
  BY DEF WaitInv
<1>1. Wait(c) /\ c \in Clients /\ d \in Clients
  BY DEF WaitInv, Clients
<1>2. cpc[d] = "connect" => conn[d] = "none"
  BY DEF OwnInv, FreshInv
<1>3. CASE Connect(d)
  BY <1>1, <1>3, OwnTypes, AnswerTypes DEF Connect, Enqueue, Wait
<1>4. CASE ConnectRefused(d)
  BY <1>1, <1>2, <1>4, OwnTypes, AnswerTypes DEF ConnectRefused, Wait
<1>5. CASE Write(d)
  BY <1>1, <1>5, OwnTypes, AnswerTypes DEF Write, Wait
<1>6. CASE WriteToNull(d)
  BY <1>1, <1>6, OwnTypes, AnswerTypes DEF WriteToNull, AppDies, Wait, Live
<1>7. CASE ReadResponse(d)
  BY <1>1, <1>7, OwnTypes, AnswerTypes DEF ReadResponse, Wait
<1>8. QED
  BY <1>3, <1>4, <1>5, <1>6, <1>7 DEF Thread, ThreadStep

(* The user, the TCP peers and the kernel.                                 *)
LEMMA WaitOthers ==
  /\ TypeOK /\ OwnInv /\ WaitInv
  /\ User \/ Kernel \/ \E d \in TcpClients : TcpPeer(d)
  => WaitInv'
<1> SUFFICES ASSUME TypeOK, OwnInv, WaitInv, NEW c \in UnixClients,
                    User \/ Kernel \/ \E d \in TcpClients : TcpPeer(d)
             PROVE  Wait(c)'
  BY DEF WaitInv
<1>1. Wait(c) /\ c \in Clients
  BY DEF WaitInv, Clients
<1>2. CASE User
  BY <1>1, <1>2, OwnTypes, AnswerTypes
  DEF User, AppKilled, AppDies, Launch, Click, Live, socketVars, Wait
<1>3. CASE Kernel
  <2>1. UNCHANGED <<cpc, arrived, open>>
    BY <1>3 DEF Kernel, TimeWaitExpires, ChildExits, serverVars, clientVars
  <2>2. conn'[c] \in {conn[c], "closed"}
    BY <1>1, <1>3, OwnTypes DEF Kernel, TimeWaitExpires, ChildExits, CloseServerEnd
  <2>3. QED
    BY <1>1, <2>1, <2>2, WaitKept
<1>4. CASE \E d \in TcpClients : TcpPeer(d)
  <2>1. PICK d \in TcpClients : TcpPeer(d)
    BY <1>4
  <2>2. d \in Clients /\ c # d
    BY ClientsAssumption DEF Clients
  <2>3. /\ UNCHANGED cpc
        /\ conn'[c] = conn[c] /\ open'[c] = open[c] /\ arrived'[c] = arrived[c]
    BY <1>1, <2>1, <2>2, OwnTypes, AnswerTypes
    DEF TcpPeer, TcpConnect, Enqueue, TcpSegment, TcpShutdown, TcpLeaves, clientVars
  <2>4. QED
    BY <1>1, <2>3, WaitKept
<1>5. QED
  BY <1>2, <1>3, <1>4

(* A thread that holds its end of a connection has its write or its read   *)
(* before it, and reads only what it has written whole.                    *)
LEMMA WaitsKept == Spec => []WaitInv
<1>1. Init => WaitInv
  BY DEF Init, SocketsInit, ClientInit, WaitInv, Wait, Clients
<1>2. WaitInv /\ UNCHANGED vars => WaitInv'
  BY DEF WaitInv, Wait, vars, socketVars, serverVars, clientVars
<1>3. TypeOK /\ OwnInv /\ WaitInv /\ [Next]_vars => WaitInv'
  BY <1>2, WaitServer, WaitThread, WaitOthers DEF Next
<1>4. QED
  BY <1>1, <1>3, TypeCorrect, Owned, PTL DEF Spec

(* No cycle of waits between the two programs: when recv() blocks on a     *)
(* connection of the app, its thread is not waiting for an answer on it.   *)
THEOREM NobodyWaitsForEachOther == Spec => []NoMutualWait
<1>1. ASSUME OwnInv, TypeOK, WaitInv, NEW c \in UnixClients,
             cur = c, pc = "recv", arrived[c] = 0, open[c]
      PROVE  cpc[c] = "write"
  <2>1. Wait(c) /\ conn[c] = "accepted"
    BY <1>1 DEF WaitInv, OwnInv, CurInv, Clients
  <2>2. FrameLength(c) # 0
    BY CommandAssumption DEF FrameLength, HEAD, CommandLengths
  <2>3. QED
    BY <1>1, <2>1, <2>2 DEF Wait
<1>2. OwnInv /\ TypeOK /\ WaitInv => NoMutualWait
  BY <1>1 DEF NoMutualWait, WaitInv, Wait
<1>3. QED
  BY Owned, TypeCorrect, WaitsKept, <1>2, PTL
=============================================================================
