------------------------ MODULE SelfDoServiceProofs ------------------------
(***************************************************************************)
(* Spec implements CommandService, for any clients, payloads and faults.   *)
(* StoryInv extends what AnswerInv says of the app's commands to those of  *)
(* the TCP peers; with it every step of the two programs is shown to move  *)
(* Phase as CommandService allows, or not at all.                          *)
(***************************************************************************)
EXTENDS SelfDoAnswerProofs

-----------------------------------------------------------------------------
(* What the server has done with the command of any client, the app's or   *)
(* not.                                                                    *)
Story(c) ==
  /\ conn[c] \in {"none", "refused", "queued"} => ran[c] = 0
  /\ c = cur /\ pc \in {"getsockopt", "recv", "send_fail"} => ran[c] = 0
  /\ c = cur /\ pc = "system" => ran[c] > 0
  /\ reply[c] # "none" => conn[c] = "closed"
  /\ c = cur /\ c \in TcpClients /\ pc = "send_fail" =>
       arrived[c] = 0 /\ (~open[c] \/ c \in shut)

StoryInv == \A c \in Clients : Story(c)

(* Nothing has happened yet.                                               *)
LEMMA StoryInit == Init => StoryInv
BY NoClientAssumption
DEF Init, SocketsInit, ServerInit, StoryInv, Story

(* The calls of jconfigserver.                                             *)
LEMMA StoryServer ==
  TypeOK /\ OwnInv /\ StoryInv /\ (Server \/ ServerEnvironment) => StoryInv'
<1> SUFFICES ASSUME TypeOK, OwnInv, StoryInv, Server \/ ServerEnvironment,
                    NEW c \in Clients
             PROVE  Story(c)'
  BY DEF StoryInv
<1>1. UNCHANGED <<shut, arrived, open>>
  BY DEF Server, ServerEnvironment, ServerStep, StartUnixSocket,
         BindUnixSocket, StartTcpSocket, Poll, Accept, AcceptFails, GetsockoptSucceeds,
         GetsockoptFails, Recv, RecvNothing, SendReply, SendSigpipe,
         RecvOverruns, SystemReturns, ServerKilled, Restart, ServerDies,
         ServerSocketsDie, CloseServerEnd, socketVars
<1>2. Story(c)
  BY DEF StoryInv
<1>3. /\ cur \in Clients <=> pc \in Serving
      /\ \A d \in Clients : conn[d] = "accepted" <=> d = cur
  BY DEF OwnInv, CurInv
<1>4. CASE StartUnixSocket \/ BindUnixSocket \/ StartTcpSocket \/ Poll \/ Restart
  BY <1>1, <1>2, <1>3, <1>4
  DEF StartUnixSocket, BindUnixSocket, StartTcpSocket, Poll, Restart, socketVars, runVars,
      Story, Serving
<1>5. CASE \E l \in Listeners : AcceptFails(l)
  BY <1>1, <1>2, <1>3, <1>5
  DEF AcceptFails, AfterHandle, socketVars, runVars, Story, Serving
<1>6. CASE \E l \in Listeners : Accept(l)
  <2>1. PICK l \in Listeners : Accept(l)
    BY <1>6
  <2>2. conn[Head(queue[l])] = "queued" /\ Head(queue[l]) \in Clients
    BY <2>1, QueueShortened DEF OwnInv, Waiting
  <2>3. QED
    BY <1>1, <1>2, <2>1, <2>2, OwnTypes DEF Accept, runVars, Story
<1>7. CASE GetsockoptSucceeds \/ RecvNothing
  BY <1>1, <1>2, <1>7
  DEF GetsockoptSucceeds, RecvNothing, socketVars, runVars, Story
<1>8. CASE GetsockoptFails \/ SendReply
  <2>1. /\ cur \in Clients /\ conn[cur] = "accepted"
        /\ cur' = NoClient
        /\ conn' = [conn EXCEPT ![cur] = "closed"]
        /\ UNCHANGED ran
        /\ \A d \in Clients : d # cur => reply'[d] = reply[d]
    BY <1>3, <1>8, AnswerTypes
    DEF GetsockoptFails, SendReply, CloseServerEnd, runVars, Serving
  <2>2. QED
    BY <1>2, <2>1, OwnTypes DEF Story
<1>9. CASE Recv
  <2>1. /\ cur' = cur /\ pc = "recv"
        /\ UNCHANGED <<conn, reply>>
        /\ c # cur => ran'[c] = ran[c]
        /\ \/ pc' = "system" /\ ran' = [ran EXCEPT ![cur] = @ + 1]
           \/ pc' = "send_ok" /\ ran' = ran
    BY <1>9, AnswerTypes DEF Recv, socketVars
  <2>2. c = cur => ran[c] = 0 /\ conn[c] = "accepted"
    BY <1>2, <1>3, <2>1 DEF Story
  <2>3. c = cur /\ pc' = "system" => ran'[c] = 1
    BY <2>1, <2>2, AnswerTypes
  <2>4. QED
    BY <1>2, <2>1, <2>2, <2>3 DEF Story
<1>10. CASE SystemReturns
  BY <1>1, <1>2, <1>10 DEF SystemReturns, socketVars, Story
<1>11. CASE SendSigpipe \/ RecvOverruns \/ ServerKilled
  <2>1. /\ ServerSocketsDie(cur, pc = "system")
        /\ cur' = NoClient
        /\ UNCHANGED ran
    BY <1>11 DEF SendSigpipe, RecvOverruns, ServerKilled, ServerDies, runVars
  <2>2. /\ UNCHANGED reply
        /\ conn'[c] \in {"none", "refused", "queued"} => conn'[c] = conn[c]
        /\ conn[c] = "closed" => conn'[c] = "closed"
    BY <1>3, <2>1, OwnTypes DEF ServerSocketsDie
  <2>3. QED
    BY <1>2, <2>1, <2>2, OwnTypes DEF Story
<1>12. QED
  BY <1>4, <1>5, <1>6, <1>7, <1>8, <1>9, <1>10, <1>11
  DEF Server, ServerStep, ServerEnvironment

(* Steps of the clients and of the kernel.  Once a TCP peer has stopped    *)
(* sending, nothing more of it arrives.                                    *)
LEMMA StoryKept ==
  ASSUME NEW c \in Clients, Story(c),
         UNCHANGED <<ran, reply, cur, pc>>,
         open'[c] => open[c] \/ c # cur,
         shut \subseteq shut',
         c \in TcpClients /\ (~open[c] \/ c \in shut) => arrived'[c] = arrived[c],
         \/ conn'[c] = conn[c]
         \/ conn[c] = "none" /\ conn'[c] \in {"queued", "refused"}
         \/ conn[c] = "orphaned" /\ conn'[c] = "closed"
  PROVE  Story(c)'
BY DEF Story

(* The threads of the app.                                                 *)
LEMMA StoryThread ==
  TypeOK /\ OwnInv /\ StoryInv /\ (\E d \in UnixClients : Thread(d)) => StoryInv'
<1> SUFFICES ASSUME TypeOK, OwnInv, StoryInv, NEW d \in UnixClients, Thread(d),
                    NEW c \in Clients
             PROVE  Story(c)'
  BY DEF StoryInv
<1>1. UNCHANGED <<ran, cur, pc>>
  BY DEF Thread, serverVars
<1>2. Story(c) /\ d \in Clients /\ d \notin TcpClients
  BY ClientsAssumption DEF StoryInv, Clients
<1>3. conn[c] = "none" => c # cur
  BY DEF OwnInv, CurInv
<1>4. cpc[d] = "connect" => conn[d] = "none"
  BY DEF OwnInv, FreshInv
<1>5. CASE Connect(d)
  BY <1>1, <1>2, <1>3, <1>4, <1>5, OwnTypes, AnswerTypes, StoryKept
  DEF Connect, Enqueue
<1>6. CASE ConnectRefused(d)
  BY <1>1, <1>2, <1>3, <1>4, <1>6, OwnTypes, AnswerTypes, StoryKept
  DEF ConnectRefused
<1>7. CASE Write(d)
  BY <1>1, <1>2, <1>7, OwnTypes, AnswerTypes, StoryKept DEF Write
<1>8. CASE WriteToNull(d)
  BY <1>1, <1>2, <1>8, OwnTypes, AnswerTypes, StoryKept DEF WriteToNull, AppDies
<1>9. CASE ReadResponse(d)
  BY <1>1, <1>2, <1>9, OwnTypes, AnswerTypes, StoryKept DEF ReadResponse
<1>10. QED
  BY <1>5, <1>6, <1>7, <1>8, <1>9 DEF Thread, ThreadStep

(* The user, the TCP peers and the kernel.                                 *)
LEMMA StoryOthers ==
  /\ TypeOK /\ OwnInv /\ StoryInv
  /\ User \/ Kernel \/ \E d \in TcpClients : TcpPeer(d)
  => StoryInv'
<1> SUFFICES ASSUME TypeOK, OwnInv, StoryInv, NEW c \in Clients,
                    User \/ Kernel \/ \E d \in TcpClients : TcpPeer(d)
             PROVE  Story(c)'
  BY DEF StoryInv
<1>1. UNCHANGED <<ran, reply, cur, pc>>
  BY DEF User, AppKilled, AppDies, Launch, Click, Kernel, TimeWaitExpires,
         ChildExits, TcpPeer, TcpConnect, TcpSegment, TcpShutdown, TcpLeaves,
         serverVars, socketVars
<1>2. Story(c)
  BY DEF StoryInv
<1>3. conn[c] = "none" => c # cur
  BY DEF OwnInv, CurInv
<1>4. CASE User
  <2>1. UNCHANGED <<arrived, conn, shut>> /\ (open'[c] => open[c])
    BY <1>4, AnswerTypes DEF User, AppKilled, AppDies, Launch, Click, socketVars
  <2>2. QED
    BY <1>1, <1>2, <2>1, StoryKept
<1>5. CASE Kernel
  BY <1>1, <1>2, <1>5, OwnTypes, StoryKept
  DEF Kernel, TimeWaitExpires, ChildExits, CloseServerEnd
<1>6. CASE \E d \in TcpClients : TcpPeer(d)
  <2>1. PICK d \in TcpClients : TcpPeer(d)
    BY <1>6
  <2>2. d \in Clients
    BY DEF Clients
  <2>3. CASE TcpConnect(d)
    BY <1>1, <1>2, <1>3, <2>2, <2>3, OwnTypes, AnswerTypes, StoryKept
    DEF TcpConnect, Enqueue
  <2>4. CASE TcpSegment(d)
    BY <1>1, <1>2, <2>2, <2>4, AnswerTypes, StoryKept DEF TcpSegment
  <2>5. CASE TcpShutdown(d)
    BY <1>1, <1>2, <2>2, <2>5, AnswerTypes, StoryKept DEF TcpShutdown
  <2>6. CASE TcpLeaves(d)
    BY <1>1, <1>2, <2>2, <2>6, AnswerTypes, StoryKept DEF TcpLeaves
  <2>7. QED
    BY <2>1, <2>3, <2>4, <2>5, <2>6 DEF TcpPeer
<1>7. QED
  BY <1>4, <1>5, <1>6

(* What Story says of every client always holds.                           *)
LEMMA Storied == Spec => []StoryInv
<1>1. StoryInv /\ UNCHANGED vars => StoryInv'
  BY DEF StoryInv, Story, vars, socketVars, serverVars, clientVars
<1>2. TypeOK /\ OwnInv /\ StoryInv /\ [Next]_vars => StoryInv'
  BY <1>1, StoryServer, StoryThread, StoryOthers DEF Next
<1>3. QED
  BY StoryInit, <1>2, TypeCorrect, Owned, PTL DEF Spec

-----------------------------------------------------------------------------
(* How Phase follows the sockets.                                          *)
Unanswered(c) == reply[c] = "none"
Ended(c) == conn[c] \in {"refused", "closed", "orphaned"}
Held(c) == conn[c] = "accepted" /\ pc \in {"system", "send_ok"}

(* Phase(c), one case at a time: told "execute ok",                        *)
LEMMA PhaseAnswered ==
  \A c : reply[c] = "execute ok" /\ conn[c] = "closed" => Phase(c) = "answered"
<1> SUFFICES ASSUME NEW c, reply[c] = "execute ok", conn[c] = "closed"
             PROVE  Phase(c) = "answered"
  OBVIOUS
<1>1. reply[c] # "failed execute" /\ reply[c] # "none" /\ conn[c] # "accepted"
  OBVIOUS
<1>2. QED
  BY <1>1, Zenon DEF Phase

(* told "failed execute",                                                  *)
LEMMA PhaseRejected ==
  \A c : reply[c] = "failed execute" /\ conn[c] = "closed" => Phase(c) = "rejected"
<1> SUFFICES ASSUME NEW c, reply[c] = "failed execute", conn[c] = "closed"
             PROVE  Phase(c) = "rejected"
  OBVIOUS
<1>1. reply[c] # "execute ok" /\ reply[c] # "none" /\ conn[c] # "accepted"
  OBVIOUS
<1>2. QED
  BY <1>1, Zenon DEF Phase

(* ended without an answer, the command with it or not,                    *)
LEMMA PhaseEnded ==
  \A c : Unanswered(c) /\ Ended(c) =>
    Phase(c) = IF conn[c] = "orphaned" THEN "orphaned" ELSE "lost"
<1> SUFFICES ASSUME NEW c, Unanswered(c), Ended(c)
             PROVE  Phase(c) = IF conn[c] = "orphaned" THEN "orphaned" ELSE "lost"
  OBVIOUS
<1>1. /\ reply[c] # "execute ok" /\ reply[c] # "failed execute"
      /\ conn[c] # "accepted" /\ reply[c] = "none"
  BY DEF Unanswered, Ended
<1>2. CASE conn[c] = "orphaned"
  <2>1. conn[c] \notin {"refused", "closed"}
    BY <1>2
  <2>2. QED
    BY <1>1, <1>2, <2>1, Zenon DEF Phase
<1>3. CASE conn[c] \in {"refused", "closed"}
  <2>1. conn[c] # "orphaned"
    BY <1>3
  <2>2. QED
    BY <1>1, <1>3, <2>1, Zenon DEF Phase
<1>4. QED
  BY <1>2, <1>3 DEF Ended

(* in system() or in front of the send() after it,                         *)
LEMMA PhaseHeld ==
  \A c : Unanswered(c) /\ Held(c) =>
    Phase(c) = IF pc = "system" THEN "running"
               ELSE IF ran[c] > 0 THEN "ran" ELSE "ignored"
<1> SUFFICES ASSUME NEW c, Unanswered(c), Held(c)
             PROVE  Phase(c) = IF pc = "system" THEN "running"
                               ELSE IF ran[c] > 0 THEN "ran" ELSE "ignored"
  OBVIOUS
<1>1. /\ reply[c] # "execute ok" /\ reply[c] # "failed execute"
      /\ conn[c] \notin {"refused", "closed"} /\ conn[c] # "orphaned"
      /\ conn[c] = "accepted"
  BY DEF Unanswered, Held
<1>2. CASE pc = "system"
  <2>1. pc # "send_ok"
    BY <1>2
  <2>2. QED
    BY <1>1, <1>2, <2>1, Zenon DEF Phase
<1>3. CASE pc = "send_ok"
  <2>1. pc # "system"
    BY <1>3
  <2>2. QED
    BY <1>1, <1>3, <2>1, Zenon DEF Phase
<1>4. QED
  BY <1>2, <1>3 DEF Held

(* or not that far: the bytes that have arrived decide.                    *)
LEMMA PhaseEarly ==
  \A c : Unanswered(c) /\ ~Ended(c) /\ ~Held(c) =>
    Phase(c) = IF arrived[c] > 0 THEN "submitted" ELSE "new"
<1> SUFFICES ASSUME NEW c, Unanswered(c), ~Ended(c), ~Held(c)
             PROVE  Phase(c) = IF arrived[c] > 0 THEN "submitted" ELSE "new"
  OBVIOUS
<1>1. /\ reply[c] # "execute ok" /\ reply[c] # "failed execute"
      /\ conn[c] \notin {"refused", "closed"} /\ conn[c] # "orphaned"
      /\ ~(conn[c] = "accepted" /\ pc = "system")
      /\ ~(conn[c] = "accepted" /\ pc = "send_ok")
  BY DEF Unanswered, Ended, Held
<1>2. QED
  BY <1>1, Zenon DEF Phase

PhaseTable ==
  \A c \in Clients :
    /\ reply[c] = "execute ok" /\ conn[c] = "closed" => Phase(c) = "answered"
    /\ reply[c] = "failed execute" /\ conn[c] = "closed" => Phase(c) = "rejected"
    /\ Unanswered(c) /\ Ended(c) =>
         Phase(c) = IF conn[c] = "orphaned" THEN "orphaned" ELSE "lost"
    /\ Unanswered(c) /\ Held(c) =>
         Phase(c) = IF pc = "system" THEN "running"
                    ELSE IF ran[c] > 0 THEN "ran" ELSE "ignored"
    /\ Unanswered(c) /\ ~Ended(c) /\ ~Held(c) =>
         Phase(c) = IF arrived[c] > 0 THEN "submitted" ELSE "new"

(* The table describes Phase in every state.                               *)
LEMMA PhaseIs == PhaseTable
BY PhaseAnswered, PhaseRejected, PhaseEnded, PhaseHeld, PhaseEarly, Zenon DEF PhaseTable

(* So it describes Phase after a step as well.                             *)
LEMMA PhaseThen == PhaseTable'
BY PhaseIs, PTL

-----------------------------------------------------------------------------
(* What the steps of the two programs are to CommandService.               *)
Progress == [c \in Clients |-> Phase(c)]

AllInv == TypeOK /\ OwnInv /\ AnswerInv /\ StoryInv

(* The facts about types that the refinement uses.                         *)
LEMMA ServiceTypes ==
  AllInv =>
    /\ OwnInv /\ StoryInv /\ AnswerInv
    /\ \A c \in Clients : reply[c] \in {"none", "execute ok", "failed execute"}
    /\ \A c \in Clients : arrived[c] \in Nat /\ ran[c] \in Nat
    /\ cur \in Clients <=> pc \in Serving
    /\ \A c \in Clients : conn[c] = "accepted" <=> c = cur
    /\ \A c \in Clients : reply[c] # "none" => conn[c] = "closed"
BY DEF AllInv, TypeOK, SocketsTypeOK, ServerTypeOK, Replies, OwnInv, CurInv,
       StoryInv, Story

(* A client whose answer, connection and stage stay the same stands still. *)
LEMMA PhaseKept ==
  ASSUME AllInv, NEW d \in Clients,
         reply'[d] = reply[d], ran'[d] = ran[d], arrived'[d] = arrived[d],
         \/ conn'[d] = conn[d] /\ pc' = pc
         \/ /\ ~Held(d) /\ ~Held(d)'
            /\ Ended(d) <=> Ended(d)'
            /\ conn[d] = "orphaned" <=> conn'[d] = "orphaned"
            /\ reply[d] # "none" => conn'[d] = "closed"
  PROVE  Phase(d)' = Phase(d)
<1>1. /\ reply[d] \in {"none", "execute ok", "failed execute"}
      /\ reply[d] # "none" => conn[d] = "closed"
  BY ServiceTypes
<1>2. CASE reply[d] # "none"
  BY <1>1, <1>2, PhaseIs, PhaseThen DEF PhaseTable
<1>3. CASE reply[d] = "none"
  <2>1. Unanswered(d) /\ Unanswered(d)'
    BY <1>3 DEF Unanswered
  <2>2. CASE conn'[d] = conn[d] /\ pc' = pc
    <3>1. (Held(d) <=> Held(d)') /\ (Ended(d) <=> Ended(d)')
      BY <2>2 DEF Held, Ended
    <3>2. CASE Held(d)
      <4>1. Phase(d) = IF pc = "system" THEN "running"
                       ELSE IF ran[d] > 0 THEN "ran" ELSE "ignored"
        BY <2>1, <3>2, PhaseIs DEF PhaseTable
      <4>2. Phase(d)' = IF pc' = "system" THEN "running"
                        ELSE IF ran'[d] > 0 THEN "ran" ELSE "ignored"
        BY <2>1, <3>1, <3>2, PhaseThen DEF PhaseTable
      <4>3. QED
        BY <2>2, <4>1, <4>2
    <3>3. CASE ~Held(d)
      BY <2>1, <3>1, <3>3, PhaseIs, PhaseThen DEF PhaseTable
    <3>4. QED
      BY <3>2, <3>3
  <2>3. CASE /\ ~Held(d) /\ ~Held(d)' /\ (Ended(d) <=> Ended(d)')
             /\ conn[d] = "orphaned" <=> conn'[d] = "orphaned"
    BY <2>1, <2>3, PhaseIs, PhaseThen DEF PhaseTable
  <2>4. QED
    BY <2>2, <2>3
<1>4. QED
  BY <1>2, <1>3

(* A step in which every client stands still.                              *)
LEMMA NoneMoves ==
  ASSUME \A d \in Clients : Phase(d)' = Phase(d) PROVE UNCHANGED Progress
BY Zenon DEF Progress

(* A step in which one client moves on.                                    *)
LEMMA OneMoves ==
  ASSUME NEW c \in Clients, NEW f, NEW t, Phase(c) = f, Phase(c)' = t,
         \A d \in Clients : d # c => Phase(d)' = Phase(d)
  PROVE  Service!Move(c, f, t)
<1>1. Progress[c] = f /\ Progress' = [Progress EXCEPT ![c] = t]
  BY DEF Progress
<1>2. QED
  BY <1>1 DEF Service!Move, Progress

(* A step in which some clients lose their commands or their server, and   *)
(* nobody moves.                                                           *)
LEMMA SomeLose ==
  ASSUME NEW L, L \subseteq Clients,
         \A c \in L :
           /\ Phase(c) \notin {"answered", "rejected", "lost"}
           /\ Phase(c)' = IF Phase(c) = "running" THEN "orphaned" ELSE "lost",
         \A d \in Clients \ L : Phase(d)' = Phase(d)
  PROVE  [Service!Next]_Progress
<1>1. CASE L = {}
  BY <1>1, NoneMoves
<1>2. CASE L # {}
  <2>1. \A c \in L : Progress[c] \notin {"answered", "rejected", "lost"}
    BY DEF Progress
  <2>2. Progress' = [c \in Clients |->
                      IF c \notin L THEN Progress[c]
                      ELSE IF Progress[c] = "running" THEN "orphaned"
                      ELSE "lost"]
    BY DEF Progress
  <2>3. Service!Lose
    BY <1>2, <2>1, <2>2 DEF Service!Lose, Progress
  <2>4. QED
    BY <2>3 DEF Service!Next
<1>3. QED
  BY <1>1, <1>2

(* Outside system() and the send() after it no command is in hand.         *)
LEMMA NobodyHeld ==
  ASSUME AllInv, pc \notin {"system", "send_ok"} PROVE Service!NobodyInHand
<1>1. SUFFICES ASSUME NEW d \in Clients PROVE Phase(d) \notin {"running", "ran", "ignored"}
  BY DEF Service!NobodyInHand, Service!InHand
<1>2. /\ reply[d] \in {"none", "execute ok", "failed execute"}
      /\ reply[d] # "none" => conn[d] = "closed"
      /\ ~Held(d)
  BY ServiceTypes DEF Held
<1>3. QED
  BY <1>2, PhaseIs DEF PhaseTable, Unanswered

(* A command that is neither over nor in system() may be lost.             *)
LEMMA NotOver ==
  ASSUME NEW c \in Clients, Unanswered(c), ~Ended(c),
         ~(conn[c] = "accepted" /\ pc = "system")
  PROVE  Phase(c) \notin {"answered", "rejected", "lost", "running"}
<1>1. CASE Held(c)
  <2>1. pc # "system"
    BY <1>1 DEF Held
  <2>2. QED
    BY <1>1, <2>1, PhaseIs DEF PhaseTable
<1>2. CASE ~Held(c)
  BY <1>2, PhaseIs DEF PhaseTable
<1>3. QED
  BY <1>1, <1>2

(* A connection that ends unanswered.                                      *)
LEMMA NowLost ==
  ASSUME NEW c \in Clients, Unanswered(c)', Ended(c)', conn'[c] # "orphaned"
  PROVE  Phase(c)' = "lost"
BY PhaseThen DEF PhaseTable

(* A step of the server in which it serves cur: everybody else stands.     *)
LEMMA OthersStand ==
  ASSUME AllInv, UNCHANGED <<arrived>>,
         \A d \in Clients : d # cur =>
           conn'[d] = conn[d] /\ reply'[d] = reply[d] /\ ran'[d] = ran[d]
  PROVE  \A d \in Clients : d # cur => Phase(d)' = Phase(d)
<1> SUFFICES ASSUME NEW d \in Clients, d # cur PROVE Phase(d)' = Phase(d)
  OBVIOUS
<1>1. conn[d] # "accepted" /\ (reply[d] # "none" => conn[d] = "closed")
  BY ServiceTypes
<1>2. ~Held(d) /\ ~Held(d)' /\ (Ended(d) <=> Ended(d)')
  BY <1>1 DEF Held, Ended
<1>3. QED
  BY <1>1, <1>2, PhaseKept

(* Calls that touch no connection and start or end no command.             *)
LEMMA ServerQuiet ==
  ASSUME AllInv, UNCHANGED <<conn, reply, ran, arrived>>,
         pc \notin {"system", "send_ok"}, pc' \notin {"system", "send_ok"}
  PROVE  UNCHANGED Progress
<1>1. ASSUME NEW d \in Clients PROVE Phase(d)' = Phase(d)
  <2>1. reply[d] # "none" => conn[d] = "closed"
    BY ServiceTypes
  <2>2. ~Held(d) /\ ~Held(d)' /\ (Ended(d) <=> Ended(d)')
    BY DEF Held, Ended
  <2>3. QED
    BY <2>1, <2>2, PhaseKept
<1>2. QED
  BY <1>1, NoneMoves

(* recv() starts a command, or finds that it is none.                      *)
LEMMA RecvRefines == AllInv /\ Recv => [Service!Next]_Progress
<1> SUFFICES ASSUME AllInv, Recv PROVE [Service!Next]_Progress
  OBVIOUS
<1>1. PICK c \in Clients : c = cur
  BY ServiceTypes DEF Recv, Serving
<1>2. /\ pc = "recv" /\ arrived[c] > 0
      /\ UNCHANGED <<conn, reply, arrived>>
  BY <1>1 DEF Recv, socketVars
<1>3. conn[c] = "accepted" /\ reply[c] = "none" /\ ran[c] = 0
  BY <1>1, <1>2, ServiceTypes DEF StoryInv, Story
<1>4. /\ ran \in [Clients -> Nat]
      /\ \A d \in Clients : d # cur => ran'[d] = ran[d]
  BY AnswerTypes DEF Recv, AllInv
<1>5. \A d \in Clients : d # c => Phase(d)' = Phase(d)
  BY <1>1, <1>2, <1>4, OthersStand
<1>6. Phase(c) = "submitted"
  <2>1. Unanswered(c) /\ ~Ended(c) /\ ~Held(c)
    BY <1>2, <1>3 DEF Unanswered, Ended, Held
  <2>2. QED
    BY <1>2, <2>1, PhaseIs DEF PhaseTable
<1>7. Service!NobodyInHand
  BY <1>2, NobodyHeld
<1>8. pc' \in {"system", "send_ok"} => (Unanswered(c) /\ Held(c))'
  BY <1>2, <1>3 DEF Unanswered, Held
<1>9. CASE IsSystem(cur)
  <2>1. Phase(c)' = "running"
    BY <1>8, <1>9, PhaseThen DEF PhaseTable, Recv
  <2>2. Service!Start(c)
    BY <1>5, <1>6, <1>7, <2>1, OneMoves DEF Service!Start
  <2>3. QED
    BY <2>2 DEF Service!Next
<1>10. CASE ~IsSystem(cur)
  <2>1. pc' = "send_ok" /\ ran' = ran
    BY <1>10 DEF Recv
  <2>2. c \notin UnixClients
    <3>1. SUFFICES ASSUME c \in UnixClients PROVE FALSE
      OBVIOUS
    <3>2. arrived[c] \in {0, FrameLength(c)}
      BY <3>1, ServiceTypes DEF AnswerInv, StageInv
    <3>3. arrived[c] = FrameLength(c)
      BY <1>2, <3>2
    <3>4. QED
      BY <1>1, <1>10, <3>1, <3>3, WholeCommand
  <2>3. Phase(c)' = "ignored"
    <3>1. pc' # "system" /\ ~(ran'[c] > 0)
      BY <1>3, <2>1
    <3>2. QED
      BY <1>8, <2>1, <3>1, PhaseThen DEF PhaseTable
  <2>4. Service!Ignore(c)
    BY <1>5, <1>6, <1>7, <2>2, <2>3, OneMoves DEF Service!Ignore
  <2>5. QED
    BY <2>4 DEF Service!Next
<1>11. QED
  BY <1>9, <1>10

(* The shell ends the command.                                             *)
LEMMA ReturnRefines == AllInv /\ SystemReturns => [Service!Next]_Progress
<1> SUFFICES ASSUME AllInv, SystemReturns PROVE [Service!Next]_Progress
  OBVIOUS
<1>1. PICK c \in Clients : c = cur
  BY ServiceTypes DEF SystemReturns, Serving
<1>2. /\ pc = "system" /\ pc' = "send_ok"
      /\ UNCHANGED <<conn, reply, arrived, ran>>
  BY DEF SystemReturns, socketVars
<1>3. conn[c] = "accepted" /\ reply[c] = "none" /\ ran[c] > 0
  BY <1>1, <1>2, ServiceTypes DEF StoryInv, Story
<1>4. \A d \in Clients : d # c => Phase(d)' = Phase(d)
  BY <1>1, <1>2, OthersStand
<1>5. (Unanswered(c) /\ Held(c)) /\ (Unanswered(c) /\ Held(c))'
  BY <1>2, <1>3 DEF Unanswered, Held
<1>6. Phase(c) = "running"
  BY <1>2, <1>5, PhaseIs DEF PhaseTable
<1>7. Phase(c)' = "ran"
  <2>1. pc' # "system" /\ ran'[c] > 0
    BY <1>2, <1>3
  <2>2. QED
    BY <1>5, <2>1, PhaseThen DEF PhaseTable
<1>8. Service!Finish(c)
  BY <1>4, <1>6, <1>7, OneMoves DEF Service!Finish
<1>9. QED
  BY <1>8 DEF Service!Next

(* The server closes the connection it serves without an answer, or with   *)
(* one that gets lost.                                                     *)
LEMMA ClosedRefines ==
  ASSUME AllInv, pc \in Serving, pc # "system", CloseServerEnd(cur),
         UNCHANGED <<reply, ran, arrived>>
  PROVE  [Service!Next]_Progress
<1>1. PICK c \in Clients : c = cur
  BY ServiceTypes
<1>2. conn[c] = "accepted" /\ reply[c] = "none"
  BY <1>1, ServiceTypes
<1>3. conn' = [conn EXCEPT ![cur] = "closed"] /\ conn'[c] = "closed"
  BY <1>1, OwnTypes DEF CloseServerEnd, AllInv
<1>4. \A d \in Clients : d # c => Phase(d)' = Phase(d)
  BY <1>1, <1>3, OthersStand
<1>5. Phase(c) \notin {"answered", "rejected", "lost", "running"}
  BY <1>2, NotOver DEF Unanswered, Ended
<1>6. Phase(c)' = "lost"
  BY <1>2, <1>3, NowLost DEF Unanswered, Ended
<1>7. QED
  <2> DEFINE L == {c}
  <2>1. L \subseteq Clients
    OBVIOUS
  <2>2. \A e \in L : /\ Phase(e) \notin {"answered", "rejected", "lost"}
                     /\ Phase(e)' = IF Phase(e) = "running" THEN "orphaned" ELSE "lost"
    BY <1>5, <1>6
  <2>3. \A d \in Clients \ L : Phase(d)' = Phase(d)
    BY <1>4
  <2> HIDE DEF L
  <2>4. QED
    BY <2>1, <2>2, <2>3, SomeLose

(* send() and close().                                                     *)
LEMMA SendRefines == AllInv /\ SendReply => [Service!Next]_Progress
<1> SUFFICES ASSUME AllInv, SendReply PROVE [Service!Next]_Progress
  OBVIOUS
<1>1. /\ pc \in {"send_ok", "send_fail"}
      /\ CloseServerEnd(cur)
      /\ UNCHANGED <<arrived, ran>>
  BY DEF SendReply, runVars
<1>2. PICK c \in Clients : c = cur
  BY <1>1, ServiceTypes DEF Serving
<1>3. conn[c] = "accepted" /\ reply[c] = "none"
  BY <1>2, ServiceTypes
<1>4. CASE reply' = reply
  BY <1>1, <1>4, ClosedRefines DEF Serving
<1>5. CASE open[cur] /\ reply' = [reply EXCEPT ![cur] = Answer]
  <2>1. /\ reply \in [Clients -> Replies]
        /\ conn' = [conn EXCEPT ![cur] = "closed"] /\ conn'[c] = "closed"
    BY <1>1, <1>2, OwnTypes, AnswerTypes DEF CloseServerEnd, AllInv
  <2>2. \A d \in Clients : d # c => Phase(d)' = Phase(d)
    BY <1>1, <1>2, <1>5, <2>1, OthersStand
  <2>3. CASE pc = "send_ok"
    <3>1. reply'[c] = "execute ok"
      BY <1>2, <1>5, <2>1, <2>3 DEF Answer
    <3>2. Phase(c) \in {"ran", "ignored"}
      <4>1. Unanswered(c) /\ Held(c)
        BY <1>3, <2>3 DEF Unanswered, Held
      <4>2. QED
        BY <2>3, <4>1, PhaseIs DEF PhaseTable
    <3>3. Phase(c)' = "answered"
      BY <2>1, <3>1, PhaseThen DEF PhaseTable
    <3>4. Service!Answer(c)
      BY <2>2, <3>2, <3>3, OneMoves DEF Service!Answer
    <3>5. QED
      BY <3>4 DEF Service!Next
  <2>4. CASE pc = "send_fail"
    <3>1. reply'[c] = "failed execute"
      BY <1>2, <1>5, <2>1, <2>4 DEF Answer
    <3>2. c \notin UnixClients
      BY <1>2, <1>5, <2>4, ServiceTypes DEF AnswerInv, StageInv
    <3>3. arrived[c] = 0
      BY <1>2, <2>4, <3>2, ServiceTypes DEF StoryInv, Story, Clients
    <3>4. Phase(c) = "new"
      <4>1. Unanswered(c) /\ ~Ended(c) /\ ~Held(c)
        BY <1>3, <2>4 DEF Unanswered, Ended, Held
      <4>2. ~(arrived[c] > 0)
        BY <3>3
      <4>3. QED
        BY <4>1, <4>2, PhaseIs DEF PhaseTable
    <3>5. Phase(c)' = "rejected"
      BY <2>1, <3>1, PhaseThen DEF PhaseTable
    <3>6. Service!NobodyInHand
      BY <2>4, NobodyHeld
    <3>7. Service!Reject(c)
      BY <2>2, <3>2, <3>4, <3>5, <3>6, OneMoves DEF Service!Reject
    <3>8. QED
      BY <3>7 DEF Service!Next
  <2>5. QED
    BY <1>1, <2>3, <2>4
<1>6. QED
  BY <1>4, <1>5 DEF SendReply

(* A server that dies loses every command that waits or is in its hands;   *)
(* the one in system() goes on without it.                                 *)
LEMMA DeathRefines == AllInv /\ ServerDies => [Service!Next]_Progress
<1> SUFFICES ASSUME AllInv, ServerDies PROVE [Service!Next]_Progress
  OBVIOUS
<1> DEFINE L == {c \in Clients : conn[c] \in {"queued", "accepted"}}
<1>1. /\ ServerSocketsDie(cur, pc = "system")
      /\ UNCHANGED <<reply, arrived, ran>>
  BY DEF ServerDies, ServerSocketsDie, runVars
<1>2. ASSUME NEW c \in L
      PROVE  /\ Phase(c) \notin {"answered", "rejected", "lost"}
             /\ Phase(c)' = IF Phase(c) = "running" THEN "orphaned" ELSE "lost"
  <2>1. c \in Clients /\ reply[c] = "none" /\ conn[c] \in {"queued", "accepted"}
    BY ServiceTypes
  <2>2. conn[c] = "accepted" <=> c = cur
    BY <2>1, ServiceTypes
  <2>3. CASE conn[c] = "accepted" /\ pc = "system"
    <3>1. conn'[c] = "orphaned" /\ reply'[c] = "none"
      BY <1>1, <2>1, <2>2, <2>3 DEF ServerSocketsDie
    <3>2. Unanswered(c) /\ Held(c) /\ (Unanswered(c) /\ Ended(c))'
      BY <2>1, <2>3, <3>1 DEF Unanswered, Held, Ended
    <3>3. Phase(c) = "running"
      BY <2>1, <2>3, <3>2, PhaseIs DEF PhaseTable
    <3>4. Phase(c)' = "orphaned"
      BY <2>1, <3>1, <3>2, PhaseThen DEF PhaseTable
    <3>5. QED
      BY <3>3, <3>4
  <2>4. CASE ~(conn[c] = "accepted" /\ pc = "system")
    <3>1. conn'[c] = "closed" /\ reply'[c] = "none"
      BY <1>1, <2>1, <2>2, <2>4 DEF ServerSocketsDie
    <3>2. Phase(c) \notin {"answered", "rejected", "lost", "running"}
      BY <2>1, <2>4, NotOver DEF Unanswered, Ended
    <3>3. Phase(c)' = "lost"
      BY <2>1, <3>1, NowLost DEF Unanswered, Ended
    <3>4. QED
      BY <3>2, <3>3
  <2>5. QED
    BY <2>3, <2>4
<1>3. ASSUME NEW d \in Clients \ L PROVE Phase(d)' = Phase(d)
  <2>1. /\ d \in Clients /\ conn[d] \notin {"queued", "accepted"} /\ d # cur
        /\ reply[d] # "none" => conn[d] = "closed"
    BY ServiceTypes
  <2>2. conn'[d] = conn[d]
    BY <1>1, <2>1 DEF ServerSocketsDie
  <2>3. ~Held(d) /\ ~Held(d)' /\ (Ended(d) <=> Ended(d)')
    BY <2>1, <2>2 DEF Held, Ended
  <2>4. QED
    BY <1>1, <2>1, <2>2, <2>3, PhaseKept
<1>4. L \subseteq Clients
  OBVIOUS
<1> HIDE DEF L
<1>5. QED
  BY <1>2, <1>3, <1>4, SomeLose

(* The server moves the commands on as CommandService allows.              *)
LEMMA ServerRefines ==
  AllInv /\ (Server \/ ServerEnvironment) => [Service!Next]_Progress
<1> SUFFICES ASSUME AllInv, Server \/ ServerEnvironment PROVE [Service!Next]_Progress
  OBVIOUS
<1>1. CASE StartUnixSocket \/ BindUnixSocket \/ StartTcpSocket \/ Poll \/ Restart
  BY <1>1, ServerQuiet
  DEF StartUnixSocket, BindUnixSocket, StartTcpSocket, Poll, Restart, socketVars, runVars
<1>2. CASE GetsockoptSucceeds \/ RecvNothing \/ \E l \in Listeners : AcceptFails(l)
  BY <1>2, ServerQuiet
  DEF GetsockoptSucceeds, RecvNothing, AcceptFails, AfterHandle, socketVars, runVars
<1>3. CASE \E l \in Listeners : Accept(l)
  <2>1. PICK l \in Listeners : Accept(l)
    BY <1>3
  <2>2. conn[Head(queue[l])] = "queued" /\ Head(queue[l]) \in Clients
    BY <2>1, QueueShortened DEF AllInv, OwnInv, Waiting
  <2>3. /\ conn' = [conn EXCEPT ![Head(queue[l])] = "accepted"]
        /\ UNCHANGED <<reply, ran, arrived>>
        /\ pc = "scan" /\ pc' = "getsockopt"
    BY <2>1 DEF Accept, runVars
  <2>4. ASSUME NEW d \in Clients PROVE Phase(d)' = Phase(d)
    <3>1. /\ \/ conn'[d] = conn[d]
             \/ conn[d] = "queued" /\ conn'[d] = "accepted"
          /\ reply[d] # "none" => conn[d] = "closed"
      BY <2>2, <2>3, OwnTypes, ServiceTypes DEF AllInv
    <3>2. ~Held(d) /\ ~Held(d)' /\ (Ended(d) <=> Ended(d)')
      BY <2>3, <3>1 DEF Held, Ended
    <3>3. QED
      BY <2>3, <3>1, <3>2, PhaseKept
  <2>5. QED
    BY <2>4, NoneMoves
<1>4. CASE GetsockoptFails
  BY <1>4, ClosedRefines DEF GetsockoptFails, runVars, Serving
<1>5. CASE SendSigpipe \/ RecvOverruns \/ ServerKilled
  BY <1>5, DeathRefines DEF SendSigpipe, RecvOverruns, ServerKilled
<1>6. QED
  BY <1>1, <1>2, <1>3, <1>4, <1>5, RecvRefines, ReturnRefines, SendRefines
  DEF Server, ServerStep, ServerEnvironment

(* Steps of the clients and the kernel that bring no first byte and refuse *)
(* nobody.                                                                 *)
LEMMA ClientQuiet ==
  ASSUME AllInv, UNCHANGED <<reply, ran, pc>>,
         \A d \in Clients :
           /\ arrived'[d] = arrived[d]
           /\ \/ conn'[d] = conn[d]
              \/ conn[d] = "none" /\ conn'[d] = "queued"
  PROVE  [Service!Next]_Progress
<1>1. ASSUME NEW d \in Clients PROVE Phase(d)' = Phase(d)
  <2>1. reply[d] # "none" => conn[d] = "closed"
    BY ServiceTypes
  <2>2. CASE conn'[d] = conn[d]
    BY <2>2, PhaseKept
  <2>3. CASE conn'[d] # conn[d]
    <3>1. ~Held(d) /\ ~Held(d)' /\ (Ended(d) <=> Ended(d)')
      BY <2>3 DEF Held, Ended
    <3>2. QED
      BY <2>1, <2>3, <3>1, PhaseKept
  <2>4. QED
    BY <2>2, <2>3
<1>2. QED
  BY <1>1, NoneMoves

(* The first bytes that arrive submit a command; later ones change nothing.*)
LEMMA BytesRefine ==
  ASSUME AllInv, NEW c \in Clients, NEW n \in Nat, n > 0,
         conn[c] \in {"queued", "accepted"},
         arrived' = [arrived EXCEPT ![c] = n],
         UNCHANGED <<conn, reply, ran, pc>>
  PROVE  [Service!Next]_Progress
<1>1. /\ arrived \in [Clients -> Nat] /\ arrived'[c] = n
      /\ \A d \in Clients : d # c => arrived'[d] = arrived[d]
  BY AnswerTypes DEF AllInv
<1>2. \A d \in Clients : d # c => Phase(d)' = Phase(d)
  BY <1>1, PhaseKept
<1>3. /\ Unanswered(c) /\ ~Ended(c)
      /\ (Unanswered(c) /\ ~Ended(c))'
      /\ Held(c) <=> Held(c)'
  BY ServiceTypes DEF Unanswered, Ended, Held
<1>4. CASE Held(c)
  <2>1. Phase(c) = IF pc = "system" THEN "running"
                   ELSE IF ran[c] > 0 THEN "ran" ELSE "ignored"
    BY <1>3, <1>4, PhaseIs DEF PhaseTable
  <2>2. Phase(c)' = IF pc' = "system" THEN "running"
                    ELSE IF ran'[c] > 0 THEN "ran" ELSE "ignored"
    BY <1>3, <1>4, PhaseThen DEF PhaseTable
  <2>3. Phase(c)' = Phase(c)
    BY <2>1, <2>2
  <2>4. QED
    BY <1>2, <2>3, NoneMoves
<1>5. CASE ~Held(c)
  <2>1. Phase(c)' = "submitted"
    BY <1>1, <1>3, <1>5, PhaseThen DEF PhaseTable
  <2>2. Phase(c) \in {"new", "submitted"}
    BY <1>3, <1>5, PhaseIs DEF PhaseTable
  <2>3. CASE Phase(c) = "new"
    <3>1. Service!Submit(c)
      BY <1>2, <2>1, <2>3, OneMoves DEF Service!Submit
    <3>2. QED
      BY <3>1 DEF Service!Next
  <2>4. CASE Phase(c) = "submitted"
    BY <1>2, <2>1, <2>4, NoneMoves
  <2>5. QED
    BY <2>2, <2>3, <2>4
<1>6. QED
  BY <1>4, <1>5

(* So do the threads of the app.                                           *)
LEMMA ThreadRefines ==
  AllInv /\ (\E c \in UnixClients : Thread(c)) => [Service!Next]_Progress
<1> SUFFICES ASSUME AllInv, NEW c \in UnixClients, Thread(c)
             PROVE  [Service!Next]_Progress
  OBVIOUS
<1>1. UNCHANGED <<ran, pc>>
  BY DEF Thread, serverVars, runVars
<1>2. /\ c \in Clients
      /\ cpc[c] = "connect" => conn[c] = "none"
      /\ conn \in [Clients -> {"none", "refused", "queued", "accepted", "orphaned", "closed"}]
  BY OwnTypes DEF Clients, AllInv, OwnInv, FreshInv
<1>3. CASE Connect(c)
  BY <1>1, <1>2, <1>3, ClientQuiet DEF Connect, Enqueue
<1>4. CASE ConnectRefused(c)
  <2>1. /\ conn' = [conn EXCEPT ![c] = "refused"]
        /\ conn[c] = "none" /\ UNCHANGED <<reply, arrived>>
    BY <1>2, <1>4 DEF ConnectRefused
  <2>2. reply[c] = "none"
    BY <1>2, <2>1, ServiceTypes
  <2>3. Phase(c) \notin {"answered", "rejected", "lost", "running"}
    BY <1>2, <2>1, <2>2, NotOver DEF Unanswered, Ended
  <2>4. Phase(c)' = "lost"
    <3>1. reply'[c] = "none" /\ conn'[c] = "refused"
      BY <1>2, <2>1, <2>2
    <3>2. QED
      BY <1>2, <3>1, NowLost DEF Unanswered, Ended
  <2>5. ASSUME NEW d \in Clients, d # c PROVE Phase(d)' = Phase(d)
    <3>1. conn'[d] = conn[d]
      BY <1>2, <2>1, <2>5
    <3>2. QED
      BY <1>1, <2>1, <3>1, PhaseKept
  <2>6. QED
    <3> DEFINE L == {c}
    <3>1. L \subseteq Clients
      BY <1>2
    <3>2. \A e \in L : /\ Phase(e) \notin {"answered", "rejected", "lost"}
                       /\ Phase(e)' = IF Phase(e) = "running" THEN "orphaned" ELSE "lost"
      BY <2>3, <2>4
    <3>3. \A d \in Clients \ L : Phase(d)' = Phase(d)
      BY <2>5
    <3> HIDE DEF L
    <3>4. QED
      BY <3>1, <3>2, <3>3, SomeLose
<1>5. CASE Write(c)
  <2>1. CASE conn[c] \in {"queued", "accepted"}
    <3>1. FrameLength(c) \in Nat /\ FrameLength(c) > 0
      BY <1>2, PayloadAssumption DEF FrameLength, HEAD
    <3>2. /\ arrived' = [arrived EXCEPT ![c] = FrameLength(c)]
          /\ UNCHANGED <<conn, reply>>
      BY <1>5, <2>1 DEF Write
    <3>3. QED
      BY <1>1, <1>2, <2>1, <3>1, <3>2, BytesRefine
  <2>2. CASE conn[c] \notin {"queued", "accepted"}
    BY <1>1, <1>5, <2>2, ClientQuiet DEF Write
  <2>3. QED
    BY <2>1, <2>2
<1>6. CASE WriteToNull(c) \/ ReadResponse(c)
  BY <1>1, <1>6, ClientQuiet DEF WriteToNull, AppDies, ReadResponse
<1>7. QED
  BY <1>3, <1>4, <1>5, <1>6 DEF Thread, ThreadStep

(* A command that has outlived its server comes to its end.                *)
LEMMA ChildRefines ==
  ASSUME AllInv, UNCHANGED <<ran, pc>>, NEW c \in Clients, ChildExits(c)
  PROVE  [Service!Next]_Progress
<1>1. /\ conn[c] = "orphaned" /\ reply[c] = "none"
      /\ conn' = [conn EXCEPT ![c] = "closed"] /\ conn'[c] = "closed"
      /\ UNCHANGED <<reply, arrived>>
  BY ServiceTypes, OwnTypes DEF ChildExits, CloseServerEnd, AllInv
<1>2. Phase(c) = "orphaned"
  BY <1>1, PhaseIs DEF PhaseTable, Unanswered, Ended
<1>3. Phase(c)' = "lost"
  BY <1>1, NowLost DEF Unanswered, Ended
<1>4. ASSUME NEW d \in Clients, d # c PROVE Phase(d)' = Phase(d)
  BY <1>1, <1>4, PhaseKept
<1>5. QED
  <2> DEFINE L == {c}
  <2>1. \A e \in L : /\ Phase(e) \notin {"answered", "rejected", "lost"}
                     /\ Phase(e)' = IF Phase(e) = "running" THEN "orphaned" ELSE "lost"
    BY <1>2, <1>3
  <2>2. L \subseteq Clients /\ \A d \in Clients \ L : Phase(d)' = Phase(d)
    BY <1>4
  <2> HIDE DEF L
  <2>3. QED
    BY <2>1, <2>2, SomeLose

(* So do the users, the TCP peers and the kernel.                          *)
LEMMA OthersRefine ==
  AllInv /\ (User \/ Kernel \/ \E c \in TcpClients : TcpPeer(c))
    => [Service!Next]_Progress
<1> SUFFICES ASSUME AllInv, User \/ Kernel \/ \E c \in TcpClients : TcpPeer(c)
             PROVE  [Service!Next]_Progress
  OBVIOUS
<1>1. UNCHANGED <<reply, ran, pc>>
  BY DEF User, AppKilled, AppDies, Launch, Click, Kernel, TimeWaitExpires,
         ChildExits, TcpPeer, TcpConnect, TcpSegment, TcpShutdown, TcpLeaves,
         serverVars, socketVars, runVars
<1>2. conn \in [Clients -> {"none", "refused", "queued", "accepted", "orphaned", "closed"}]
  BY OwnTypes DEF AllInv
<1>3. CASE User
  BY <1>1, <1>3, ClientQuiet DEF User, AppKilled, AppDies, Launch, Click, socketVars
<1>4. CASE Kernel
  <2>1. CASE TimeWaitExpires
    BY <1>1, <2>1, ClientQuiet DEF TimeWaitExpires
  <2>2. CASE \E c \in Clients : ChildExits(c)
    BY <1>1, <2>2, ChildRefines
  <2>3. QED
    BY <1>4, <2>1, <2>2 DEF Kernel
<1>5. CASE \E c \in TcpClients : TcpPeer(c)
  <2>1. PICK c \in TcpClients : TcpPeer(c)
    BY <1>5
  <2>2. c \in Clients
    BY DEF Clients
  <2>3. CASE TcpConnect(c)
    BY <1>1, <1>2, <2>2, <2>3, ClientQuiet DEF TcpConnect, Enqueue
  <2>4. CASE TcpSegment(c)
    <3>1. FrameLength(c) \in Nat
      BY <2>2, PayloadAssumption DEF FrameLength, HEAD
    <3>2. PICK n \in {m \in CutPoints : m < FrameLength(c)} \cup {FrameLength(c)} :
            arrived[c] < n /\ arrived' = [arrived EXCEPT ![c] = n]
      BY <2>4 DEF TcpSegment
    <3>3. n \in Nat /\ n > 0
      <4>1. arrived[c] \in Nat
        BY <2>2, ServiceTypes
      <4>2. n \in Nat
        BY <3>1, <3>2, CutPointsAssumption
      <4>3. QED
        BY <3>2, <4>1, <4>2
    <3>4. conn[c] \in {"queued", "accepted"} /\ UNCHANGED conn
      BY <2>4 DEF TcpSegment
    <3>5. QED
      BY <1>1, <2>2, <3>2, <3>3, <3>4, BytesRefine
  <2>5. CASE TcpShutdown(c) \/ TcpLeaves(c)
    BY <1>1, <2>5, ClientQuiet DEF TcpShutdown, TcpLeaves
  <2>6. QED
    BY <2>1, <2>3, <2>4, <2>5 DEF TcpPeer
<1>6. QED
  BY <1>3, <1>4, <1>5

(* Nobody has submitted anything at first.                                 *)
LEMMA ServiceInit == Init => Service!Init
<1> SUFFICES ASSUME Init, NEW c \in Clients PROVE Phase(c) = "new"
  BY Zenon DEF Service!Init
<1>1. Unanswered(c) /\ ~Ended(c) /\ ~Held(c) /\ ~(arrived[c] > 0)
  BY DEF Init, SocketsInit, Unanswered, Ended, Held
<1>2. QED
  BY <1>1, PhaseIs DEF PhaseTable

(* Seen from outside, the two programs are the command service: a server   *)
(* runs commands one at a time and each at most once, beside at most those *)
(* whose servers died while they ran; "execute ok" comes after the run,    *)
(* and no command of the app is answered without one.                      *)
THEOREM ServesCommands == Spec => ServiceSpec
<1>1. AllInv /\ [Next]_vars => [Service!Next]_Progress
  <2>1. AllInv /\ UNCHANGED vars => [Service!Next]_Progress
    BY ClientQuiet DEF vars, socketVars, serverVars, runVars
  <2>2. QED
    BY <2>1, ServerRefines, ThreadRefines, OthersRefine DEF Next
<1>2. Spec => []AllInv
  BY TypeCorrect, Owned, Answered, Storied, PTL DEF AllInv
<1>3. QED
  BY <1>1, <1>2, ServiceInit, PTL DEF Spec, ServiceSpec, Service!Spec, Progress
=============================================================================
