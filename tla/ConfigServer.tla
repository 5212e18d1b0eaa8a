---------------------------- MODULE ConfigServer ----------------------------
(***************************************************************************)
(* jconfigserver (configserver/jni/configserver.c): one process, one       *)
(* thread.  main() starts two listeners, polls them, and serves one        *)
(* connection at a time in handle_set_fd(): accept, look at the peer, one  *)
(* recv(), perhaps system(), one send(), close.  pc names the call the     *)
(* process is about to make.                                               *)
(***************************************************************************)
EXTENDS Sockets

CONSTANTS SystemCmd,   \* clients whose message starts with SYSTEM_CMD
          NoClient

ASSUME SystemCmdAssumption == SystemCmd \subseteq Clients
ASSUME NoClientAssumption == NoClient \notin Clients

VARIABLES
  pc,         \* the call the server is about to make
  ready,      \* listeners whose revents of the last poll() is not handled yet
  cur,        \* the client of the connection being served
  ran,        \* ran[c]: how many times system() was given the text of c
  text,       \* text[c]: what system() was given
  status,     \* status[c]: what system() returned
  overtaken   \* history: connections of the other listener accepted while
              \* a connection waited on this one, since its own last turn

serverVars == <<pc, ready, cur, ran, text, status, overtaken>>

(* A mutant: the head was forgotten when the buffer was sized.             *)
BufferWithoutHead == 60

BUFSZ == 64           \* sizeof(msg) and sizeof(msg_load)
SYSTEM_CMD_LEN == 6   \* strlen(SYSTEM_CMD)

Serving == {"getsockopt", "recv", "system", "send_ok", "send_fail"}

ServerTypeOK ==
  /\ pc \in {"start_unix_socket", "bind", "start_tcp_socket", "poll", "scan",
             "dead"} \cup Serving
  /\ ready \subseteq Listeners
  /\ cur \in Clients \cup {NoClient}
  /\ ran \in [Clients -> Nat]
  /\ text \in [Clients -> {"none", "whole", "prefix", "overrun"}]
  /\ status \in [Clients -> {"none", "zero", "nonzero"}]
  /\ overtaken \in [Listeners -> Nat]

ServerInit ==
  /\ pc = "start_unix_socket"
  /\ ready = {}
  /\ cur = NoClient
  /\ ran = [c \in Clients |-> 0]
  /\ text = [c \in Clients |-> "none"]
  /\ status = [c \in Clients |-> "none"]
  /\ overtaken = [l \in Listeners |-> 0]

runVars == <<ran, text, status>>

-----------------------------------------------------------------------------
(* socket() of the Unix listener, and unlink() of the path that an earlier *)
(* server may have left.  After a failure (out_close) unix_fd stays -1 and *)
(* main() goes on without this listener.                                   *)
StartUnixSocket ==
  /\ pc = "start_unix_socket"
  /\ \/ /\ sockfile' = FALSE
        /\ pc' = "bind"
        /\ UNCHANGED fd
     \/ /\ "socket" \in Faults
        /\ fd' = [fd EXCEPT !["unix"] = "failed"]
        /\ pc' = "start_tcp_socket"
        /\ UNCHANGED sockfile
  /\ UNCHANGED <<queue, conn, open, shut, arrived, reply, timeWait>>
  /\ UNCHANGED <<ready, cur, runVars, overtaken>>

(* bind() makes the path, and fails if it exists; then it is removed       *)
(* (out_unlink).  A listen() that fails is not looked at: the path stays,  *)
(* and nobody listens on it.                                               *)
BindUnixSocket ==
  /\ pc = "bind"
  /\ \/ /\ ~sockfile
        /\ fd' = [fd EXCEPT !["unix"] = "listening"]
        /\ sockfile' = TRUE
     \/ /\ sockfile \/ "socket" \in Faults
        /\ fd' = [fd EXCEPT !["unix"] = "failed"]
        /\ sockfile' = FALSE
     \/ /\ ~sockfile /\ "socket" \in Faults
        /\ fd' = [fd EXCEPT !["unix"] = "failed"]
        /\ sockfile' = TRUE
  /\ pc' = "start_tcp_socket"
  /\ UNCHANGED <<queue, conn, open, shut, arrived, reply, timeWait>>
  /\ UNCHANGED <<ready, cur, runVars, overtaken>>

(* Port 4444 is taken as long as a connection of an earlier server is: the *)
(* code does not set SO_REUSEADDR.                                         *)
PortTaken == timeWait \/ \E c \in TcpClients : conn[c] = "orphaned"

StartTcpSocket ==
  /\ pc = "start_tcp_socket"
  /\ \/ /\ ~PortTaken
        /\ fd' = [fd EXCEPT !["tcp"] = "listening"]
     \/ /\ PortTaken
        /\ fd' = [fd EXCEPT !["tcp"] = "inuse"]
     \/ /\ "socket" \in Faults
        /\ fd' = [fd EXCEPT !["tcp"] = "failed"]
  /\ pc' = "poll"
  /\ UNCHANGED <<queue, conn, open, shut, arrived, reply, sockfile, timeWait>>
  /\ UNCHANGED <<ready, cur, runVars, overtaken>>

(* A mutant: only ufds[0] is filled in.                                    *)
ReadableFirstOnly == {l \in {"unix"} : fd[l] = "listening" /\ queue[l] # <<>>}

(* The listeners poll() reports: it blocks while there is none.            *)
Readable == {l \in Listeners : fd[l] = "listening" /\ queue[l] # <<>>}

Poll ==
  /\ pc = "poll"
  /\ Readable # {}
  /\ ready' = Readable
  /\ pc' = "scan"
  /\ UNCHANGED <<cur, runVars, overtaken, socketVars>>

(* A mutant: a break after the first listener handled in a round.          *)
AfterHandleBreak(rest) == "poll"

(* Where main() goes when handle_set_fd() returns: to the next listener of *)
(* this round, or round the loop.                                          *)
AfterHandle(rest) == IF rest = {} THEN "poll" ELSE "scan"

(* ufds[0] is the Unix listener: it is looked at first.                    *)
NextToHandle(l) == l \in ready /\ (l = "tcp" => "unix" \notin ready)

Other(l) == IF l = "unix" THEN "tcp" ELSE "unix"

(* What the turn of listener l does to the history: l has had its turn,    *)
(* and the other listener was overtaken if someone waits on it.            *)
TurnOf(l) ==
  overtaken' = [overtaken EXCEPT
    ![l] = 0,
    ![Other(l)] = IF queue[Other(l)] = <<>> THEN 0 ELSE @ + 1]

Accept(l) ==
  /\ pc = "scan"
  /\ NextToHandle(l)
  /\ queue[l] # <<>>
  /\ cur' = Head(queue[l])
  /\ queue' = [queue EXCEPT ![l] = Tail(@)]
  /\ conn' = [conn EXCEPT ![Head(queue[l])] = "accepted"]
  /\ ready' = ready \ {l}
  /\ TurnOf(l)
  /\ pc' = "getsockopt"
  /\ UNCHANGED <<fd, open, shut, arrived, reply, sockfile, timeWait, runVars>>

(* accept() < 0: no connection any more (EAGAIN) or no descriptor for it.  *)
AcceptFails(l) ==
  /\ pc = "scan"
  /\ NextToHandle(l)
  /\ queue[l] = <<>> \/ "accept" \in Faults
  /\ ready' = ready \ {l}
  /\ overtaken' = [overtaken EXCEPT ![l] = 0]
  /\ pc' = AfterHandle(ready')
  /\ UNCHANGED <<cur, runVars, socketVars>>

GetsockoptSucceeds ==
  /\ pc = "getsockopt"
  /\ pc' = "recv"
  /\ UNCHANGED <<ready, cur, runVars, overtaken, socketVars>>

(* A mutant: the early return forgets close(s).                            *)
GetsockoptFailsLeaks ==
  /\ pc = "getsockopt"
  /\ "getsockopt" \in Faults
  /\ cur' = NoClient
  /\ pc' = AfterHandle(ready)
  /\ UNCHANGED <<ready, runVars, overtaken, socketVars>>

(* The connection is closed without an answer.                             *)
GetsockoptFails ==
  /\ pc = "getsockopt"
  /\ "getsockopt" \in Faults
  /\ CloseServerEnd(cur)
  /\ cur' = NoClient
  /\ pc' = AfterHandle(ready)
  /\ UNCHANGED <<fd, queue, open, shut, arrived, reply, sockfile>>
  /\ UNCHANGED <<ready, runVars, overtaken>>

-----------------------------------------------------------------------------
(* One recv() takes what has arrived, at most the buffer.                  *)
Received(c) == IF arrived[c] < BUFSZ THEN arrived[c] ELSE BUFSZ

(* strncmp() finds SYSTEM_CMD behind the head.  The length that the head   *)
(* carries is printed and not used.                                        *)
IsSystem(c) ==
  /\ Received(c) > HEAD
  /\ c \in SystemCmd
  /\ Received(c) - HEAD >= SYSTEM_CMD_LEN

(* sprintf("%s", msg + 4) copies up to the first NUL: the one behind the   *)
(* bytes received or, if these fill msg, one that happens to follow msg.   *)
PossibleTexts(c) ==
  LET part == IF Received(c) = FrameLength(c) THEN "whole" ELSE "prefix"
  IN  IF Received(c) < BUFSZ THEN {part} ELSE {part, "overrun"}

(* A mutant: the command is started in the background.                     *)
RecvWithoutWaiting ==
  /\ pc = "recv"
  /\ arrived[cur] > 0
  /\ IF IsSystem(cur)
     THEN /\ \E t \in PossibleTexts(cur) : text' = [text EXCEPT ![cur] = t]
          /\ ran' = [ran EXCEPT ![cur] = @ + 1]
     ELSE UNCHANGED <<ran, text>>
  /\ pc' = "send_ok"
  /\ UNCHANGED <<ready, cur, status, overtaken, socketVars>>

Recv ==
  /\ pc = "recv"
  /\ arrived[cur] > 0
  /\ IF IsSystem(cur)
     THEN /\ \E t \in PossibleTexts(cur) : text' = [text EXCEPT ![cur] = t]
          /\ ran' = [ran EXCEPT ![cur] = @ + 1]
          /\ pc' = "system"
     ELSE /\ pc' = "send_ok"
          /\ UNCHANGED <<ran, text>>
  /\ UNCHANGED <<ready, cur, status, overtaken, socketVars>>

(* A mutant: the accepted socket does not block, and EAGAIN counts as an   *)
(* error.                                                                  *)
RecvWouldBlock ==
  /\ pc = "recv"
  /\ arrived[cur] = 0
  /\ pc' = "send_fail"
  /\ UNCHANGED <<ready, cur, runVars, overtaken, socketVars>>

(* A mutant: r = 0 is not taken for an error.                              *)
RecvEofIsOk ==
  /\ pc = "recv"
  /\ arrived[cur] = 0
  /\ ~open[cur] \/ cur \in shut
  /\ pc' = "send_ok"
  /\ UNCHANGED <<ready, cur, runVars, overtaken, socketVars>>

(* The peer has stopped sending and sent nothing: recv() returns 0 (or -1  *)
(* after a reset).  While the peer may still send, recv() blocks.          *)
RecvNothing ==
  /\ pc = "recv"
  /\ arrived[cur] = 0
  /\ ~open[cur] \/ cur \in shut
  /\ pc' = "send_fail"
  /\ UNCHANGED <<ready, cur, runVars, overtaken, socketVars>>

(* The shell ends; its exit status is not looked at.                       *)
SystemReturns ==
  /\ pc = "system"
  /\ \/ status' = [status EXCEPT ![cur] = "zero"]
     \/ "command" \in Faults /\ status' = [status EXCEPT ![cur] = "nonzero"]
  /\ pc' = "send_ok"
  /\ UNCHANGED <<ready, cur, ran, text, overtaken, socketVars>>

(* A mutant: an answer that the client does not know.                      *)
AnswerUnknown == IF pc = "send_ok" THEN "execute ok" ELSE "failed"

(* STARTOK or STARTFAIL, by the branch the server is in.                   *)
Answer == IF pc = "send_ok" THEN "execute ok" ELSE "failed execute"

(* send() and close().  A reply to a TCP peer may be lost without an error:*)
(* the peer has gone, or bytes of it are left unread and close() resets.   *)
SendReply ==
  /\ pc \in {"send_ok", "send_fail"}
  /\ \/ /\ open[cur]
        /\ reply' = [reply EXCEPT ![cur] = Answer]
     \/ /\ cur \in TcpClients
        /\ reply' = reply
  /\ CloseServerEnd(cur)
  /\ cur' = NoClient
  /\ pc' = AfterHandle(ready)
  /\ UNCHANGED <<fd, queue, open, shut, arrived, sockfile>>
  /\ UNCHANGED <<ready, runVars, overtaken>>

-----------------------------------------------------------------------------
(* The process ends: main()'s variables are gone with it.                  *)
ServerDies ==
  /\ ServerSocketsDie(cur, pc = "system")
  /\ pc' = "dead"
  /\ ready' = {}
  /\ cur' = NoClient
  /\ overtaken' = [l \in Listeners |-> 0]
  /\ UNCHANGED runVars

(* send() to a peer that has closed raises SIGPIPE, which the server       *)
(* neither ignores nor suppresses with MSG_NOSIGNAL.  (On TCP only if the  *)
(* peer's reset has already arrived.)                                      *)
SendSigpipe ==
  /\ pc \in {"send_ok", "send_fail"}
  /\ ~open[cur]
  /\ ServerDies

(* sprintf() runs past msg into msg_load and beyond it.                    *)
RecvOverruns ==
  /\ pc = "recv"
  /\ Received(cur) = BUFSZ
  /\ ServerDies

(* The environment stops the server ...                                    *)
ServerKilled ==
  /\ "kill_server" \in Faults
  /\ pc # "dead"
  /\ ServerDies

(* ... and starts it again.                                                *)
Restart ==
  /\ pc = "dead"
  /\ pc' = "start_unix_socket"
  /\ UNCHANGED <<ready, cur, runVars, overtaken, socketVars>>

(* The steps of the running process, which never waits for the environment *)
(* in them except where the guards say so.                                 *)
ServerStep ==
  \/ StartUnixSocket
  \/ BindUnixSocket
  \/ StartTcpSocket
  \/ Poll
  \/ \E l \in Listeners : Accept(l) \/ AcceptFails(l)
  \/ GetsockoptSucceeds
  \/ GetsockoptFails
  \/ Recv
  \/ RecvNothing
  \/ SendReply
  \/ SendSigpipe
  \/ RecvOverruns
=============================================================================
