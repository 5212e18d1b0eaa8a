---------------------------- MODULE SocketClient ----------------------------
(***************************************************************************)
(* The clients of jconfigserver.  A Unix client is one click on a button   *)
(* of MainActivity: a thread that makes a SocketClient (connect), calls    *)
(* writeMess() and then readNetResponseSync().  All these threads live in  *)
(* the one process of the app.  A TCP client is any peer of port 4444; the *)
(* repository holds no code for it.                                        *)
(***************************************************************************)
EXTENDS Sockets

VARIABLES cpc,     \* cpc[c]: the call the thread of click c is about to make
          appUp    \* the process of the app is running

clientVars == <<cpc, appUp>>

(* The commands that the five threads of MainActivity send: adb_start,     *)
(* adb_stop, wipe, led and dev, by their length in bytes.                  *)
CommandLengths == {18, 17, 32, 15, 58}

ASSUME CommandAssumption == \A c \in UnixClients : Payload[c] \in CommandLengths

Live == {"connect", "write", "read"}

ClientTypeOK ==
  /\ cpc \in [UnixClients -> {"idle", "done", "gone"} \cup Live]
  /\ appUp \in BOOLEAN

ClientInit ==
  /\ cpc = [c \in UnixClients |-> "idle"]
  /\ appUp = TRUE

-----------------------------------------------------------------------------
(* onClick() starts the thread.                                            *)
Click(c) ==
  /\ appUp
  /\ cpc[c] = "idle"
  /\ cpc' = [cpc EXCEPT ![c] = "connect"]
  /\ UNCHANGED <<appUp, socketVars>>

(* connect(): blocks while the queue is full.                              *)
Connect(c) ==
  /\ cpc[c] = "connect"
  /\ Enqueue(c)
  /\ cpc' = [cpc EXCEPT ![c] = "write"]
  /\ UNCHANGED <<fd, shut, arrived, reply, sockfile, timeWait, appUp>>

(* connect() throws an IOException, which is caught: os stays null.        *)
ConnectRefused(c) ==
  /\ cpc[c] = "connect"
  /\ fd["unix"] # "listening"
  /\ conn' = [conn EXCEPT ![c] = "refused"]
  /\ cpc' = [cpc EXCEPT ![c] = "write"]
  /\ UNCHANGED <<fd, queue, open, shut, arrived, reply, sockfile, timeWait, appUp>>

(* A mutant: the bytes stay in a buffer that nobody flushes.               *)
WriteUnflushed(c) ==
  /\ cpc[c] = "write"
  /\ conn[c] # "refused"
  /\ cpc' = [cpc EXCEPT ![c] = "read"]
  /\ UNCHANGED <<fd, queue, conn, open, shut, arrived, reply, sockfile, timeWait,
                 appUp>>

(* writeMess(): head and text in one write().  On a closed connection it   *)
(* throws an IOException, which is caught.                                 *)
Write(c) ==
  /\ cpc[c] = "write"
  /\ conn[c] # "refused"
  /\ arrived' = IF conn[c] \in {"queued", "accepted"}
                THEN [arrived EXCEPT ![c] = FrameLength(c)]
                ELSE arrived
  /\ cpc' = [cpc EXCEPT ![c] = "read"]
  /\ UNCHANGED <<fd, queue, conn, open, shut, reply, sockfile, timeWait, appUp>>

(* The app's process ends, with every thread and socket it has.            *)
AppDies ==
  /\ appUp' = FALSE
  /\ cpc' = [c \in UnixClients |-> IF cpc[c] \in Live THEN "gone" ELSE cpc[c]]
  /\ open' = [c \in Clients |-> open[c] /\ c \notin UnixClients]
  /\ UNCHANGED <<fd, queue, conn, shut, arrived, reply, sockfile, timeWait>>

(* writeMess() with os = null: the NullPointerException is no IOException, *)
(* nobody catches it, and Android ends the process.                        *)
WriteToNull(c) ==
  /\ cpc[c] = "write"
  /\ conn[c] = "refused"
  /\ AppDies

(* A mutant: one look for an answer instead of the loop.                   *)
ReadOnce(c) ==
  /\ cpc[c] = "read"
  /\ cpc' = [cpc EXCEPT ![c] = "done"]
  /\ open' = [open EXCEPT ![c] = FALSE]
  /\ UNCHANGED <<fd, queue, conn, shut, arrived, reply, sockfile, timeWait, appUp>>

(* readNetResponseSync() polls until an answer is there, then closes.  It  *)
(* takes no notice of a connection that the server closed unanswered.      *)
ReadResponse(c) ==
  /\ cpc[c] = "read"
  /\ reply[c] # "none"
  /\ cpc' = [cpc EXCEPT ![c] = "done"]
  /\ open' = [open EXCEPT ![c] = FALSE]
  /\ UNCHANGED <<fd, queue, conn, shut, arrived, reply, sockfile, timeWait, appUp>>

(* The user or the system ends the app, and starts it again.               *)
AppKilled ==
  /\ "kill_app" \in Faults
  /\ appUp
  /\ AppDies

Launch ==
  /\ ~appUp
  /\ appUp' = TRUE
  /\ UNCHANGED <<cpc, socketVars>>

ThreadStep(c) ==
  \/ Connect(c)
  \/ ConnectRefused(c)
  \/ Write(c)
  \/ WriteToNull(c)
  \/ ReadResponse(c)

-----------------------------------------------------------------------------
(* A TCP peer connects, its bytes arrive in segments cut anywhere, it may  *)
(* shut down its sending half, and it may leave at any moment.             *)
TcpConnect(c) ==
  /\ conn[c] = "none"
  /\ Enqueue(c)
  /\ UNCHANGED <<fd, shut, arrived, reply, sockfile, timeWait, clientVars>>

TcpSegment(c) ==
  /\ conn[c] \in {"queued", "accepted"}
  /\ open[c] /\ c \notin shut
  /\ \E n \in {m \in CutPoints : m < FrameLength(c)} \cup {FrameLength(c)} :
       /\ arrived[c] < n
       /\ arrived' = [arrived EXCEPT ![c] = n]
  /\ UNCHANGED <<fd, queue, conn, open, shut, reply, sockfile, timeWait, clientVars>>

TcpShutdown(c) ==
  /\ conn[c] \in {"queued", "accepted"}
  /\ open[c] /\ c \notin shut
  /\ shut' = shut \cup {c}
  /\ UNCHANGED <<fd, queue, conn, open, arrived, reply, sockfile, timeWait,
                 clientVars>>

TcpLeaves(c) ==
  /\ "tcp_leaves" \in Faults
  /\ open[c]
  /\ open' = [open EXCEPT ![c] = FALSE]
  /\ UNCHANGED <<fd, queue, conn, shut, arrived, reply, sockfile, timeWait, clientVars>>
=============================================================================
