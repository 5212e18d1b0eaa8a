---------------------------- MODULE ShellCommand ----------------------------
(***************************************************************************)
(* The four methods of MainActivity that run a command in a child process: *)
(* execCommand() and execCommandArray(), which wait for its end and then   *)
(* read one of its streams, and execSuCommand() and execSuArrayCommand(),  *)
(* which type lines into a root shell and read its output.  The child and  *)
(* its pipes are external: a pipe holds PIPE units, and who writes more    *)
(* waits for the reader.                                                   *)
(***************************************************************************)
EXTENDS Naturals, Sequences

CONSTANTS Callers,  \* the threads that call these methods
          PIPE,     \* the units a pipe holds
          Loads     \* what one command may write

ASSUME PipeAssumption == PIPE \in Nat \ {0}
ASSUME LoadsAssumption == Loads \subseteq [out : Nat, err : Nat]

VARIABLES
  app,      \* the process of the app is running, or why it is not
  step,     \* the step of the call of each caller
  cmd,      \* its command
  sent,     \* how many lines the root shell was sent, "exit" included
  child,    \* the child of the call
  pipe,     \* what is in the pipes of the child's two streams
  service   \* what the lines of the buttons stop and start

callVars == <<step, cmd, sent, child, pipe>>
shellVars == <<app, callVars, service>>

Streams == {"out", "err"}
Services == {"adbd", "eth0"}
Quiet == [out |-> 0, err |-> 0]

(* A command of execCommand() has no lines; a line of a root shell stops   *)
(* or starts a service, or does something else.                            *)
Command(lines) == [su |-> TRUE, lines |-> lines]
Plain == [su |-> FALSE, lines |-> << >>]

NoChild == [alive |-> FALSE, ran |-> 0, code |-> 0, todo |-> Quiet]

Alive(c) == child[c].alive
Silent(c) == child[c].todo = Quiet

ShellTypeOK ==
  /\ step \in [Callers -> {"none", "exec", "write", "wait", "read", "returned", "threw"}]
  /\ \A c \in Callers :
       /\ sent[c] \in 0 .. Len(cmd[c].lines) + 1
       /\ child[c].ran \in 0 .. sent[c]
       /\ \A s \in Streams : pipe[c][s] \in 0 .. PIPE
  /\ service \in [Services -> {"up", "down"}]

ShellInit ==
  /\ app = "up"
  /\ step = [c \in Callers |-> "none"]
  /\ cmd = [c \in Callers |-> Plain]
  /\ sent = [c \in Callers |-> 0]
  /\ child = [c \in Callers |-> NoChild]
  /\ pipe = [c \in Callers |-> Quiet]
  /\ service = [s \in Services |-> "up"]

-----------------------------------------------------------------------------
(* The caller.                                                             *)
At(c, s) == app = "up" /\ step[c] = s
Goto(c, s) == step' = [step EXCEPT ![c] = s]

(* Runtime.exec(): the child starts with empty pipes; a plain command is   *)
(* under way at once.                                                      *)
Exec(c) ==
  /\ At(c, "exec")
  /\ Goto(c, IF cmd[c].su THEN "write" ELSE "wait")
  /\ \E load \in IF cmd[c].su THEN {Quiet} ELSE Loads :
       child' = [child EXCEPT ![c] = [NoChild EXCEPT !.alive = TRUE, !.todo = load]]
  /\ pipe' = [pipe EXCEPT ![c] = Quiet]
  /\ sent' = [sent EXCEPT ![c] = 0]
  /\ UNCHANGED <<app, cmd, service>>

(* There is no such program: IOException.                                  *)
ExecThrows(c) ==
  /\ At(c, "exec")
  /\ Goto(c, "threw")
  /\ UNCHANGED <<app, cmd, sent, child, pipe, service>>

(* A mutant: nobody types "exit".                                          *)
WriteLineNoExit(c) ==
  /\ At(c, "write")
  /\ Alive(c)
  /\ sent' = [sent EXCEPT ![c] = @ + 1]
  /\ Goto(c, IF sent'[c] = Len(cmd[c].lines) THEN "read" ELSE "write")
  /\ UNCHANGED <<app, cmd, child, pipe, service>>

(* A mutant: "exit" is typed twice.                                        *)
WriteLineTwice(c) ==
  /\ At(c, "write")
  /\ Alive(c)
  /\ sent' = [sent EXCEPT ![c] = @ + 1]
  /\ Goto(c, IF sent'[c] = Len(cmd[c].lines) + 2 THEN "read" ELSE "write")
  /\ UNCHANGED <<app, cmd, child, pipe, service>>

(* writeBytes() and flush() of one line; the last one is "exit".           *)
WriteLine(c) ==
  /\ At(c, "write")
  /\ Alive(c)
  /\ sent' = [sent EXCEPT ![c] = @ + 1]
  /\ Goto(c, IF sent'[c] = Len(cmd[c].lines) + 1 THEN "read" ELSE "write")
  /\ UNCHANGED <<app, cmd, child, pipe, service>>

(* The shell is gone: the write throws an IOException.                     *)
WriteThrows(c) ==
  /\ At(c, "write")
  /\ ~Alive(c)
  /\ Goto(c, "threw")
  /\ UNCHANGED <<app, cmd, sent, child, pipe, service>>

(* waitFor(): nobody reads either pipe yet.                                *)
WaitFor(c) ==
  /\ At(c, "wait")
  /\ ~Alive(c)
  /\ Goto(c, "read")
  /\ UNCHANGED <<app, cmd, sent, child, pipe, service>>

(* The stream that is read: the errors of a plain command that failed, the *)
(* output otherwise.                                                       *)
Stream(c) == IF ~cmd[c].su /\ child[c].code # 0 THEN "err" ELSE "out"

(* A mutant: one read() instead of the loop.                               *)
ReadOnce(c) ==
  /\ At(c, "read")
  /\ pipe[c][Stream(c)] > 0
  /\ pipe' = [pipe EXCEPT ![c][Stream(c)] = 0]
  /\ Goto(c, "returned")
  /\ UNCHANGED <<app, cmd, sent, child, service>>

(* read() takes what is there ...                                          *)
Read(c) ==
  /\ At(c, "read")
  /\ pipe[c][Stream(c)] > 0
  /\ pipe' = [pipe EXCEPT ![c][Stream(c)] = 0]
  /\ UNCHANGED <<app, step, cmd, sent, child, service>>

(* ... until the child has closed its end.                                 *)
EndOfStream(c) ==
  /\ At(c, "read")
  /\ pipe[c][Stream(c)] = 0
  /\ ~Alive(c)
  /\ Goto(c, "returned")
  /\ UNCHANGED <<app, cmd, sent, child, pipe, service>>

CallStep(c) ==
  \/ Exec(c) \/ ExecThrows(c)
  \/ WriteLine(c) \/ WriteThrows(c)
  \/ WaitFor(c)
  \/ Read(c) \/ EndOfStream(c)

-----------------------------------------------------------------------------
(* The child (external).                                                   *)

(* Without the app nobody reads: the write fails, and with it the command. *)
Emit(c, s) ==
  /\ Alive(c)
  /\ child[c].todo[s] > 0
  /\ IF app = "up"
     THEN /\ pipe[c][s] < PIPE
          /\ pipe' = [pipe EXCEPT ![c][s] = @ + 1]
          /\ child' = [child EXCEPT ![c].todo[s] = @ - 1]
     ELSE child' = [child EXCEPT ![c].todo = Quiet] /\ UNCHANGED pipe
  /\ UNCHANGED <<app, step, cmd, sent, service>>

(* The shell runs the lines one by one.                                    *)
RunLine(c) ==
  /\ cmd[c].su
  /\ Alive(c)
  /\ Silent(c)
  /\ child[c].ran < sent[c]
  /\ child[c].ran < Len(cmd[c].lines)
  /\ \E load \in Loads :
       child' = [child EXCEPT ![c].ran = @ + 1, ![c].todo = load]
  /\ LET line == cmd[c].lines[child[c].ran + 1]
     IN  service' = IF line.does = "work" THEN service
                    ELSE [service EXCEPT ![line.on] = line.does]
  /\ UNCHANGED <<app, step, cmd, sent, pipe>>

(* The child ends: a plain command that has written all, a shell that may  *)
(* not be root, has read "exit", or finds its input closed.                *)
Refused(c) == cmd[c].su /\ child[c].ran = 0

AtExit(c) ==
  \/ (child[c].ran = Len(cmd[c].lines) /\ sent[c] > child[c].ran)
  \/ (app # "up" /\ child[c].ran = sent[c])

Exit(c) ==
  /\ Alive(c)
  /\ Silent(c)
  /\ cmd[c].su => Refused(c) \/ AtExit(c)
  /\ \E code \in IF cmd[c].su THEN {0} ELSE {0, 1} :
       child' = [child EXCEPT ![c].alive = FALSE, ![c].code = code]
  /\ UNCHANGED <<app, step, cmd, sent, pipe, service>>

ChildStep(c) == (\E s \in Streams : Emit(c, s)) \/ RunLine(c) \/ Exit(c)

(* The child waits for somebody to read a pipe that its caller does not    *)
(* read: both while it waits for the end of a plain command, the errors of *)
(* a root shell.                                                           *)
Blocked(c, s) == Alive(c) /\ child[c].todo[s] > 0 /\ pipe[c][s] = PIPE

Jammed(c) == Blocked(c, "err") \/ (~cmd[c].su /\ Blocked(c, "out"))
=============================================================================
