------------------------- MODULE MainActivityProofs -------------------------
(***************************************************************************)
(* What the shell commands of MainActivity and its threads can rely on, for*)
(* any number of threads, any capacity of a pipe and anything that a       *)
(* command may write.                                                      *)
(***************************************************************************)
EXTENDS MainActivity, SequenceTheorems, TLAPS

Steps == {"none", "exec", "write", "wait", "read", "returned", "threw"}
Lines == [does : {"work", "up", "down"}, on : Services]
Commands == [su : BOOLEAN, lines : Seq(Lines)]
Loaded == [out : Nat, err : Nat]
Children == [alive : BOOLEAN, ran : Nat, code : {0, 1}, todo : Loaded]

(* The types of the variables of the calls.                                *)
CallTypes ==
  /\ step \in [Callers -> Steps]
  /\ cmd \in [Callers -> Commands]
  /\ sent \in [Callers -> Nat]
  /\ child \in [Callers -> Children]
  /\ pipe \in [Callers -> Loaded]
  /\ service \in [Services -> {"up", "down"}]
  /\ doing \in [Callers -> JobNames]
  /\ ip \in [Callers -> Nat]
  /\ app \in {"up", "killed", "crash button", "denied"}

(* How far the caller, the lines it typed, its child and the pipes can be  *)
(* apart.                                                                  *)
Ended(c) == child[c].ran \in {0, Len(cmd[c].lines)}

CallInv(c) ==
  /\ child[c].ran <= sent[c]
  /\ child[c].ran <= Len(cmd[c].lines)
  /\ sent[c] <= Len(cmd[c].lines) + 1
  /\ pipe[c].out <= PIPE /\ pipe[c].err <= PIPE
  /\ ~Alive(c) => Silent(c)
  /\ step[c] \in {"none", "exec"} => sent[c] = 0 /\ child[c] = NoChild
  /\ step[c] = "write" => cmd[c].su /\ sent[c] <= Len(cmd[c].lines)
  /\ step[c] = "wait" => ~cmd[c].su
  /\ cmd[c].su /\ step[c] \in {"read", "returned"} => sent[c] = Len(cmd[c].lines) + 1
  /\ step[c] \in {"returned", "threw"} => ~Alive(c) /\ (cmd[c].su => Ended(c))
  /\ step[c] = "returned" => pipe[c][Stream(c)] = 0
  /\ cmd[c].su /\ ~Alive(c) => Ended(c) \/ (app # "up" /\ child[c].ran = sent[c])

(* The command of a caller is the one of its script that is next.          *)
ScriptInv(c) ==
  /\ doing[c] = "none" <=> step[c] = "none"
  /\ doing[c] = "none" => cmd[c] = Plain /\ ip[c] = 0
  /\ doing[c] # "none" => /\ ip[c] \in 1 .. Len(Script(doing[c]))
                          /\ cmd[c] = Script(doing[c])[ip[c]]
  /\ c # "main" => doing[c] \in {"none", "clean"}

(* A service is down only in the middle of the lines of its button.        *)
ServiceInv ==
  /\ service["adbd"] = "down" => doing["main"] = "adb" /\ child["main"].ran = 2
  /\ service["eth0"] = "down" => doing["main"] = "mac" /\ child["main"].ran \in {1, 2}

ButtonInv ==
  /\ CallTypes
  /\ \A c \in Callers : CallInv(c) /\ ScriptInv(c)
  /\ ServiceInv

-----------------------------------------------------------------------------
(* The scripts, spelled out.                                               *)
LEMMA ScriptIs ==
  /\ Script("none") = << >>
  /\ Script("create") = <<Plain, Plain>>
  /\ Script("chmod") = <<Command(<<Work>>), Plain>>
  /\ Script("adb") = <<Command(<<Work, Line("down", "adbd"), Line("up", "adbd")>>)>>
  /\ Script("mac") = <<Command(<<Line("down", "eth0"), Work, Line("up", "eth0")>>)>>
  /\ Script("clean") = <<Plain, Command(<<Work>>), Plain>>
  BY Zenon DEF Script

(* A script is a short sequence of commands.                               *)
LEMMA ScriptTypes ==
  ASSUME NEW job \in JobNames
  PROVE  /\ Len(Script(job)) \in Nat
         /\ \A i \in 1 .. Len(Script(job)) : Script(job)[i] \in Commands
         /\ job # "none" => 1 \in 1 .. Len(Script(job))
<1>1. /\ Work \in Lines
      /\ Line("down", "adbd") \in Lines /\ Line("up", "adbd") \in Lines
      /\ Line("down", "eth0") \in Lines /\ Line("up", "eth0") \in Lines
  BY DEF Work, Line, Lines, Services
<1>2. Plain \in Commands
  BY DEF Plain, Commands
<1>3. \A lines \in Seq(Lines) : Command(lines) \in Commands
  BY DEF Command, Commands
<1>4. /\ Command(<<Work>>) \in Commands
      /\ Command(<<Work, Line("down", "adbd"), Line("up", "adbd")>>) \in Commands
      /\ Command(<<Line("down", "eth0"), Work, Line("up", "eth0")>>) \in Commands
  <2>1. \A a \in Lines : <<a>> \in Seq(Lines)
    OBVIOUS
  <2>2. \A a, b, c \in Lines : <<a, b, c>> \in Seq(Lines)
    OBVIOUS
  <2>3. QED
    BY <1>1, <1>3, <2>1, <2>2
<1> DEFINE Good(seq) == /\ Len(seq) \in Nat
                        /\ \A i \in 1 .. Len(seq) : seq[i] \in Commands
                        /\ 1 \in 1 .. Len(seq)
<1>5. /\ \A a \in Commands : Good(<<a>>)
      /\ \A a, b \in Commands : Good(<<a, b>>)
      /\ \A a, b, c \in Commands : Good(<<a, b, c>>)
  OBVIOUS
<1>6. CASE job = "none"
  BY <1>6, ScriptIs
<1>7. CASE job # "none"
  <2> HIDE DEF Good
  <2>1. /\ Good(Script("create"))
        /\ Good(Script("chmod"))
        /\ Good(Script("adb"))
        /\ Good(Script("mac"))
        /\ Good(Script("clean"))
    BY <1>2, <1>4, <1>5, ScriptIs, Zenon
  <2>2. Good(Script(job))
    BY <1>7, <2>1, Zenon DEF JobNames
  <2>3. QED
    BY <2>2 DEF Good
<1>8. QED
  BY <1>6, <1>7

-----------------------------------------------------------------------------
(* A unit more or less in one stream.                                      *)
LEMMA LoadedUpdate ==
  ASSUME NEW load \in Loaded, NEW s \in Streams
  PROVE  /\ load[s] \in Nat
         /\ \A n \in Nat : [load EXCEPT ![s] = n] \in Loaded
<1>1. CASE s = "out"
  BY <1>1 DEF Loaded
<1>2. CASE s = "err"
  BY <1>2 DEF Loaded
<1>3. QED
  BY <1>1, <1>2 DEF Streams

(* What a child has left to write, and how it goes on.                     *)
LEMMA ChildUpdate ==
  ASSUME NEW k \in Children, NEW load \in Loaded
  PROVE  /\ k.alive \in BOOLEAN /\ k.ran \in Nat /\ k.todo \in Loaded
         /\ [k EXCEPT !.todo = load] \in Children
         /\ \A n \in Nat : [k EXCEPT !.ran = n, !.todo = load] \in Children
         /\ \A n \in {0, 1} : [k EXCEPT !.alive = FALSE, !.code = n] \in Children
         /\ [k EXCEPT !.alive = TRUE, !.todo = load] \in Children
  BY DEF Children

(* What the types say of one caller.                                       *)
LEMMA CallerTypes ==
  ASSUME CallTypes, NEW c \in Callers
  PROVE  /\ step[c] \in Steps
         /\ cmd[c] \in Commands /\ cmd[c].lines \in Seq(Lines)
         /\ Len(cmd[c].lines) \in Nat
         /\ sent[c] \in Nat
         /\ child[c] \in Children /\ child[c].ran \in Nat /\ child[c].todo \in Loaded
         /\ pipe[c] \in Loaded /\ pipe[c].out \in Nat /\ pipe[c].err \in Nat
         /\ doing[c] \in JobNames
         /\ ip[c] \in Nat
<1>1. /\ step[c] \in Steps /\ cmd[c] \in Commands /\ sent[c] \in Nat
      /\ child[c] \in Children /\ pipe[c] \in Loaded
      /\ doing[c] \in JobNames /\ ip[c] \in Nat
  BY DEF CallTypes
<1>2. cmd[c].lines \in Seq(Lines)
  BY <1>1 DEF Commands
<1>3. QED
  BY <1>1, <1>2, LenProperties DEF Children, Loaded

(* One value of a function changes.                                        *)
LEMMA Update ==
  ASSUME NEW S, NEW T, NEW f \in [S -> T], NEW x \in S, NEW v \in T
  PROVE  [f EXCEPT ![x] = v] \in [S -> T]
  OBVIOUS

(* A step of a call and of its child keep the types.                       *)
LEMMA CallTypesKept ==
  ASSUME CallTypes, NEW c \in Callers, CallStep(c) \/ ChildStep(c),
         UNCHANGED <<doing, ip>>
  PROVE  CallTypes'
<1>1. NoChild \in Children /\ Quiet \in Loaded /\ Loads \subseteq Loaded
  BY LoadsAssumption DEF NoChild, Quiet, Children, Loaded
<1>2. \A s \in Steps : Goto(c, s) => step' \in [Callers -> Steps]
  BY Update DEF Goto, CallTypes
<1>3. \A k \in Children : child' = [child EXCEPT ![c] = k] => child' \in [Callers -> Children]
  BY Update DEF CallTypes
<1>4. \A q \in Loaded : pipe' = [pipe EXCEPT ![c] = q] => pipe' \in [Callers -> Loaded]
  BY Update DEF CallTypes
<1>5. \A n \in Nat : sent' = [sent EXCEPT ![c] = n] => sent' \in [Callers -> Nat]
  BY Update DEF CallTypes
<1>6. UNCHANGED <<app, cmd, doing, ip>>
  BY DEF CallStep, ChildStep, Exec, ExecThrows, WriteLine, WriteThrows, WaitFor, Read,
         EndOfStream, Emit, RunLine, Exit
<1>7. step' \in [Callers -> Steps]
  <2>1. CASE Exec(c) \/ WriteLine(c)
    <3>1. PICK s \in Steps : Goto(c, s)
      BY <2>1, Zenon DEF Exec, WriteLine, Steps
    <3>2. QED
      BY <1>2, <3>1
  <2>2. CASE ExecThrows(c) \/ WriteThrows(c) \/ WaitFor(c) \/ EndOfStream(c)
    BY <1>2, <2>2 DEF ExecThrows, WriteThrows, WaitFor, EndOfStream, Steps
  <2>3. CASE Read(c) \/ ChildStep(c)
    BY <2>3 DEF Read, ChildStep, Emit, RunLine, Exit, CallTypes
  <2>4. QED
    BY <2>1, <2>2, <2>3 DEF CallStep
<1>8. sent' \in [Callers -> Nat]
  <2>1. CASE Exec(c)
    BY <1>5, <2>1 DEF Exec
  <2>2. CASE WriteLine(c)
    <3>1. sent' = [sent EXCEPT ![c] = sent[c] + 1]
      BY <2>2, Zenon DEF WriteLine
    <3>2. sent[c] + 1 \in Nat
      BY CallerTypes
    <3>3. QED
      BY <1>5, <3>1, <3>2
  <2>3. CASE ~Exec(c) /\ ~WriteLine(c)
    BY <2>3 DEF CallStep, ChildStep, ExecThrows, WriteThrows, WaitFor, Read, EndOfStream,
                Emit, RunLine, Exit, CallTypes
  <2>4. QED
    BY <2>1, <2>2, <2>3
<1>9. child' \in [Callers -> Children]
  <2>1. CASE Exec(c)
    <3>1. PICK load \in {Quiet} \cup Loads :
            child' = [child EXCEPT ![c] = [NoChild EXCEPT !.alive = TRUE, !.todo = load]]
      BY <2>1 DEF Exec
    <3>2. QED
      BY <1>1, <1>3, <3>1, ChildUpdate
  <2>2. CASE \E s \in Streams : Emit(c, s)
    <3>1. PICK s \in Streams : Emit(c, s)
      BY <2>2
    <3>2. child[c].todo[s] > 0
      BY <3>1, Zenon DEF Emit
    <3>3. child[c].todo[s] - 1 \in Nat
      BY <3>2, CallerTypes, LoadedUpdate
    <3>4. PICK load \in Loaded : child' = [child EXCEPT ![c] = [child[c] EXCEPT !.todo = load]]
      <4>1. CASE app = "up"
        <5>1. child' = [child EXCEPT ![c] = [child[c] EXCEPT
                          !.todo = [child[c].todo EXCEPT ![s] = child[c].todo[s] - 1]]]
          BY <3>1, <4>1 DEF Emit
        <5>2. QED
          BY <3>3, <5>1, CallerTypes, LoadedUpdate
      <4>2. CASE app # "up"
        BY <1>1, <3>1, <4>2 DEF Emit
      <4>3. QED
        BY <4>1, <4>2
    <3>5. QED
      BY <1>3, <3>4, CallerTypes, ChildUpdate
  <2>3. CASE RunLine(c)
    <3>1. PICK load \in Loads :
            child' = [child EXCEPT ![c] = [child[c] EXCEPT
                                             !.ran = child[c].ran + 1, !.todo = load]]
      BY <2>3 DEF RunLine
    <3>2. child[c].ran + 1 \in Nat
      BY CallerTypes
    <3>3. QED
      BY <1>1, <1>3, <3>1, <3>2, CallerTypes, ChildUpdate
  <2>4. CASE Exit(c)
    <3>1. PICK code \in {0, 1} :
            child' = [child EXCEPT ![c] = [child[c] EXCEPT !.alive = FALSE, !.code = code]]
      BY <2>4 DEF Exit
    <3>2. QED
      BY <1>1, <1>3, <3>1, CallerTypes, ChildUpdate
  <2>5. CASE CallStep(c) /\ ~Exec(c)
    BY <2>5 DEF CallStep, ExecThrows, WriteLine, WriteThrows, WaitFor, Read, EndOfStream,
                CallTypes
  <2>6. QED
    BY <2>1, <2>2, <2>3, <2>4, <2>5 DEF ChildStep
<1>10. pipe' \in [Callers -> Loaded]
  <2>1. CASE Exec(c)
    BY <1>1, <1>4, <2>1 DEF Exec
  <2>2. CASE Read(c)
    <3>1. pipe' = [pipe EXCEPT ![c] = [pipe[c] EXCEPT ![Stream(c)] = 0]]
      BY <2>2 DEF Read
    <3>2. Stream(c) \in Streams
      BY DEF Stream, Streams
    <3>3. QED
      BY <1>4, <3>1, <3>2, CallerTypes, LoadedUpdate
  <2>3. CASE \E s \in Streams : Emit(c, s)
    <3>1. PICK s \in Streams : Emit(c, s)
      BY <2>3
    <3>2. pipe[c][s] + 1 \in Nat
      BY CallerTypes, LoadedUpdate
    <3>3. CASE app = "up"
      <4>1. pipe' = [pipe EXCEPT ![c] = [pipe[c] EXCEPT ![s] = pipe[c][s] + 1]]
        BY <3>1, <3>3 DEF Emit
      <4>2. QED
        BY <1>4, <3>2, <4>1, CallerTypes, LoadedUpdate
    <3>4. CASE app # "up"
      BY <3>1, <3>4 DEF Emit, CallTypes
    <3>5. QED
      BY <3>3, <3>4
  <2>4. CASE ~Exec(c) /\ ~Read(c) /\ ~(\E s \in Streams : Emit(c, s))
    BY <2>4 DEF CallStep, ChildStep, ExecThrows, WriteLine, WriteThrows, WaitFor,
                EndOfStream, RunLine, Exit, CallTypes
  <2>5. QED
    BY <2>1, <2>2, <2>3, <2>4
<1>11. service' \in [Services -> {"up", "down"}]
  <2>1. CASE RunLine(c)
    <3>1. child[c].ran < Len(cmd[c].lines)
      BY <2>1, Zenon DEF RunLine
    <3>2. child[c].ran + 1 \in 1 .. Len(cmd[c].lines)
      BY <3>1, CallerTypes
    <3>3. cmd[c].lines[child[c].ran + 1] \in Lines
      BY <3>2, CallerTypes, ElementOfSeq
    <3>4. service \in [Services -> {"up", "down"}]
      BY DEF CallTypes
    <3>5. QED
      BY <2>1, <3>3, <3>4, Update DEF RunLine, Lines
  <2>2. CASE ~RunLine(c)
    BY <2>2 DEF CallStep, ChildStep, Exec, ExecThrows, WriteLine, WriteThrows, WaitFor, Read,
                EndOfStream, Emit, Exit, CallTypes
  <2>3. QED
    BY <2>1, <2>2
<1>12. QED
  BY <1>6, <1>7, <1>8, <1>9, <1>10, <1>11 DEF CallTypes

-----------------------------------------------------------------------------
(* The caller, its child and the pipes stay within these bounds.           *)
LEMMA CallInvKept ==
  ASSUME CallTypes, CallTypes', NEW c \in Callers, CallInv(c), CallStep(c) \/ ChildStep(c)
  PROVE  CallInv(c)'
<1>1. /\ step \in [Callers -> Steps] /\ sent \in [Callers -> Nat]
      /\ child \in [Callers -> Children] /\ pipe \in [Callers -> Loaded]
  BY DEF CallTypes
<1>2. /\ step[c] \in Steps /\ step'[c] \in Steps
      /\ sent[c] \in Nat /\ Len(cmd[c].lines) \in Nat /\ child[c].ran \in Nat
      /\ pipe[c] \in Loaded /\ pipe[c].out \in Nat /\ pipe[c].err \in Nat
  BY CallerTypes DEF CallTypes
<1>3. UNCHANGED <<app, cmd>>
  BY DEF CallStep, ChildStep, Exec, ExecThrows, WriteLine, WriteThrows, WaitFor, Read,
         EndOfStream, Emit, RunLine, Exit
<1>4. PIPE \in Nat /\ PIPE >= 1
  BY PipeAssumption
<1>5. CASE Exec(c)
  <2>1. /\ child'[c].alive /\ child'[c].ran = 0
        /\ sent'[c] = 0 /\ pipe'[c].out = 0 /\ pipe'[c].err = 0
        /\ step'[c] = IF cmd[c].su THEN "write" ELSE "wait"
    BY <1>1, <1>5 DEF Exec, Goto, NoChild, Quiet
  <2>2. QED
    BY <1>2, <1>3, <1>4, <2>1 DEF CallInv, Alive, Ended
<1>6. CASE ExecThrows(c)
  <2>1. /\ step'[c] = "threw" /\ step[c] = "exec"
        /\ UNCHANGED <<child, pipe, sent>>
    BY <1>1, <1>6 DEF ExecThrows, Goto, At
  <2>2. QED
    BY <1>2, <1>3, <2>1 DEF CallInv, Alive, Silent, Ended, NoChild
<1>7. CASE WriteLine(c)
  <2>1. /\ sent'[c] = sent[c] + 1 /\ step[c] = "write" /\ child[c].alive
        /\ UNCHANGED <<child, pipe>>
    BY <1>1, <1>7 DEF WriteLine, At, Alive
  <2>2. step'[c] = IF sent'[c] = Len(cmd[c].lines) + 1 THEN "read" ELSE "write"
    BY <1>1, <1>7 DEF WriteLine, Goto
  <2>3. QED
    BY <1>2, <1>3, <2>1, <2>2 DEF CallInv, Alive, Ended
<1>8. CASE WriteThrows(c)
  <2>1. /\ step'[c] = "threw" /\ step[c] = "write" /\ app = "up" /\ ~child[c].alive
        /\ UNCHANGED <<child, pipe, sent>>
    BY <1>1, <1>8 DEF WriteThrows, Goto, At, Alive
  <2>2. QED
    BY <1>2, <1>3, <2>1 DEF CallInv, Alive, Silent, Ended
<1>9. CASE WaitFor(c)
  <2>1. /\ step'[c] = "read" /\ step[c] = "wait"
        /\ UNCHANGED <<child, pipe, sent>>
    BY <1>1, <1>9 DEF WaitFor, Goto, At
  <2>2. QED
    BY <1>2, <1>3, <2>1 DEF CallInv, Alive, Silent, Ended
<1>10. CASE Read(c)
  <2>1. /\ step[c] = "read"
        /\ UNCHANGED <<child, sent, step>>
    BY <1>10 DEF Read, At
  <2>2. pipe'[c].out <= PIPE /\ pipe'[c].err <= PIPE
    <3>1. pipe'[c] = [pipe[c] EXCEPT ![Stream(c)] = 0]
      BY <1>1, <1>10 DEF Read
    <3>2. Stream(c) = "out" \/ Stream(c) = "err"
      BY DEF Stream
    <3>3. QED
      BY <1>2, <1>4, <3>1, <3>2 DEF CallInv, Loaded
  <2>3. QED
    BY <1>2, <1>3, <2>1, <2>2 DEF CallInv, Alive, Silent, Ended
<1>11. CASE EndOfStream(c)
  <2>1. /\ step'[c] = "returned" /\ step[c] = "read" /\ app = "up" /\ ~child[c].alive
        /\ pipe[c][Stream(c)] = 0
        /\ UNCHANGED <<child, pipe, sent>>
    BY <1>1, <1>11 DEF EndOfStream, Goto, At, Alive
  <2>2. QED
    BY <1>2, <1>3, <2>1 DEF CallInv, Alive, Silent, Ended, Stream
<1>12. CASE \E s \in Streams : Emit(c, s)
  <2>1. PICK s \in Streams : Emit(c, s)
    BY <1>12
  <2>2. /\ child[c].alive /\ child'[c].alive /\ child'[c].ran = child[c].ran
        /\ UNCHANGED <<step, sent>>
    BY <1>1, <2>1 DEF Emit, Alive, Children
  <2>3. pipe'[c].out <= PIPE /\ pipe'[c].err <= PIPE
    <3>1. CASE app = "up"
      <4>1. pipe'[c] = [pipe[c] EXCEPT ![s] = pipe[c][s] + 1] /\ pipe[c][s] < PIPE
        BY <1>1, <2>1, <3>1 DEF Emit
      <4>2. s = "out" \/ s = "err"
        BY DEF Streams
      <4>3. QED
        BY <1>2, <1>4, <4>1, <4>2 DEF CallInv, Loaded
    <3>2. CASE app # "up"
      BY <2>1, <3>2 DEF Emit, CallInv
    <3>3. QED
      BY <3>1, <3>2
  <2>4. QED
    BY <1>2, <1>3, <2>2, <2>3 DEF CallInv, Alive, Ended, NoChild
<1>13. CASE RunLine(c)
  <2>1. /\ child[c].alive /\ child'[c].alive /\ child'[c].ran = child[c].ran + 1
        /\ child[c].ran < sent[c] /\ child[c].ran < Len(cmd[c].lines)
        /\ UNCHANGED <<step, sent, pipe>>
    BY <1>1, <1>13 DEF RunLine, Alive, Children
  <2>2. QED
    BY <1>2, <1>3, <2>1 DEF CallInv, Alive, Ended, NoChild
<1>14. CASE Exit(c)
  <2>1. /\ child[c].alive /\ ~child'[c].alive /\ child'[c].ran = child[c].ran
        /\ child[c].todo = Quiet /\ child'[c].todo = Quiet
        /\ UNCHANGED <<step, sent, pipe>>
    BY <1>1, <1>14 DEF Exit, Alive, Silent, Children
  <2>2. cmd[c].su => Ended(c) \/ (app # "up" /\ child[c].ran = sent[c])
    BY <1>14 DEF Exit, Refused, AtExit, Ended
  <2>3. QED
    BY <1>2, <1>3, <2>1, <2>2 DEF CallInv, Alive, Silent, Ended, NoChild
<1>15. QED
  BY <1>5, <1>6, <1>7, <1>8, <1>9, <1>10, <1>11, <1>12, <1>13, <1>14
  DEF CallStep, ChildStep

(* A step of one caller leaves the others alone.                           *)
Others(c) ==
  \A d \in Callers \ {c} :
    /\ step'[d] = step[d] /\ cmd'[d] = cmd[d] /\ sent'[d] = sent[d]
    /\ child'[d] = child[d] /\ pipe'[d] = pipe[d]
    /\ doing'[d] = doing[d] /\ ip'[d] = ip[d]

LEMMA CallOthers ==
  ASSUME CallTypes, NEW c \in Callers, CallStep(c) \/ ChildStep(c), UNCHANGED <<doing, ip>>
  PROVE  Others(c)
<1> SUFFICES ASSUME NEW d \in Callers \ {c}
             PROVE  /\ step'[d] = step[d] /\ cmd'[d] = cmd[d] /\ sent'[d] = sent[d]
                    /\ child'[d] = child[d] /\ pipe'[d] = pipe[d]
                    /\ doing'[d] = doing[d] /\ ip'[d] = ip[d]
  BY DEF Others
<1>1. /\ step \in [Callers -> Steps] /\ sent \in [Callers -> Nat]
      /\ child \in [Callers -> Children] /\ pipe \in [Callers -> Loaded]
  BY DEF CallTypes
<1>2. cmd' = cmd
  BY DEF CallStep, ChildStep, Exec, ExecThrows, WriteLine, WriteThrows, WaitFor, Read,
         EndOfStream, Emit, RunLine, Exit
<1>3. CASE CallStep(c)
  BY <1>1, <1>2, <1>3 DEF CallStep, Exec, ExecThrows, WriteLine, WriteThrows, WaitFor, Read,
                          EndOfStream, Goto
<1>4. CASE ChildStep(c)
  BY <1>1, <1>2, <1>4 DEF ChildStep, Emit, RunLine, Exit
<1>5. QED
  BY <1>3, <1>4

(* What is the same for a caller leaves its call as it is, also when the   *)
(* app ends.                                                               *)
LEMMA OthersKept ==
  ASSUME NEW c \in Callers, NEW d \in Callers \ {c}, Others(c), app' = app,
         CallInv(d), ScriptInv(d)
  PROVE  CallInv(d)' /\ ScriptInv(d)'
<1>1. /\ step'[d] = step[d] /\ cmd'[d] = cmd[d] /\ sent'[d] = sent[d]
      /\ child'[d] = child[d] /\ pipe'[d] = pipe[d]
      /\ doing'[d] = doing[d] /\ ip'[d] = ip[d]
  BY DEF Others
<1>2. CallInv(d)'
  BY <1>1 DEF CallInv, Alive, Silent, Ended, Stream
<1>3. ScriptInv(d)'
  BY <1>1 DEF ScriptInv
<1>4. QED
  BY <1>2, <1>3

(* Steps that leave all the calls alone; some end the app.                 *)
Calm ==
  /\ UNCHANGED <<callVars, service, doing, ip>>
  /\ app' = app \/ (app = "up" /\ app' \in {"killed", "crash button", "denied"})

LEMMA CalmKept ==
  ASSUME ButtonInv, Calm
  PROVE  ButtonInv'
<1>1. UNCHANGED <<step, cmd, sent, child, pipe, service, doing, ip>>
  BY DEF Calm, callVars
<1>2. app' \in {"up", "killed", "crash button", "denied"}
  BY DEF Calm, ButtonInv, CallTypes
<1>3. CallTypes'
  BY <1>1, <1>2 DEF ButtonInv, CallTypes
<1>4. app # "up" => app' # "up"
  BY DEF Calm
<1>5. ASSUME NEW c \in Callers
      PROVE  CallInv(c)' /\ ScriptInv(c)'
  <2>1. CallInv(c) /\ ScriptInv(c)
    BY DEF ButtonInv
  <2>2. CallInv(c)'
    BY <1>1, <1>4, <2>1 DEF CallInv, Alive, Silent, Ended, Stream
  <2>3. ScriptInv(c)'
    BY <1>1, <2>1 DEF ScriptInv
  <2>4. QED
    BY <2>2, <2>3
<1>6. ServiceInv'
  BY <1>1 DEF ButtonInv, ServiceInv
<1>7. QED
  BY <1>3, <1>5, <1>6 DEF ButtonInv

-----------------------------------------------------------------------------
(* The lines of the two buttons that stop something, and of all others.    *)
LEMMA AdbLines ==
  ASSUME NEW c \in Callers, ScriptInv(c), doing[c] = "adb"
  PROVE  cmd[c] = Command(<<Work, Line("down", "adbd"), Line("up", "adbd")>>)
<1> DEFINE a == Command(<<Work, Line("down", "adbd"), Line("up", "adbd")>>)
<1>1. Script("adb") = <<a>>
  BY ScriptIs
<1> HIDE DEF a
<1>2. Len(<<a>>) = 1 /\ <<a>>[1] = a
  OBVIOUS
<1>3. ip[c] \in 1 .. 1 /\ cmd[c] = <<a>>[ip[c]]
  BY <1>1, <1>2 DEF ScriptInv
<1>4. QED
  BY <1>2, <1>3 DEF a

LEMMA MacLines ==
  ASSUME NEW c \in Callers, ScriptInv(c), doing[c] = "mac"
  PROVE  cmd[c] = Command(<<Line("down", "eth0"), Work, Line("up", "eth0")>>)
<1> DEFINE a == Command(<<Line("down", "eth0"), Work, Line("up", "eth0")>>)
<1>1. Script("mac") = <<a>>
  BY ScriptIs
<1> HIDE DEF a
<1>2. Len(<<a>>) = 1 /\ <<a>>[1] = a
  OBVIOUS
<1>3. ip[c] \in 1 .. 1 /\ cmd[c] = <<a>>[ip[c]]
  BY <1>1, <1>2 DEF ScriptInv
<1>4. QED
  BY <1>2, <1>3 DEF a

LEMMA OtherLines ==
  ASSUME NEW c \in Callers, ScriptInv(c), doing[c] \in JobNames \ {"adb", "mac"}
  PROVE  cmd[c] \in {Plain, Command(<<Work>>)}
<1> DEFINE a == Command(<<Work>>)
<1>1. /\ Script("create") = <<Plain, Plain>>
      /\ Script("chmod") = <<a, Plain>>
      /\ Script("clean") = <<Plain, a, Plain>>
  BY ScriptIs
<1> SUFFICES cmd[c] \in {Plain, a}
  OBVIOUS
<1> HIDE DEF a
<1>2. /\ Len(<<Plain, Plain>>) = 2 /\ \A i \in 1 .. 2 : <<Plain, Plain>>[i] = Plain
      /\ Len(<<a, Plain>>) = 2 /\ \A i \in 1 .. 2 : <<a, Plain>>[i] \in {Plain, a}
      /\ Len(<<Plain, a, Plain>>) = 3
      /\ \A i \in 1 .. 3 : <<Plain, a, Plain>>[i] \in {Plain, a}
  OBVIOUS
<1>3. CASE doing[c] = "none"
  BY <1>3 DEF ScriptInv
<1>4. CASE doing[c] = "create"
  <2>1. ip[c] \in 1 .. Len(Script(doing[c])) /\ cmd[c] = Script(doing[c])[ip[c]]
    BY <1>4 DEF ScriptInv
  <2>2. ip[c] \in 1 .. 2 /\ cmd[c] = <<Plain, Plain>>[ip[c]]
    BY <1>1, <1>2, <1>4, <2>1
  <2>3. QED
    BY <1>2, <2>2
<1>5. CASE doing[c] = "chmod"
  <2>1. ip[c] \in 1 .. Len(Script(doing[c])) /\ cmd[c] = Script(doing[c])[ip[c]]
    BY <1>5 DEF ScriptInv
  <2>2. ip[c] \in 1 .. 2 /\ cmd[c] = <<a, Plain>>[ip[c]]
    BY <1>1, <1>2, <1>5, <2>1
  <2>3. QED
    BY <1>2, <2>2
<1>6. CASE doing[c] = "clean"
  <2>1. ip[c] \in 1 .. Len(Script(doing[c])) /\ cmd[c] = Script(doing[c])[ip[c]]
    BY <1>6 DEF ScriptInv
  <2>2. ip[c] \in 1 .. 3 /\ cmd[c] = <<Plain, a, Plain>>[ip[c]]
    BY <1>1, <1>2, <1>6, <2>1
  <2>3. QED
    BY <1>2, <2>2
<1>7. QED
  BY <1>3, <1>4, <1>5, <1>6 DEF JobNames

-----------------------------------------------------------------------------
(* Nothing is stopped before a command has run or after it has ended.      *)
LEMMA UpAtRest ==
  ASSUME ButtonInv, step["main"] \in {"none", "exec", "returned", "threw"}, app = "up"
  PROVE  service["adbd"] # "down" /\ service["eth0"] # "down"
<1>1. "main" \in Callers
  BY CallersAssumption
<1>2. CallInv("main") /\ ScriptInv("main") /\ ServiceInv
  BY <1>1 DEF ButtonInv
<1>3. CASE step["main"] \in {"none", "exec"}
  BY <1>2, <1>3 DEF CallInv, ServiceInv, NoChild
<1>4. CASE step["main"] \in {"returned", "threw"}
  <2>1. cmd["main"].su => child["main"].ran \in {0, Len(cmd["main"].lines)}
    BY <1>2, <1>4 DEF CallInv, Ended
  <2>2. doing["main"] = "adb" => child["main"].ran # 2
    <3>1. SUFFICES ASSUME doing["main"] = "adb" PROVE child["main"].ran # 2
      OBVIOUS
    <3>2. cmd["main"] = Command(<<Work, Line("down", "adbd"), Line("up", "adbd")>>)
      BY <1>1, <1>2, <3>1, AdbLines
    <3>3. cmd["main"].su /\ Len(cmd["main"].lines) = 3
      BY <3>2 DEF Command
    <3>4. QED
      BY <2>1, <3>3
  <2>3. doing["main"] = "mac" => child["main"].ran \notin {1, 2}
    <3>1. SUFFICES ASSUME doing["main"] = "mac" PROVE child["main"].ran \notin {1, 2}
      OBVIOUS
    <3>2. cmd["main"] = Command(<<Line("down", "eth0"), Work, Line("up", "eth0")>>)
      BY <1>1, <1>2, <3>1, MacLines
    <3>3. cmd["main"].su /\ Len(cmd["main"].lines) = 3
      BY <3>2 DEF Command
    <3>4. QED
      BY <2>1, <3>3
  <2>4. QED
    BY <1>2, <2>2, <2>3 DEF ServiceInv
<1>5. QED
  BY <1>3, <1>4

(* A call starts, the next of the script does, or the script ends.         *)
LEMMA FreshKept ==
  ASSUME ButtonInv, NEW c \in Callers, CallTypes', Others(c), ScriptInv(c)',
         app = "up", UNCHANGED <<app, service>>,
         step[c] \in {"none", "returned", "threw"}, step'[c] \in {"none", "exec"},
         sent'[c] = 0, child'[c] = NoChild, pipe'[c] \in {pipe[c], Quiet}
  PROVE  ButtonInv'
<1>1. CallInv(c)'
  <2>1. CallInv(c)
    BY DEF ButtonInv
  <2>2. Len(cmd[c].lines)' \in Nat
    BY CallerTypes DEF CallTypes
  <2>3. pipe'[c].out <= PIPE /\ pipe'[c].err <= PIPE
    BY <2>1, PipeAssumption DEF CallInv, Quiet
  <2>4. QED
    BY <2>2, <2>3 DEF CallInv, Alive, Silent, Ended, NoChild
<1>2. \A d \in Callers \ {c} : CallInv(d)' /\ ScriptInv(d)'
  BY OthersKept DEF ButtonInv
<1>3. ServiceInv'
  <2>1. CASE c = "main"
    BY <2>1, UpAtRest DEF ServiceInv
  <2>2. CASE c # "main"
    <3>1. doing'["main"] = doing["main"] /\ child'["main"] = child["main"]
      BY <2>2, CallersAssumption DEF Others
    <3>2. QED
      BY <3>1 DEF ButtonInv, ServiceInv
  <2>3. QED
    BY <2>1, <2>2
<1>4. QED
  BY <1>1, <1>2, <1>3 DEF ButtonInv

(* What the lines of a root shell stop and start.                          *)
LEMMA LinesKeepServices ==
  ASSUME ButtonInv, NEW c \in Callers, RunLine(c), UNCHANGED <<doing, ip>>
  PROVE  ServiceInv'
<1>1. CallInv(c) /\ ScriptInv(c) /\ ServiceInv
  BY DEF ButtonInv
<1>2. child[c].ran \in Nat /\ doing[c] \in JobNames
  BY CallerTypes DEF ButtonInv
<1>3. /\ child \in [Callers -> Children]
      /\ service \in [Services -> {"up", "down"}]
      /\ "main" \in Callers
  BY CallersAssumption DEF ButtonInv, CallTypes
<1>4. /\ cmd[c].su
      /\ child'[c].ran = child[c].ran + 1
      /\ child[c].ran < Len(cmd[c].lines)
      /\ \A d \in Callers \ {c} : child'[d] = child[d]
  BY <1>3 DEF RunLine, Children
<1>5. /\ cmd[c].lines[child[c].ran + 1].does = "work" => service' = service
      /\ cmd[c].lines[child[c].ran + 1].does # "work" =>
            service' = [service EXCEPT ![cmd[c].lines[child[c].ran + 1].on] =
                                         cmd[c].lines[child[c].ran + 1].does]
  BY DEF RunLine
<1>6. CASE doing[c] = "adb"
  <2>1. cmd[c] = Command(<<Work, Line("down", "adbd"), Line("up", "adbd")>>)
    BY <1>1, <1>6, AdbLines
  <2>2. /\ Len(cmd[c].lines) = 3
        /\ cmd[c].lines[1].does = "work"
        /\ cmd[c].lines[2].does = "down" /\ cmd[c].lines[2].on = "adbd"
        /\ cmd[c].lines[3].does = "up" /\ cmd[c].lines[3].on = "adbd"
    BY <2>1 DEF Command, Work, Line
  <2>3. c = "main"
    BY <1>1, <1>6 DEF ScriptInv
  <2>4. service["eth0"] # "down"
    BY <1>1, <1>6, <2>3 DEF ServiceInv
  <2>5. CASE child[c].ran = 0
    BY <1>1, <1>4, <1>5, <2>2, <2>3, <2>4, <2>5 DEF ServiceInv
  <2>6. CASE child[c].ran = 1
    <3>1. service' = [service EXCEPT !["adbd"] = "down"]
      BY <1>5, <2>2, <2>6
    <3>2. service'["eth0"] = service["eth0"]
      BY <1>3, <3>1 DEF Services
    <3>3. QED
      BY <1>4, <1>6, <2>3, <2>4, <2>6, <3>2 DEF ServiceInv
  <2>7. CASE child[c].ran = 2
    <3>1. service' = [service EXCEPT !["adbd"] = "up"]
      BY <1>5, <2>2, <2>7
    <3>2. service'["eth0"] = service["eth0"] /\ service'["adbd"] = "up"
      BY <1>3, <3>1 DEF Services
    <3>3. QED
      BY <2>4, <3>2 DEF ServiceInv
  <2>8. QED
    BY <1>2, <1>4, <2>2, <2>5, <2>6, <2>7
<1>7. CASE doing[c] = "mac"
  <2>1. cmd[c] = Command(<<Line("down", "eth0"), Work, Line("up", "eth0")>>)
    BY <1>1, <1>7, MacLines
  <2>2. /\ Len(cmd[c].lines) = 3
        /\ cmd[c].lines[1].does = "down" /\ cmd[c].lines[1].on = "eth0"
        /\ cmd[c].lines[2].does = "work"
        /\ cmd[c].lines[3].does = "up" /\ cmd[c].lines[3].on = "eth0"
    BY <2>1 DEF Command, Work, Line
  <2>3. c = "main"
    BY <1>1, <1>7 DEF ScriptInv
  <2>4. service["adbd"] # "down"
    BY <1>1, <1>7, <2>3 DEF ServiceInv
  <2>5. CASE child[c].ran = 0
    <3>1. service' = [service EXCEPT !["eth0"] = "down"]
      BY <1>5, <2>2, <2>5
    <3>2. service'["adbd"] = service["adbd"]
      BY <1>3, <3>1 DEF Services
    <3>3. QED
      BY <1>4, <1>7, <2>3, <2>4, <2>5, <3>2 DEF ServiceInv
  <2>6. CASE child[c].ran = 1
    BY <1>1, <1>4, <1>5, <1>7, <2>2, <2>3, <2>4, <2>6 DEF ServiceInv
  <2>7. CASE child[c].ran = 2
    <3>1. service' = [service EXCEPT !["eth0"] = "up"]
      BY <1>5, <2>2, <2>7
    <3>2. service'["adbd"] = service["adbd"] /\ service'["eth0"] = "up"
      BY <1>3, <3>1 DEF Services
    <3>3. QED
      BY <2>4, <3>2 DEF ServiceInv
  <2>8. QED
    BY <1>2, <1>4, <2>2, <2>5, <2>6, <2>7
<1>8. CASE doing[c] \in JobNames \ {"adb", "mac"}
  <2>1. cmd[c] \in {Plain, Command(<<Work>>)}
    BY <1>1, <1>8, OtherLines
  <2>2. cmd[c] = Command(<<Work>>)
    BY <1>4, <2>1 DEF Plain
  <2>3. Len(cmd[c].lines) = 1 /\ cmd[c].lines[1].does = "work"
    BY <2>2 DEF Command, Work, Line
  <2>4. service' = service
    BY <1>2, <1>4, <1>5, <2>3
  <2>5. CASE c = "main"
    BY <1>1, <1>8, <2>4, <2>5 DEF ServiceInv
  <2>6. CASE c # "main"
    BY <1>1, <1>3, <1>4, <2>4, <2>6 DEF ServiceInv
  <2>7. QED
    BY <2>5, <2>6
<1>9. QED
  BY <1>2, <1>6, <1>7, <1>8

(* A step of a call, or of its child.                                      *)
LEMMA CallKept ==
  ASSUME ButtonInv, NEW c \in Callers, CallStep(c) \/ ChildStep(c), UNCHANGED <<doing, ip>>
  PROVE  ButtonInv'
<1>1. CallTypes /\ CallInv(c) /\ ScriptInv(c) /\ ServiceInv
  BY DEF ButtonInv
<1>2. CallTypes' /\ Others(c)
  BY <1>1, CallTypesKept, CallOthers
<1>3. CallInv(c)'
  BY <1>1, <1>2, CallInvKept
<1>4. UNCHANGED <<app, cmd>>
  BY DEF CallStep, ChildStep, Exec, ExecThrows, WriteLine, WriteThrows, WaitFor, Read,
         EndOfStream, Emit, RunLine, Exit
<1>5. step'[c] = "none" <=> step[c] = "none"
  <2>1. step \in [Callers -> Steps]
    BY <1>1 DEF CallTypes
  <2>2. CASE Exec(c) \/ WriteLine(c)
    <3>1. PICK s \in {"write", "wait", "read"} : step' = [step EXCEPT ![c] = s]
      BY <2>2, Zenon DEF Exec, WriteLine, Goto
    <3>2. step[c] # "none"
      BY <2>2 DEF Exec, WriteLine, At
    <3>3. QED
      BY <2>1, <3>1, <3>2
  <2>3. CASE ExecThrows(c) \/ WriteThrows(c) \/ WaitFor(c) \/ EndOfStream(c)
    BY <2>1, <2>3 DEF ExecThrows, WriteThrows, WaitFor, EndOfStream, At, Goto
  <2>4. CASE Read(c) \/ ChildStep(c)
    BY <2>4 DEF Read, ChildStep, Emit, RunLine, Exit
  <2>5. QED
    BY <2>2, <2>3, <2>4 DEF CallStep
<1>6. ScriptInv(c)'
  BY <1>1, <1>4, <1>5 DEF ScriptInv
<1>7. \A d \in Callers \ {c} : CallInv(d)' /\ ScriptInv(d)'
  BY <1>2, <1>4, OthersKept DEF ButtonInv
<1>8. ServiceInv'
  <2>1. CASE RunLine(c)
    BY <2>1, LinesKeepServices
  <2>2. CASE ~RunLine(c)
    <3>1. service' = service
      BY <2>2 DEF CallStep, ChildStep, Exec, ExecThrows, WriteLine, WriteThrows, WaitFor,
                  Read, EndOfStream, Emit, Exit
    <3>2. CASE c # "main"
      <4>1. child'["main"] = child["main"]
        BY <1>2, <3>2, CallersAssumption DEF Others
      <4>2. QED
        BY <1>1, <3>1, <4>1 DEF ServiceInv
    <3>3. CASE c = "main" /\ Exec(c)
      BY <3>1, <3>3, UpAtRest DEF ServiceInv, Exec, At
    <3>4. CASE c = "main" /\ ~Exec(c)
      <4>1. child \in [Callers -> Children]
        BY <1>1 DEF CallTypes
      <4>2. child'[c].ran = child[c].ran
        BY <2>2, <3>4, <4>1 DEF CallStep, ChildStep, ExecThrows, WriteLine, WriteThrows,
                                WaitFor, Read, EndOfStream, Emit, Exit, Children
      <4>3. QED
        BY <1>1, <3>1, <3>4, <4>2 DEF ServiceInv
    <3>5. QED
      BY <3>2, <3>3, <3>4
  <2>3. QED
    BY <2>1, <2>2
<1>9. QED
  BY <1>2, <1>3, <1>6, <1>7, <1>8 DEF ButtonInv

(* A job or a button begins.                                               *)
LEMMA BeginKept ==
  ASSUME ButtonInv, NEW c \in Callers, Idle(c),
         NEW job \in JobNames \ {"none"}, c # "main" => job = "clean", Begin(c, job)
  PROVE  ButtonInv'
<1>1. CallTypes /\ CallInv(c) /\ ScriptInv(c)
  BY DEF ButtonInv
<1>2. /\ step \in [Callers -> Steps] /\ cmd \in [Callers -> Commands]
      /\ doing \in [Callers -> JobNames] /\ ip \in [Callers -> Nat]
  BY <1>1 DEF CallTypes
<1>3. /\ step' = [step EXCEPT ![c] = "exec"] /\ cmd' = [cmd EXCEPT ![c] = Script(job)[1]]
      /\ doing' = [doing EXCEPT ![c] = job] /\ ip' = [ip EXCEPT ![c] = 1]
      /\ UNCHANGED <<app, sent, child, pipe, service>>
  BY DEF Begin, Goto
<1>4. 1 \in 1 .. Len(Script(job)) /\ Script(job)[1] \in Commands
  BY ScriptTypes
<1>5. CallTypes'
  <2>1. /\ step' \in [Callers -> Steps] /\ cmd' \in [Callers -> Commands]
        /\ doing' \in [Callers -> JobNames] /\ ip' \in [Callers -> Nat]
    BY <1>2, <1>3, <1>4, Update DEF Steps
  <2>2. QED
    BY <1>1, <1>3, <2>1 DEF CallTypes
<1>6. Others(c)
  BY <1>2, <1>3 DEF Others
<1>7. /\ step'[c] = "exec" /\ cmd'[c] = Script(job)[1] /\ doing'[c] = job /\ ip'[c] = 1
  BY <1>2, <1>3
<1>8. ScriptInv(c)'
  BY <1>4, <1>7 DEF ScriptInv
<1>9. step[c] = "none" /\ app = "up"
  BY <1>1 DEF Idle, ScriptInv
<1>10. sent'[c] = 0 /\ child'[c] = NoChild /\ pipe'[c] = pipe[c]
  BY <1>1, <1>3, <1>9 DEF CallInv
<1>11. QED
  BY <1>3, <1>5, <1>6, <1>7, <1>8, <1>9, <1>10, FreshKept

(* The streams of a call that ended are closed.                            *)
LEMMA CloseKept ==
  ASSUME ButtonInv, NEW c \in Callers, At(c, "returned") \/ At(c, "threw"), Close(c),
         NEW s \in {"none", "exec"}, Goto(c, s),
         NEW command \in Commands, cmd' = [cmd EXCEPT ![c] = command],
         NEW job \in JobNames, doing' = [doing EXCEPT ![c] = job],
         NEW i \in Nat, ip' = [ip EXCEPT ![c] = i],
         s = "none" <=> job = "none",
         job = "none" => command = Plain /\ i = 0,
         job # "none" => i \in 1 .. Len(Script(job)) /\ command = Script(job)[i],
         c # "main" => job \in {"none", "clean"}
  PROVE  ButtonInv'
<1>1. CallTypes
  BY DEF ButtonInv
<1>2. /\ step \in [Callers -> Steps] /\ cmd \in [Callers -> Commands]
      /\ sent \in [Callers -> Nat]
      /\ child \in [Callers -> Children] /\ pipe \in [Callers -> Loaded]
      /\ doing \in [Callers -> JobNames] /\ ip \in [Callers -> Nat]
  BY <1>1 DEF CallTypes
<1>3. /\ step' = [step EXCEPT ![c] = s]
      /\ sent' = [sent EXCEPT ![c] = 0] /\ child' = [child EXCEPT ![c] = NoChild]
      /\ pipe' = [pipe EXCEPT ![c] = Quiet]
      /\ UNCHANGED <<app, service>>
  BY DEF Close, Goto
<1>4. CallTypes'
  <2>1. NoChild \in Children /\ Quiet \in Loaded
    BY DEF NoChild, Quiet, Children, Loaded
  <2>2. /\ step' \in [Callers -> Steps] /\ cmd' \in [Callers -> Commands]
        /\ sent' \in [Callers -> Nat]
        /\ child' \in [Callers -> Children] /\ pipe' \in [Callers -> Loaded]
        /\ doing' \in [Callers -> JobNames] /\ ip' \in [Callers -> Nat]
    BY <1>2, <1>3, <2>1, Update DEF Steps
  <2>3. QED
    BY <1>1, <1>3, <2>2 DEF CallTypes
<1>5. Others(c)
  BY <1>2, <1>3 DEF Others
<1>6. /\ step'[c] = s /\ cmd'[c] = command /\ doing'[c] = job /\ ip'[c] = i
      /\ sent'[c] = 0 /\ child'[c] = NoChild /\ pipe'[c] = Quiet
  BY <1>2, <1>3
<1>7. ScriptInv(c)'
  BY <1>6 DEF ScriptInv
<1>8. QED
  BY <1>3, <1>4, <1>5, <1>6, <1>7, FreshKept DEF At

(* The next command of a script.                                           *)
LEMMA NextCommandKept ==
  ASSUME ButtonInv, NEW c \in Callers, At(c, "returned") \/ At(c, "threw"), NextCommand(c)
  PROVE  ButtonInv'
<1>1. CallTypes /\ ScriptInv(c)
  BY DEF ButtonInv
<1>2. doing[c] \in JobNames /\ doing[c] # "none" /\ ip[c] \in Nat
  BY <1>1, CallerTypes DEF ScriptInv, At
<1>3. ip[c] + 1 \in 1 .. Len(Script(doing[c]))
  BY <1>1, <1>2, ScriptTypes DEF NextCommand
<1>4. Script(doing[c])[ip[c] + 1] \in Commands /\ ip[c] + 1 \in Nat
  BY <1>2, <1>3, ScriptTypes
<1>5. doing' = [doing EXCEPT ![c] = doing[c]]
  BY <1>1 DEF NextCommand, CallTypes
<1>6. /\ Goto(c, "exec") /\ Close(c)
      /\ ip' = [ip EXCEPT ![c] = ip[c] + 1]
      /\ cmd' = [cmd EXCEPT ![c] = Script(doing[c])[ip[c] + 1]]
  BY DEF NextCommand
<1>7. c # "main" => doing[c] \in {"none", "clean"}
  BY <1>1 DEF ScriptInv
<1>8. QED
  BY <1>2, <1>3, <1>4, <1>5, <1>6, <1>7, CloseKept

(* The end of a script.                                                    *)
LEMMA FinishKept ==
  ASSUME ButtonInv, NEW c \in Callers, At(c, "returned") \/ At(c, "threw"), Finish(c)
  PROVE  ButtonInv'
<1>1. Plain \in Commands /\ "none" \in JobNames
  BY DEF Plain, Commands, JobNames
<1>2. /\ Goto(c, "none") /\ Close(c)
      /\ doing' = [doing EXCEPT ![c] = "none"]
      /\ ip' = [ip EXCEPT ![c] = 0]
      /\ cmd' = [cmd EXCEPT ![c] = Plain]
  BY DEF Finish
<1>3. QED
  BY <1>1, <1>2, CloseKept

-----------------------------------------------------------------------------
LEMMA ButtonInvInit == Init => ButtonInv
<1> SUFFICES ASSUME Init PROVE ButtonInv
  OBVIOUS
<1>1. /\ app = "up"
      /\ step = [c \in Callers |-> "none"] /\ cmd = [c \in Callers |-> Plain]
      /\ sent = [c \in Callers |-> 0] /\ child = [c \in Callers |-> NoChild]
      /\ pipe = [c \in Callers |-> Quiet] /\ service = [s \in Services |-> "up"]
      /\ doing = [c \in Callers |-> "none"] /\ ip = [c \in Callers |-> 0]
  BY DEF Init, ShellInit
<1>2. CallTypes
  <2>1. /\ Plain \in Commands /\ NoChild \in Children /\ Quiet \in Loaded
        /\ "none" \in Steps /\ "none" \in JobNames
    BY DEF Plain, Commands, NoChild, Children, Quiet, Loaded, Steps, JobNames
  <2>2. QED
    BY <1>1, <2>1 DEF CallTypes
<1>3. ASSUME NEW c \in Callers
      PROVE  CallInv(c) /\ ScriptInv(c)
  <2>1. /\ step[c] = "none" /\ cmd[c] = Plain /\ sent[c] = 0 /\ child[c] = NoChild
        /\ pipe[c] = Quiet /\ doing[c] = "none" /\ ip[c] = 0
    BY <1>1
  <2>2. CallInv(c)
    <3>1. pipe[c].out = 0 /\ pipe[c].err = 0 /\ ~child[c].alive /\ child[c].ran = 0
          /\ child[c].todo = Quiet /\ ~cmd[c].su /\ Len(cmd[c].lines) = 0
      BY <2>1 DEF Quiet, NoChild, Plain
    <3>2. QED
      BY <2>1, <3>1, PipeAssumption DEF CallInv, Alive, Silent, Ended
  <2>3. ScriptInv(c)
    BY <2>1 DEF ScriptInv
  <2>4. QED
    BY <2>2, <2>3
<1>4. ServiceInv
  BY <1>1 DEF ServiceInv, Services
<1>5. QED
  BY <1>2, <1>3, <1>4 DEF ButtonInv

LEMMA ButtonInvNext == ButtonInv /\ [Next]_vars => ButtonInv'
<1> SUFFICES ASSUME ButtonInv, [Next]_vars PROVE ButtonInv'
  OBVIOUS
<1>1. CASE Looper
  <2>1. CASE HandleMessage
    BY <2>1, CalmKept DEF HandleMessage, Calm, shellVars
  <2>2. CASE OnMain
    <3>1. PICK job \in {"create", "chmod", "adb", "mac"} : Idle("main") /\ Begin("main", job)
      BY <2>2 DEF OnMain, Handle
    <3>2. "main" \in Callers /\ job \in JobNames \ {"none"}
      BY CallersAssumption DEF JobNames
    <3>3. QED
      BY <3>1, <3>2, BeginKept
  <2>3. CASE StartJudge
    <3>1. CASE \E j \in Jobs : Idle(j) /\ Begin(j, "clean")
      <4>1. PICK j \in Jobs : Idle(j) /\ Begin(j, "clean")
        BY <3>1
      <4>2. j \in Callers /\ j # "main" /\ "clean" \in JobNames \ {"none"}
        BY CallersAssumption DEF JobNames
      <4>3. QED
        BY <4>1, <4>2, BeginKept
    <3>2. CASE UNCHANGED <<shellVars, doing, ip>>
      BY <3>2, CalmKept DEF Calm, shellVars
    <3>3. QED
      BY <2>3, <3>1, <3>2 DEF StartJudge
  <2>4. CASE RouteMac
    BY <2>4, CalmKept DEF RouteMac, Calm, shellVars
  <2>5. CASE IllButton \/ StandbyLedButton
    BY <2>5, CalmKept DEF IllButton, StandbyLedButton, Crash, Calm, Handle, Idle
  <2>6. QED
    BY <1>1, <2>1, <2>2, <2>3, <2>4, <2>5 DEF Looper
<1>2. CASE \E c \in Callers : Caller(c) \/ Child(c)
  <2>1. PICK c \in Callers : Caller(c) \/ Child(c)
    BY <1>2
  <2>2. CASE Child(c)
    BY <2>2, CallKept DEF Child, looperVars
  <2>3. CASE CallStep(c) /\ UNCHANGED looperVars
    BY <2>3, CallKept DEF looperVars
  <2>4. CASE Returned(c)
    BY <2>4, NextCommandKept, FinishKept DEF Returned
  <2>5. CASE Threw(c)
    BY <2>5, NextCommandKept, FinishKept DEF Threw
  <2>6. QED
    BY <2>1, <2>2, <2>3, <2>4, <2>5 DEF Caller
<1>3. CASE \E t \in MacJobs : MacThread(t)
  <2>1. PICK t \in MacJobs : MacThread(t)
    BY <1>3
  <2>2. /\ app = "up" /\ UNCHANGED <<callVars, service, doing, ip>>
    BY <2>1 DEF MacThread, MacOffline, MacDenied, MacWakes, MacStep
  <2>3. app' \in {app, "denied"}
    BY <2>1 DEF MacThread, MacOffline, MacDenied, MacWakes
  <2>4. QED
    BY <2>2, <2>3, CalmKept DEF Calm
<1>4. CASE \E b \in UNION Habits : Tap(b)
  BY <1>4, CalmKept DEF Tap, Calm, shellVars
<1>5. CASE Killed
  BY <1>5, CalmKept DEF Killed, Calm, looperVars
<1>6. CASE UNCHANGED vars
  BY <1>6, CalmKept DEF vars, shellVars, looperVars, Calm
<1>7. QED
  BY <1>1, <1>2, <1>3, <1>4, <1>5, <1>6 DEF Next

(* The calls, their children and the services stay in step.                *)
THEOREM ButtonsInStep == Spec => []ButtonInv
<1>1. QED
  BY ButtonInvInit, ButtonInvNext, PTL DEF Spec

(* execCommand() and the others return no partial result: the child has    *)
(* ended, its stream is drained, and a root shell has run all the lines or *)
(* refused to run any.                                                     *)
THEOREM ResultsAreWhole == Spec => []WholeResult
<1>1. ButtonInv => WholeResult
  <2> SUFFICES ASSUME ButtonInv, NEW c \in Callers, step[c] = "returned"
               PROVE  /\ ~Alive(c) /\ Silent(c)
                      /\ pipe[c][Stream(c)] = 0
                      /\ cmd[c].su => child[c].ran \in {0, Len(cmd[c].lines)}
    BY DEF WholeResult
  <2>1. CallInv(c)
    BY DEF ButtonInv
  <2>2. QED
    BY <2>1 DEF CallInv, Ended
<1>2. QED
  BY <1>1, ButtonsInStep, PTL

(* adbd and eth0 are left stopped only by an app that ended in the middle  *)
(* of the lines of their button, and no job thread ever stops them.        *)
THEOREM NothingLeftDown == Spec => []DownOnlyIfCut
<1>1. ButtonInv => DownOnlyIfCut
  <2> SUFFICES ASSUME ButtonInv, NEW s \in Services, service[s] = "down", ~Alive("main")
               PROVE  app # "up" /\ step["main"] = "write"
    BY CallersAssumption DEF DownOnlyIfCut
  <2>1. "main" \in Callers
    BY CallersAssumption
  <2>2. CallInv("main") /\ ScriptInv("main") /\ ServiceInv
    BY <2>1 DEF ButtonInv
  <2>3. /\ doing["main"] \in {"adb", "mac"}
        /\ child["main"].ran \in {1, 2}
    BY <2>2 DEF ServiceInv, Services
  <2>4. cmd["main"].su /\ Len(cmd["main"].lines) = 3
    <3>1. CASE doing["main"] = "adb"
      BY <2>1, <2>2, <3>1, AdbLines DEF Command
    <3>2. CASE doing["main"] = "mac"
      BY <2>1, <2>2, <3>2, MacLines DEF Command
    <3>3. QED
      BY <2>3, <3>1, <3>2
  <2>5. ~Ended("main")
    BY <2>3, <2>4 DEF Ended
  <2>6. app # "up" /\ child["main"].ran = sent["main"]
    BY <2>2, <2>4, <2>5 DEF CallInv
  <2>7. step["main"] \in Steps
    BY <2>1, CallerTypes DEF ButtonInv
  <2>8. step["main"] \notin {"none", "exec", "wait", "read", "returned", "threw"}
    BY <2>2, <2>3, <2>4, <2>5, <2>6 DEF CallInv
  <2>9. QED
    BY <2>6, <2>7, <2>8 DEF Steps
<1>2. QED
  BY <1>1, ButtonsInStep, PTL

-----------------------------------------------------------------------------
(* What is queued for the looper.                                          *)
Queueable == [event : Events] \cup Messages
QueueInv == habit \in Habits /\ queue \in Seq(Queueable)

(* The steps of the threads of getRouteWifiMacJob.                         *)
MacTypes == mpc \in [MacJobs -> {"off", "ask", "sleep"}]

LEMMA QueueInvInit == Init => QueueInv
<1>1. Clicked("create") \in Queueable
  BY DEF Clicked, Queueable, Events
<1>2. <<Clicked("create")>> \in Seq(Queueable)
  BY <1>1
<1>3. QED
  BY <1>2 DEF Init, QueueInv

LEMMA QueueInvNext == QueueInv /\ [Next]_vars => QueueInv'
<1> SUFFICES ASSUME QueueInv, [Next]_vars PROVE QueueInv'
  OBVIOUS
<1>1. habit' = habit
  BY DEF Next, Looper, HandleMessage, OnMain, StartJudge, RouteMac, IllButton, StandbyLedButton,
         Crash, Caller, Child,
         MacThread, MacOffline, MacDenied, MacWakes, MacStep, Tap, Killed, vars
<1>2. \A t \in Callers \cup MacJobs : Send(t) => queue' \in Seq(Queueable)
  <2>1. SUFFICES ASSUME NEW t \in Callers \cup MacJobs, Send(t)
                 PROVE  queue' \in Seq(Queueable)
    OBVIOUS
  <2>2. [from |-> t] \in Queueable
    BY DEF Queueable, Messages
  <2>3. QED
    BY <2>1, <2>2, AppendProperties DEF Send, QueueInv
<1>3. CASE Looper
  <2>1. queue # << >> /\ queue' = Tail(queue)
    BY <1>3 DEF Looper, HandleMessage, OnMain, StartJudge, RouteMac, IllButton, StandbyLedButton,
         Crash, Handle
  <2>2. QED
    BY <1>1, <2>1, HeadTailProperties DEF QueueInv
<1>4. CASE \E c \in Callers : Caller(c) \/ Child(c)
  <2>1. PICK c \in Callers : Send(c) \/ UNCHANGED queue
    BY <1>4 DEF Caller, Child, looperVars, Returned, Threw, NextCommand
  <2>2. QED
    BY <1>1, <1>2, <2>1 DEF QueueInv
<1>5. CASE \E t \in MacJobs : MacThread(t)
  <2>1. PICK t \in MacJobs : Send(t) \/ UNCHANGED queue
    BY <1>5 DEF MacThread, MacOffline, MacDenied, MacWakes
  <2>2. QED
    BY <1>1, <1>2, <2>1 DEF QueueInv
<1>6. CASE \E b \in UNION Habits : Tap(b)
  <2>1. PICK b \in UNION Habits : Tap(b)
    BY <1>6
  <2>2. Clicked(b) \in Queueable
    BY DEF Clicked, Queueable, Events
  <2>3. QED
    BY <1>1, <2>1, <2>2, AppendProperties DEF Tap, QueueInv
<1>7. CASE Killed \/ UNCHANGED vars
  BY <1>1, <1>7 DEF Killed, looperVars, vars, QueueInv
<1>8. QED
  BY <1>1, <1>3, <1>4, <1>5, <1>6, <1>7 DEF Next, QueueInv

LEMMA MacTypesNext == MacTypes /\ [Next]_vars => MacTypes'
<1> SUFFICES ASSUME MacTypes, [Next]_vars PROVE MacTypes'
  OBVIOUS
<1>1. CASE \E t \in MacJobs : MacThread(t)
  BY <1>1 DEF MacTypes, MacThread, MacOffline, MacDenied, MacWakes, MacStep
<1>2. CASE RouteMac
  BY <1>2 DEF MacTypes, RouteMac
<1>3. CASE UNCHANGED mpc
  BY <1>3 DEF MacTypes
<1>4. QED
  BY <1>1, <1>2, <1>3 DEF Next, Looper, HandleMessage, OnMain, StartJudge, IllButton,
     StandbyLedButton, Crash, Caller, Child, Tap, Killed, vars

(* Every variable of the app stays within its type.                        *)
THEOREM TypesOfApp == Spec => []TypeOK
<1>1. ButtonInv /\ MacTypes /\ QueueInv => TypeOK
  <2> SUFFICES ASSUME ButtonInv, MacTypes, QueueInv PROVE TypeOK
    OBVIOUS
  <2>1. ShellTypeOK
    <3>1. ASSUME NEW c \in Callers
          PROVE  /\ sent[c] \in 0 .. Len(cmd[c].lines) + 1
                 /\ child[c].ran \in 0 .. sent[c]
                 /\ \A s \in Streams : pipe[c][s] \in 0 .. PIPE
      BY CallerTypes, PipeAssumption DEF ButtonInv, CallInv, Streams
    <3>2. QED
      BY <3>1 DEF ShellTypeOK, ButtonInv, CallTypes, Steps
  <2>2. \A c \in Callers : ip[c] \in 0 .. Len(Script(doing[c]))
    <3>1. Len(Script("none")) = 0
      BY ScriptIs
    <3>2. ASSUME NEW c \in Callers
          PROVE  ip[c] \in 0 .. Len(Script(doing[c]))
      BY <3>1, CallerTypes, ScriptTypes DEF ButtonInv, ScriptInv
    <3>3. QED
      BY <3>2
  <2>3. QED
    BY <2>1, <2>2 DEF TypeOK, ButtonInv, CallTypes, JobNames, MacTypes, QueueInv, Queueable
<1>2. Init => MacTypes
  BY DEF Init, MacTypes
<1>3. QED
  BY <1>1, <1>2, ButtonInvInit, ButtonInvNext, MacTypesNext, QueueInvInit, QueueInvNext,
     PTL DEF Spec

-----------------------------------------------------------------------------
(* The scripts as ScriptRunner has them: lines only.                       *)
LEMMA ScriptsAre ==
  ASSUME NEW job \in JobNames
  PROVE  /\ Len(Scripts[job]) = Len(Script(job))
         /\ \A i \in 1 .. Len(Script(job)) : Scripts[job][i] = Script(job)[i].lines
<1> DEFINE n == Len(Script(job))
           lines(i) == Script(job)[i].lines
<1>1. n \in Nat /\ \A i \in 1 .. n : lines(i) \in Seq(Lines)
  BY ScriptTypes DEF Commands
<1>2. Scripts[job] = [i \in 1 .. n |-> lines(i)]
  BY DEF Scripts
<1> HIDE DEF n, lines
<1>3. Scripts[job] \in [1 .. n -> Seq(Lines)]
  BY <1>1, <1>2
<1>4. Scripts[job] \in Seq(Seq(Lines))
  BY <1>1, <1>3, SeqDef
<1>5. Len(Scripts[job]) \in Nat /\ 1 .. Len(Scripts[job]) = 1 .. n
  BY <1>3, <1>4, LenProperties
<1>6. Len(Scripts[job]) = n
  BY <1>1, <1>5
<1>7. QED
  BY <1>2, <1>6 DEF n, lines

LEMMA Current ==
  ASSUME CallTypes, NEW c \in Callers, ScriptInv(c), doing[c] # "none"
  PROVE  /\ Runner!Lines(c) = cmd[c].lines
         /\ Runner!IsLast(c) <=> ip[c] = Len(Script(doing[c]))
<1>1. doing[c] \in JobNames
  BY CallerTypes
<1>2. ip[c] \in 1 .. Len(Script(doing[c])) /\ cmd[c] = Script(doing[c])[ip[c]]
  BY DEF ScriptInv
<1>3. QED
  BY <1>1, <1>2, ScriptsAre DEF Runner!Lines, Runner!IsLast

(* A plain command has no lines.                                           *)
LEMMA PlainHasNone ==
  ASSUME CallTypes, NEW c \in Callers, ScriptInv(c), ~cmd[c].su
  PROVE  Len(cmd[c].lines) = 0
<1>1. doing[c] \in JobNames
  BY CallerTypes
<1>2. doing[c] \in JobNames \ {"adb", "mac"}
  BY <1>1, AdbLines, MacLines DEF Command
<1>3. cmd[c] \in {Plain, Command(<<Work>>)}
  BY <1>2, OtherLines
<1>4. QED
  BY <1>3 DEF Command, Plain

(* How many lines took effect changes for one caller only.                 *)
LEMMA RanIs ==
  ASSUME CallTypes, NEW c \in Callers, Others(c)
  PROVE  Ran' = [Ran EXCEPT ![c] = child'[c].ran]
<1>1. \A d \in Callers : d # c => child'[d] = child[d]
  BY DEF Others
<1>2. QED
  BY <1>1 DEF Ran

-----------------------------------------------------------------------------
(* The results among what is queued.                                       *)
LEMMA QueueAppend ==
  ASSUME queue \in Seq(Queueable), NEW e \in Queueable, queue' = Append(queue, e)
  PROVE  News' = News \cup {c \in Callers : e = [from |-> c]}
<1>1. /\ Len(queue') = Len(queue) + 1 /\ Len(queue) \in Nat
      /\ \A i \in 1 .. Len(queue) : queue'[i] = queue[i]
      /\ queue'[Len(queue) + 1] = e
  OBVIOUS
<1>2. ASSUME NEW c \in Callers
      PROVE  (\E i \in 1 .. Len(queue') : queue'[i] = [from |-> c])
               <=> (\E i \in 1 .. Len(queue) : queue[i] = [from |-> c]) \/ e = [from |-> c]
  <2> DEFINE m == [from |-> c]
  <2> HIDE DEF m
  <2>1. (\E i \in 1 .. Len(queue') : queue'[i] = m)
          <=> (\E i \in 1 .. Len(queue) : queue[i] = m) \/ e = m
    <3>1. ASSUME NEW i \in 1 .. Len(queue'), queue'[i] = m
          PROVE  (\E k \in 1 .. Len(queue) : queue[k] = m) \/ e = m
      BY <1>1, <3>1
    <3>2. ASSUME NEW i \in 1 .. Len(queue), queue[i] = m
          PROVE  \E k \in 1 .. Len(queue') : queue'[k] = m
      BY <1>1, <3>2
    <3>3. e = m => \E k \in 1 .. Len(queue') : queue'[k] = m
      BY <1>1
    <3>4. QED
      BY <3>1, <3>2, <3>3
  <2>2. QED
    BY <2>1 DEF m
<1>3. QED
  BY <1>2 DEF News

LEMMA QueueTail ==
  ASSUME queue \in Seq(Queueable), queue # << >>, queue' = Tail(queue)
  PROVE  /\ News' \subseteq News
         /\ \A c \in Callers : Head(queue) # [from |-> c] /\ c \in News => c \in News'
         /\ \A c \in Callers : Head(queue) = [from |-> c] => c \in News
<1>1. /\ Len(queue') = Len(queue) - 1 /\ Len(queue) \in Nat \ {0}
      /\ \A i \in 1 .. Len(queue') : queue'[i] = queue[i + 1]
      /\ Head(queue) = queue[1]
  OBVIOUS
<1>2. ASSUME NEW m
      PROVE  /\ (\E i \in 1 .. Len(queue') : queue'[i] = m)
                  => \E i \in 1 .. Len(queue) : queue[i] = m
             /\ Head(queue) # m /\ (\E i \in 1 .. Len(queue) : queue[i] = m)
                  => \E i \in 1 .. Len(queue') : queue'[i] = m
             /\ Head(queue) = m => \E i \in 1 .. Len(queue) : queue[i] = m
  <2>1. ASSUME NEW i \in 1 .. Len(queue'), queue'[i] = m
        PROVE  \E k \in 1 .. Len(queue) : queue[k] = m
    <3>1. i + 1 \in 1 .. Len(queue) /\ queue[i + 1] = m
      BY <1>1, <2>1
    <3>2. QED
      BY <3>1
  <2>2. ASSUME Head(queue) # m, NEW i \in 1 .. Len(queue), queue[i] = m
        PROVE  \E k \in 1 .. Len(queue') : queue'[k] = m
    <3>1. i # 1
      BY <1>1, <2>2
    <3>2. i - 1 \in 1 .. Len(queue') /\ queue'[i - 1] = m
      BY <1>1, <2>2, <3>1
    <3>3. QED
      BY <3>2
  <2>3. Head(queue) = m => \E i \in 1 .. Len(queue) : queue[i] = m
    BY <1>1
  <2>4. QED
    BY <2>1, <2>2, <2>3
<1>3. QED
  BY <1>2 DEF News

(* Clicks and the reports of the MAC threads are no news of a caller.      *)
LEMMA NoNews ==
  ASSUME queue \in Seq(Queueable)
  PROVE  /\ UNCHANGED queue => UNCHANGED News
         /\ \A b \in Events : queue' = Append(queue, Clicked(b)) => UNCHANGED News
         /\ \A t \in MacJobs : Send(t) => UNCHANGED News
         /\ \A b \in Events : Handle(Clicked(b)) => UNCHANGED News
<1>1. \A b \in Events : Clicked(b) \in Queueable
                       /\ \A c \in Callers : Clicked(b) # [from |-> c]
  BY DEF Clicked, Queueable
<1>2. \A t \in MacJobs : [from |-> t] \in Queueable
                        /\ \A c \in Callers : [from |-> t] # [from |-> c]
  BY MacJobsAssumption DEF Queueable, Messages
<1>3. UNCHANGED queue => UNCHANGED News
  BY DEF News
<1>4. ASSUME NEW e \in Queueable, \A c \in Callers : e # [from |-> c], queue' = Append(queue, e)
      PROVE  UNCHANGED News
  BY <1>4, QueueAppend
<1>5. ASSUME NEW e, \A c \in Callers : e # [from |-> c], Handle(e)
      PROVE  UNCHANGED News
  <2>1. queue # << >> /\ Head(queue) = e /\ queue' = Tail(queue)
    BY <1>5 DEF Handle
  <2>2. News' \subseteq News /\ \A c \in Callers : c \in News => c \in News'
    BY <1>5, <2>1, QueueTail
  <2>3. News \subseteq Callers
    BY DEF News
  <2>4. QED
    BY <2>2, <2>3
<1>6. QED
  BY <1>1, <1>2, <1>3, <1>4, <1>5 DEF Send

LEMMA NewsOfCaller ==
  ASSUME queue \in Seq(Queueable), NEW c \in Callers, Send(c)
  PROVE  News' = News \cup {c}
<1>1. [from |-> c] \in Queueable /\ {d \in Callers : [from |-> c] = [from |-> d]} = {c}
  BY DEF Queueable, Messages
<1>2. QED
  BY <1>1, QueueAppend DEF Send

LEMMA NewsShown ==
  ASSUME queue \in Seq(Queueable), NEW t \in Callers \cup MacJobs, Handle([from |-> t])
  PROVE  UNCHANGED News \/ (t \in News /\ News' = News \ {t})
<1>1. queue # << >> /\ Head(queue) = [from |-> t] /\ queue' = Tail(queue)
  BY DEF Handle
<1>2. \A c \in Callers : c # t => Head(queue) # [from |-> c]
  BY <1>1
<1>3. News \subseteq Callers
  BY DEF News
<1>4. News' \subseteq News /\ \A c \in News : c # t => c \in News'
  BY <1>1, <1>2, <1>3, QueueTail
<1>5. t \in News' => News' = News
  BY <1>4
<1>6. t \notin News' => News' = News \ {t}
  BY <1>4
<1>7. QED
  BY <1>5, <1>6

-----------------------------------------------------------------------------
(* A line that the child of a caller runs is the next one of its command.  *)
LEMMA LineRuns ==
  ASSUME ButtonInv, NEW c \in Callers, RunLine(c), UNCHANGED looperVars
  PROVE  Runner!RunLine(c)
<1>1. CallTypes /\ CallInv(c) /\ ScriptInv(c)
  BY DEF ButtonInv
<1>2. child \in [Callers -> Children] /\ child[c].ran \in Nat
  BY <1>1, CallerTypes DEF CallTypes
<1>3. child[c].alive /\ child[c].ran < Len(cmd[c].lines)
  BY DEF RunLine, Alive
<1>4. doing[c] # "none"
  BY <1>1, <1>3 DEF CallInv, ScriptInv, NoChild
<1>5. Runner!Lines(c) = cmd[c].lines
  BY <1>1, <1>4, Current
<1>6. child'[c].ran = child[c].ran + 1
  BY <1>2 DEF RunLine, Children
<1>7. Ran' = [Ran EXCEPT ![c] = Ran[c] + 1] /\ Ran[c] = child[c].ran
  <2>1. UNCHANGED <<doing, ip>>
    BY DEF looperVars
  <2>2. Others(c)
    BY <1>1, <2>1, CallOthers DEF ChildStep
  <2>3. QED
    BY <1>1, <1>6, <2>2, RanIs DEF Ran
<1>8. UNCHANGED <<app, doing, ip, News>>
  BY DEF RunLine, looperVars, News
<1>9. LET line == cmd[c].lines[child[c].ran + 1]
      IN  service' = IF line.does = "work" THEN service
                     ELSE [service EXCEPT ![line.on] = line.does]
  BY DEF RunLine
<1>10. QED
  BY <1>3, <1>4, <1>5, <1>7, <1>8, <1>9 DEF Runner!RunLine

(* All other steps of a call and of its child are nobody's business.       *)
LEMMA CallRuns ==
  ASSUME ButtonInv, NEW c \in Callers, CallStep(c) \/ ChildStep(c), ~RunLine(c),
         UNCHANGED looperVars
  PROVE  UNCHANGED Runner!runnerVars
<1>1. CallTypes /\ CallInv(c) /\ child \in [Callers -> Children]
  BY DEF ButtonInv, CallTypes
<1>2. UNCHANGED <<app, service, doing, ip, News>>
  BY DEF looperVars, News, CallStep, ChildStep, Exec, ExecThrows, WriteLine, WriteThrows,
         WaitFor, Read, EndOfStream, Emit, Exit
<1>3. child'[c].ran = child[c].ran
  <2>1. CASE Exec(c)
    <3>1. child[c].ran = 0
      BY <1>1, <2>1 DEF Exec, At, CallInv, NoChild
    <3>2. child'[c].ran = 0
      BY <1>1, <2>1 DEF Exec, NoChild
    <3>3. QED
      BY <3>1, <3>2
  <2>2. CASE ~Exec(c)
    BY <1>1, <2>2 DEF CallStep, ChildStep, ExecThrows, WriteLine, WriteThrows, WaitFor, Read,
                      EndOfStream, Emit, Exit, Children
  <2>3. QED
    BY <2>1, <2>2
<1>4. UNCHANGED Ran
  <2>1. Others(c)
    BY <1>1, <1>2, CallOthers
  <2>2. Ran' = [Ran EXCEPT ![c] = Ran[c]]
    BY <1>1, <1>3, <2>1, RanIs DEF Ran
  <2>3. QED
    BY <2>2 DEF Ran
<1>5. QED
  BY <1>2, <1>4 DEF Runner!runnerVars

(* A job or a button begins.                                               *)
LEMMA BeginRuns ==
  ASSUME ButtonInv, NEW c \in Callers, Idle(c),
         NEW job, IF c = "main" THEN job \in {"create", "chmod", "adb", "mac"} ELSE job = "clean",
         Begin(c, job), UNCHANGED News
  PROVE  Runner!Next
<1>1. UNCHANGED Ran
  BY DEF Begin, Ran
<1>2. job \in MayRun[c]
  BY DEF MayRun
<1>3. Runner!Begin(c, job)
  BY <1>1, <1>2 DEF Begin, Idle, Runner!Begin
<1>4. QED
  BY <1>2, <1>3 DEF Runner!Next

(* A call that is over has done all or nothing, and leaves nothing behind. *)
LEMMA OverRuns ==
  ASSUME ButtonInv, NEW c \in Callers, At(c, "returned") \/ At(c, "threw"), Close(c)
  PROVE  Runner!AllOrNothing(c)
<1>1. CallTypes /\ CallInv(c) /\ ScriptInv(c)
  BY DEF ButtonInv
<1>2. app = "up" /\ doing[c] # "none"
  BY <1>1 DEF At, ScriptInv
<1>3. Runner!Lines(c) = cmd[c].lines
  BY <1>1, <1>2, Current
<1>4. child[c].ran \in {0, Len(cmd[c].lines)}
  <2>1. CASE cmd[c].su
    BY <1>1, <2>1 DEF At, CallInv, Ended
  <2>2. CASE ~cmd[c].su
    <3>1. Len(cmd[c].lines) = 0
      BY <1>1, <2>2, PlainHasNone
    <3>2. child[c].ran <= 0 /\ child[c].ran \in Nat
      BY <1>1, <3>1, CallerTypes DEF CallInv
    <3>3. QED
      BY <3>2
  <2>3. QED
    BY <2>1, <2>2
<1>5. Ran' = [Ran EXCEPT ![c] = 0] /\ Ran[c] = child[c].ran
  <2>1. child' = [child EXCEPT ![c] = NoChild] /\ child \in [Callers -> Children]
    BY <1>1 DEF Close, CallTypes
  <2>2. child'[c].ran = 0 /\ \A d \in Callers : d # c => child'[d] = child[d]
    BY <2>1 DEF NoChild
  <2>3. QED
    BY <2>2 DEF Ran
<1>6. UNCHANGED <<app, service>>
  BY DEF Close
<1>7. QED
  BY <1>2, <1>3, <1>4, <1>5, <1>6 DEF Runner!AllOrNothing

LEMMA NextCommandRuns ==
  ASSUME ButtonInv, NEW c \in Callers, At(c, "returned") \/ At(c, "threw"), NextCommand(c)
  PROVE  Runner!Next
<1>1. CallTypes /\ ScriptInv(c) /\ doing[c] # "none"
  BY DEF ButtonInv, ScriptInv, At
<1>2. Runner!AllOrNothing(c)
  BY OverRuns DEF NextCommand
<1>3. ~Runner!IsLast(c)
  <2>1. doing[c] \in JobNames /\ Len(Script(doing[c])) \in Nat /\ ip[c] \in Nat
    BY <1>1, CallerTypes, ScriptTypes
  <2>2. ip[c] # Len(Script(doing[c]))
    BY <2>1 DEF NextCommand
  <2>3. QED
    BY <1>1, <2>2, Current
<1>4. UNCHANGED <<doing, News>> /\ ip' = [ip EXCEPT ![c] = @ + 1]
  BY DEF NextCommand, News
<1>5. Runner!NextCommand(c)
  BY <1>2, <1>3, <1>4 DEF Runner!NextCommand
<1>6. QED
  BY <1>5 DEF Runner!Next

LEMMA FinishRuns ==
  ASSUME ButtonInv, NEW c \in Callers, At(c, "returned") \/ At(c, "threw"), Finish(c),
         doing[c] \in GoesOn => ip[c] = Len(Script(doing[c])),
         \/ UNCHANGED News
         \/ ip[c] = Len(Script(doing[c])) /\ doing[c] \in Tells /\ News' = News \cup {c}
  PROVE  Runner!Next
<1>1. CallTypes /\ ScriptInv(c) /\ doing[c] # "none"
  BY DEF ButtonInv, ScriptInv, At
<1>2. Runner!AllOrNothing(c)
  BY OverRuns DEF Finish
<1>3. Runner!IsLast(c) <=> ip[c] = Len(Script(doing[c]))
  BY <1>1, Current
<1>4. doing' = [doing EXCEPT ![c] = "none"] /\ ip' = [ip EXCEPT ![c] = 0]
  BY DEF Finish
<1>5. Runner!Finish(c)
  BY <1>2, <1>3, <1>4 DEF Runner!Finish
<1>6. QED
  BY <1>5 DEF Runner!Next

(* Steps that leave all calls alone and bring no news, but may end the app.*)
LEMMA CalmRuns ==
  ASSUME ButtonInv, Calm, UNCHANGED News
  PROVE  Runner!Next \/ UNCHANGED Runner!runnerVars
<1>1. UNCHANGED <<service, doing, ip, Ran, News>>
  BY DEF Calm, callVars, Ran
<1>2. CASE app' = app
  BY <1>1, <1>2 DEF Runner!runnerVars
<1>3. CASE app = "up" /\ app' # "up"
  <2>1. Runner!EndApp
    BY <1>1, <1>3 DEF Runner!EndApp
  <2>2. QED
    BY <2>1 DEF Runner!Next
<1>4. QED
  BY <1>2, <1>3 DEF Calm

(* What the looper does: it shows a result, or begins with a click.        *)
LEMMA LooperRuns ==
  ASSUME ButtonInv, QueueInv, Looper
  PROVE  Runner!Next \/ UNCHANGED Runner!runnerVars
<1>1. queue \in Seq(Queueable) /\ {"create"} \subseteq Events
  BY DEF QueueInv, Events
<1>2. \A b : Handle(Clicked(b)) => UNCHANGED News
  <2>1. SUFFICES ASSUME NEW b, Handle(Clicked(b)) PROVE UNCHANGED News
    OBVIOUS
  <2>2. Head(queue) = Clicked(b) /\ queue # << >>
    BY <2>1 DEF Handle
  <2>3. Clicked(b) \in Queueable
    BY <1>1, <2>2, HeadTailProperties
  <2>4. b \in Events
    BY <2>3 DEF Clicked, Queueable, Messages
  <2>5. QED
    BY <1>1, <2>1, <2>4, NoNews
<1>3. CASE HandleMessage
  <2>1. PICK t \in Callers \cup MacJobs : Handle([from |-> t])
    BY <1>3 DEF HandleMessage
  <2>2. UNCHANGED <<app, service, doing, ip, Ran>> /\ app = "up"
    BY <1>3, <2>1 DEF HandleMessage, shellVars, callVars, Ran, Handle, Idle
  <2>3. CASE UNCHANGED News
    BY <2>2, <2>3 DEF Runner!runnerVars
  <2>4. CASE t \in News /\ News' = News \ {t}
    <3>1. Runner!Show
      BY <2>2, <2>4 DEF Runner!Show
    <3>2. QED
      BY <3>1 DEF Runner!Next
  <2>5. QED
    BY <1>1, <2>1, <2>3, <2>4, NewsShown
<1>4. CASE OnMain
  <2>1. PICK job \in {"create", "chmod", "adb", "mac"} :
          Handle(Clicked(job)) /\ Begin("main", job)
    BY <1>4 DEF OnMain
  <2>2. "main" \in Callers /\ Idle("main") /\ UNCHANGED News
    BY <1>2, <2>1, CallersAssumption DEF Handle
  <2>3. QED
    BY <2>1, <2>2, BeginRuns
<1>5. CASE StartJudge
  <2>1. UNCHANGED News
    BY <1>2, <1>5 DEF StartJudge
  <2>2. CASE \E j \in Jobs : Idle(j) /\ Begin(j, "clean")
    <3>1. PICK j \in Jobs : Idle(j) /\ Begin(j, "clean")
      BY <2>2
    <3>2. j \in Callers /\ j # "main"
      BY CallersAssumption
    <3>3. QED
      BY <2>1, <3>1, <3>2, BeginRuns
  <2>3. CASE UNCHANGED <<shellVars, doing, ip>>
    BY <2>1, <2>3, CalmRuns DEF Calm, shellVars
  <2>4. QED
    BY <1>5, <2>2, <2>3 DEF StartJudge
<1>6. CASE RouteMac
  <2>1. UNCHANGED News
    BY <1>2, <1>6 DEF RouteMac
  <2>2. QED
    BY <1>6, <2>1, CalmRuns DEF RouteMac, Calm, shellVars
<1>7. CASE IllButton \/ StandbyLedButton
  <2>1. UNCHANGED News /\ app = "up"
    BY <1>2, <1>7 DEF IllButton, StandbyLedButton, Handle, Idle
  <2>2. QED
    BY <1>7, <2>1, CalmRuns DEF IllButton, StandbyLedButton, Crash, Calm
<1>8. QED
  BY <1>3, <1>4, <1>5, <1>6, <1>7 DEF Looper

(* What the callers, their calls and their children do.                    *)
LEMMA CallersRun ==
  ASSUME ButtonInv, QueueInv, NEW c \in Callers, Caller(c) \/ Child(c)
  PROVE  Runner!Next \/ UNCHANGED Runner!runnerVars
<1>1. queue \in Seq(Queueable)
  BY DEF QueueInv
<1>2. CASE (CallStep(c) \/ ChildStep(c)) /\ UNCHANGED looperVars
  <2>1. Runner!RunLine(c) => Runner!Next
    BY DEF Runner!Next
  <2>2. QED
    BY <1>2, <2>1, LineRuns, CallRuns
<1>3. CASE Returned(c)
  <2>1. At(c, "returned")
    BY <1>3 DEF Returned
  <2>2. CASE NextCommand(c)
    BY <2>1, <2>2, NextCommandRuns
  <2>3. CASE /\ ip[c] = Len(Script(doing[c]))
             /\ IF doing[c] \in Tells THEN Send(c) ELSE UNCHANGED queue
             /\ Finish(c)
    <3>1. UNCHANGED News \/ (doing[c] \in Tells /\ News' = News \cup {c})
      BY <1>1, <2>3, NewsOfCaller, NoNews
    <3>2. QED
      BY <2>1, <2>3, <3>1, FinishRuns
  <2>4. QED
    BY <1>3, <2>2, <2>3 DEF Returned
<1>4. CASE Threw(c)
  <2>1. At(c, "threw")
    BY <1>4 DEF Threw
  <2>2. CASE NextCommand(c)
    BY <2>1, <2>2, NextCommandRuns
  <2>3. CASE ~NextCommand(c)
    BY <1>1, <1>4, <2>1, <2>3, FinishRuns, NoNews DEF Threw
  <2>4. QED
    BY <2>2, <2>3
<1>5. QED
  BY <1>2, <1>3, <1>4 DEF Caller, Child

(* A caller of execCommand() and the others gets what ScriptRunner         *)
(* promises, for any number of threads, any pipe and whatever a command    *)
(* writes: lines in order, all or none of them, nothing of a command after *)
(* its end, and a result only of a script that came to its last command.   *)
THEOREM RunsScripts == Spec => RunnerSpec
<1>1. Init => Runner!Init
  <2> SUFFICES ASSUME Init PROVE Runner!Init
    OBVIOUS
  <2>1. Ran = [c \in Callers |-> 0]
    BY DEF Init, ShellInit, NoChild, Ran
  <2>2. News = {}
    <3>1. \A c \in Callers : Clicked("create") # [from |-> c]
      BY DEF Clicked
    <3>2. Len(queue) = 1 /\ queue[1] = Clicked("create")
      BY DEF Init
    <3>3. QED
      BY <3>1, <3>2 DEF News
  <2>3. QED
    BY <2>1, <2>2 DEF Init, ShellInit, Runner!Init
<1>2. ButtonInv /\ QueueInv /\ [Next]_vars => [Runner!Next]_(Runner!runnerVars)
  <2> SUFFICES ASSUME ButtonInv, QueueInv, [Next]_vars
               PROVE  Runner!Next \/ UNCHANGED Runner!runnerVars
    OBVIOUS
  <2>1. queue \in Seq(Queueable)
    BY DEF QueueInv
  <2>2. CASE \E t \in MacJobs : MacThread(t)
    <3>1. PICK t \in MacJobs : MacThread(t)
      BY <2>2
    <3>2. app = "up" /\ UNCHANGED <<callVars, service, doing, ip>>
      BY <3>1 DEF MacThread, MacOffline, MacDenied, MacWakes, MacStep
    <3>3. app' \in {app, "denied"} /\ (Send(t) \/ UNCHANGED queue)
      BY <3>1 DEF MacThread, MacOffline, MacDenied, MacWakes
    <3>4. QED
      BY <2>1, <3>2, <3>3, NoNews, CalmRuns DEF Calm
  <2>3. CASE \E b \in UNION Habits : Tap(b)
    <3>1. PICK b \in UNION Habits : Tap(b)
      BY <2>3
    <3>2. b \in Events /\ UNCHANGED News
      BY <2>1, <3>1, NoNews DEF Tap, Events
    <3>3. QED
      BY <3>1, <3>2, CalmRuns DEF Tap, Calm, shellVars
  <2>4. CASE Killed
    BY <2>1, <2>4, NoNews, CalmRuns DEF Killed, Calm, looperVars
  <2>5. CASE UNCHANGED vars
    BY <2>1, <2>5, NoNews, CalmRuns DEF vars, shellVars, looperVars, Calm
  <2>6. QED
    BY <2>2, <2>3, <2>4, <2>5, LooperRuns, CallersRun DEF Next
<1>3. QED
  BY ButtonInvInit, ButtonInvNext, QueueInvInit, QueueInvNext, <1>1, <1>2, PTL
  DEF Spec, RunnerSpec, Runner!Spec
=============================================================================
