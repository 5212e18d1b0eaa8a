---------------------------- MODULE MainActivity ----------------------------
(***************************************************************************)
(* MainActivity: the looper of the main thread with its queue of clicks    *)
(* and messages, the buttons that run shell commands on it, the job        *)
(* threads of startJudge(), and the threads that ask for the MAC of the    *)
(* router.                                                                 *)
(***************************************************************************)
EXTENDS ShellCommand

CONSTANTS Jobs,      \* threads of cleanjob
          MacJobs,   \* threads of getRouteWifiMacJob
          Habits,    \* sets of buttons; a user clicks those of one set
          MAXQUEUE   \* bound: the user does not click when as much is queued

ASSUME CallersAssumption == Callers = {"main"} \cup Jobs /\ "main" \notin Jobs
ASSUME MacJobsAssumption == MacJobs \cap Callers = {}

VARIABLES
  habit,   \* the buttons that this user clicks
  doing,   \* what each caller does
  ip,      \* its command that is next
  queue,   \* the queue of the main looper
  mpc      \* the step of each MAC thread

looperVars == <<doing, ip, queue>>
vars == <<shellVars, looperVars, mpc, habit>>

Line(does, on) == [does |-> does, on |-> on]
Work == Line("work", "adbd")

(* A mutant: the interface is not brought up again.                        *)
ScriptNoUp(job) ==
  CASE job = "create" -> <<Plain, Plain>>
    [] job = "chmod"  -> <<Command(<<Work>>), Plain>>
    [] job = "adb"    -> <<Command(<<Work, Line("down", "adbd"), Line("up", "adbd")>>)>>
    [] job = "mac"    -> <<Command(<<Line("down", "eth0"), Work>>)>>
    [] job = "clean"  -> <<Plain, Command(<<Work>>), Plain>>
    [] job = "none"   -> << >>

(* The commands of getSystemInfo(), of the buttons and of cleanjob, in the *)
(* order they are run.                                                     *)
Script(job) ==
  CASE job = "create" -> <<Plain, Plain>>
    [] job = "chmod"  -> <<Command(<<Work>>), Plain>>
    [] job = "adb"    -> <<Command(<<Work, Line("down", "adbd"), Line("up", "adbd")>>)>>
    [] job = "mac"    -> <<Command(<<Line("down", "eth0"), Work, Line("up", "eth0")>>)>>
    [] job = "clean"  -> <<Plain, Command(<<Work>>), Plain>>
    [] job = "none"   -> << >>

(* Those that send their last result to the handler, and those that go on  *)
(* after an exception because each command has a try of its own.           *)
Tells == {"chmod", "clean"}
GoesOn == {"create"}

(* What the looper handles: the launch of the activity, a click, or a      *)
(* message THREAD with what a thread has to show.                          *)
Events == {"create"} \cup UNION Habits
Messages == [from : Callers \cup MacJobs]
Clicked(b) == [event |-> b]

TypeOK ==
  /\ ShellTypeOK
  /\ app \in {"up", "killed", "crash button", "denied"}
  /\ habit \in Habits
  /\ doing \in [Callers -> {"none", "create", "chmod", "adb", "mac", "clean"}]
  /\ \A c \in Callers : ip[c] \in 0 .. Len(Script(doing[c]))
  /\ queue \in Seq([event : Events] \cup Messages)
  /\ mpc \in [MacJobs -> {"off", "ask", "sleep"}]

Init ==
  /\ ShellInit
  /\ habit \in Habits
  /\ doing = [c \in Callers |-> "none"]
  /\ ip = [c \in Callers |-> 0]
  /\ queue = <<Clicked("create")>>
  /\ mpc = [t \in MacJobs |-> "off"]

-----------------------------------------------------------------------------
(* What a caller does: one command after the other.                        *)
Begin(c, job) ==
  /\ doing' = [doing EXCEPT ![c] = job]
  /\ ip' = [ip EXCEPT ![c] = 1]
  /\ cmd' = [cmd EXCEPT ![c] = Script(job)[1]]
  /\ Goto(c, "exec")
  /\ UNCHANGED <<app, sent, child, pipe, service>>

(* The streams of a call are closed when its method returns.               *)
Close(c) ==
  /\ sent' = [sent EXCEPT ![c] = 0]
  /\ child' = [child EXCEPT ![c] = NoChild]
  /\ pipe' = [pipe EXCEPT ![c] = Quiet]
  /\ UNCHANGED <<app, service>>

NextCommand(c) ==
  /\ ip[c] < Len(Script(doing[c]))
  /\ ip' = [ip EXCEPT ![c] = @ + 1]
  /\ cmd' = [cmd EXCEPT ![c] = Script(doing[c])[ip[c] + 1]]
  /\ Goto(c, "exec")
  /\ Close(c)
  /\ UNCHANGED <<doing, queue>>

Finish(c) ==
  /\ doing' = [doing EXCEPT ![c] = "none"]
  /\ ip' = [ip EXCEPT ![c] = 0]
  /\ cmd' = [cmd EXCEPT ![c] = Plain]
  /\ Goto(c, "none")
  /\ Close(c)

(* obtainMessage() and sendToTarget().                                     *)
Send(t) == queue' = Append(queue, [from |-> t])

Returned(c) ==
  /\ At(c, "returned")
  /\ \/ NextCommand(c)
     \/ /\ ip[c] = Len(Script(doing[c]))
        /\ IF doing[c] \in Tells THEN Send(c) ELSE UNCHANGED queue
        /\ Finish(c)

(* A mutant: the result is sent after an exception, too.                   *)
ThrewTells(c) ==
  /\ At(c, "threw")
  /\ \/ doing[c] \in GoesOn /\ NextCommand(c)
     \/ /\ doing[c] \in GoesOn => ip[c] = Len(Script(doing[c]))
        /\ Finish(c)
        /\ IF doing[c] \in Tells THEN Send(c) ELSE UNCHANGED queue

(* The IOException is caught; the rest of the try block is skipped.        *)
Threw(c) ==
  /\ At(c, "threw")
  /\ \/ doing[c] \in GoesOn /\ NextCommand(c)
     \/ /\ doing[c] \in GoesOn => ip[c] = Len(Script(doing[c]))
        /\ Finish(c)
        /\ UNCHANGED queue

(* The callers run their calls; cleanjob ends, onClick() returns to the    *)
(* looper.                                                                 *)
Caller(c) ==
  /\ \/ CallStep(c) /\ UNCHANGED looperVars
     \/ Returned(c)
     \/ Threw(c)
  /\ UNCHANGED <<mpc, habit>>

-----------------------------------------------------------------------------
(* The main looper: one event or message after the other, and none while   *)
(* the main thread is in a call.                                           *)
Idle(c) == app = "up" /\ doing[c] = "none"

Handle(e) ==
  /\ Idle("main")
  /\ queue # << >>
  /\ Head(queue) = e
  /\ queue' = Tail(queue)

(* handleMessage(): the text is shown.                                     *)
HandleMessage ==
  /\ \E t \in Callers \cup MacJobs : Handle([from |-> t])
  /\ UNCHANGED <<shellVars, doing, ip, mpc, habit>>

(* onCreate() with getSystemInfo(), and the buttons that run a command in  *)
(* the main thread.                                                        *)
OnMain ==
  /\ \E job \in {"create", "chmod", "adb", "mac"} :
       Handle(Clicked(job)) /\ Begin("main", job)
  /\ UNCHANGED <<mpc, habit>>

(* startJudge(): a new thread for each click; no more than Jobs at once.   *)
StartJudge ==
  /\ Handle(Clicked("start"))
  /\ \/ \E j \in Jobs : Idle(j) /\ Begin(j, "clean")
     \/ /\ \A j \in Jobs : ~Idle(j)
        /\ UNCHANGED <<shellVars, doing, ip>>
  /\ UNCHANGED <<mpc, habit>>

(* button_routemac: one more thread, without an end of its own.            *)
RouteMac ==
  /\ Handle(Clicked("routemac"))
  /\ \/ \E t \in MacJobs :
          mpc[t] = "off" /\ mpc' = [mpc EXCEPT ![t] = "ask"]
     \/ (\A t \in MacJobs : mpc[t] # "off") /\ UNCHANGED mpc
  /\ UNCHANGED <<shellVars, doing, ip, habit>>

(* What the main thread throws and nobody catches ends the app.            *)
Crash ==
  /\ app' = "crash button"
  /\ UNCHANGED <<callVars, service, doing, ip, mpc, habit>>

(* button_ill calls a method of a null reference.                          *)
IllButton == Handle(Clicked("ill")) /\ Crash

(* button_aw_led_standby calls a native method; the line that would load   *)
(* its library is commented out.                                           *)
StandbyLedButton == Handle(Clicked("aw_led_standby")) /\ Crash

Looper ==
  \/ HandleMessage \/ OnMain \/ StartJudge \/ RouteMac
  \/ IllButton \/ StandbyLedButton

(* The user, and the system that ends a process.                           *)
Tap(b) ==
  /\ app = "up"
  /\ b \in habit
  /\ Len(queue) < MAXQUEUE
  /\ queue' = Append(queue, Clicked(b))
  /\ UNCHANGED <<shellVars, doing, ip, mpc, habit>>

Killed ==
  /\ app = "up"
  /\ app' = "killed"
  /\ UNCHANGED <<callVars, service, looperVars, mpc, habit>>

-----------------------------------------------------------------------------
(* getRouteWifiMacJob.  The manifest does not ask for the permission       *)
(* ACCESS_NETWORK_STATE, so isConnectedToRouter() comes back only where    *)
(* there is no connectivity service, and what getRouterWifiMac() does for  *)
(* a connected router is never reached.                                    *)
MacStep(t, from, to) ==
  /\ app = "up"
  /\ mpc[t] = from
  /\ mpc' = [mpc EXCEPT ![t] = to]
  /\ UNCHANGED <<callVars, service, doing, ip, habit>>

(* "no wifi ap!" is logged and sent.                                       *)
MacOffline(t) ==
  /\ MacStep(t, "ask", "sleep")
  /\ Send(t)
  /\ UNCHANGED app

(* getNetworkInfo() throws a SecurityException, which nobody catches: it   *)
(* ends the app.                                                           *)
MacDenied(t) ==
  /\ MacStep(t, "ask", "off")
  /\ app' = "denied"
  /\ UNCHANGED queue

(* Five seconds later, which is enough for the looper unless the main      *)
(* thread is in a call; a bound on the messages of one thread.             *)
MacWakes(t) ==
  /\ MacStep(t, "sleep", "ask")
  /\ \A i \in 1 .. Len(queue) : queue[i] # [from |-> t]
  /\ UNCHANGED <<app, queue>>

MacThread(t) == MacOffline(t) \/ MacDenied(t) \/ MacWakes(t)

-----------------------------------------------------------------------------
Child(c) == ChildStep(c) /\ UNCHANGED <<looperVars, mpc, habit>>

Next ==
  \/ Looper
  \/ \E c \in Callers : Caller(c) \/ Child(c)
  \/ \E t \in MacJobs : MacThread(t)
  \/ \E b \in UNION Habits : Tap(b)
  \/ Killed

Spec == Init /\ [][Next]_vars

(* Threads are scheduled, and commands end if somebody reads what they     *)
(* write.  Nothing is assumed of the user or of the threads that only      *)
(* repeat themselves.                                                      *)
Fairness ==
  /\ WF_vars(Looper)
  /\ \A c \in Callers : WF_vars(Caller(c)) /\ WF_vars(Child(c))

FairSpec == Spec /\ Fairness

-----------------------------------------------------------------------------
(* A method that returns has read the stream it read to its end, and a     *)
(* root shell has run all the lines by then, or refused to run any.        *)
WholeResult ==
  \A c \in Callers :
    step[c] = "returned" =>
      /\ ~Alive(c) /\ Silent(c)
      /\ pipe[c][Stream(c)] = 0
      /\ cmd[c].su => child[c].ran \in {0, Len(cmd[c].lines)}

(* adbd and the interface stay down, after the shell that stopped them has *)
(* ended, only if the app ended while it was typing the lines.             *)
DownOnlyIfCut ==
  (\E s \in Services : service[s] = "down") /\ (\A c \in Callers : ~Alive(c))
    => app # "up" /\ step["main"] = "write"

(* The callers and their children, pipes and exceptions do what            *)
(* ScriptRunner promises.                                                  *)
JobNames == {"none", "create", "chmod", "adb", "mac", "clean"}

News == {c \in Callers : \E i \in 1 .. Len(queue) : queue[i] = [from |-> c]}

Scripts == [j \in JobNames |-> [i \in 1 .. Len(Script(j)) |-> Script(j)[i].lines]]

MayRun == [c \in Callers |-> IF c = "main" THEN {"create", "chmod", "adb", "mac"}
                             ELSE {"clean"}]

Ran == [c \in Callers |-> child[c].ran]

Runner == INSTANCE ScriptRunner WITH
  up <- app = "up", job <- doing, at <- ip, ran <- Ran, news <- News

RunnerSpec == Runner!Spec

(* Every call of the four methods comes to its end, unless the app does or *)
(* the child has filled a pipe that the method does not read.              *)
CallsEnd ==
  \A c \in Callers :
    step[c] \in {"exec", "write", "wait", "read"}
      ~> step[c] \in {"returned", "threw"} \/ app # "up" \/ Jammed(c)

(* What a job sends is shown, unless the app ends or the main thread is    *)
(* stuck in a call.                                                        *)
JobsAreShown ==
  \A j \in Jobs :
    (\E i \in 1 .. Len(queue) : queue[i] = [from |-> j])
      ~> \/ \A i \in 1 .. Len(queue) : queue[i] # [from |-> j]
         \/ app # "up"
         \/ Jammed("main")
=============================================================================
