---------------------------- MODULE ScriptRunner ----------------------------
(***************************************************************************)
(* What the buttons and job threads of MainActivity may take for granted   *)
(* of the four methods that run commands: no child process, no pipe, no    *)
(* exception.  A command is its lines, which take effect one by one, all   *)
(* of them or none; nothing of a command happens any more once the next    *)
(* one begins; and a result is news only when its script is through.  The  *)
(* end of the app may cut a command short, but lets no other one begin.    *)
(***************************************************************************)
EXTENDS Naturals, Sequences

CONSTANTS Callers,
          Services,
          Scripts,  \* of each job, the lines of each of its commands
          MayRun,   \* the jobs of each caller
          Tells,    \* jobs with a result to show
          GoesOn    \* jobs that no command that fails can stop

VARIABLES
  up,       \* the app has not ended
  job,      \* what each caller does
  at,       \* which of its commands is next or under way
  ran,      \* how many of its lines took effect
  service,  \* what the lines stop and start
  news      \* callers whose result is still to be shown

runnerVars == <<up, job, at, ran, service, news>>

Init ==
  /\ up = TRUE
  /\ job = [c \in Callers |-> "none"]
  /\ at = [c \in Callers |-> 0]
  /\ ran = [c \in Callers |-> 0]
  /\ service = [s \in Services |-> "up"]
  /\ news = {}

Lines(c) == Scripts[job[c]][at[c]]
IsLast(c) == at[c] = Len(Scripts[job[c]])

Begin(c, j) ==
  /\ up
  /\ job[c] = "none" /\ j \in MayRun[c]
  /\ job' = [job EXCEPT ![c] = j]
  /\ at' = [at EXCEPT ![c] = 1]
  /\ UNCHANGED <<up, ran, service, news>>

(* Also what an app that has ended left behind still takes effect.         *)
RunLine(c) ==
  /\ job[c] # "none"
  /\ ran[c] < Len(Lines(c))
  /\ ran' = [ran EXCEPT ![c] = @ + 1]
  /\ LET line == Lines(c)[ran[c] + 1]
     IN  service' = IF line.does = "work" THEN service
                    ELSE [service EXCEPT ![line.on] = line.does]
  /\ UNCHANGED <<up, job, at, news>>

AllOrNothing(c) ==
  /\ up
  /\ job[c] # "none"
  /\ ran[c] \in {0, Len(Lines(c))}
  /\ ran' = [ran EXCEPT ![c] = 0]
  /\ UNCHANGED <<up, service>>

NextCommand(c) ==
  /\ AllOrNothing(c)
  /\ ~IsLast(c)
  /\ at' = [at EXCEPT ![c] = @ + 1]
  /\ UNCHANGED <<job, news>>

Finish(c) ==
  /\ AllOrNothing(c)
  /\ job[c] \in GoesOn => IsLast(c)
  /\ job' = [job EXCEPT ![c] = "none"]
  /\ at' = [at EXCEPT ![c] = 0]
  /\ \/ UNCHANGED news
     \/ job[c] \in Tells /\ IsLast(c) /\ news' = news \cup {c}

Show ==
  /\ up
  /\ \E c \in news : news' = news \ {c}
  /\ UNCHANGED <<up, job, at, ran, service>>

EndApp ==
  /\ up
  /\ up' = FALSE
  /\ UNCHANGED <<job, at, ran, service, news>>

Next ==
  \/ \E c \in Callers :
       \/ \E j \in MayRun[c] : Begin(c, j)
       \/ RunLine(c) \/ NextCommand(c) \/ Finish(c)
  \/ Show
  \/ EndApp

Spec == Init /\ [][Next]_runnerVars
=============================================================================
