--------------------------- MODULE CommandService ---------------------------
(***************************************************************************)
(* What the app and jconfigserver promise together, without sockets: a     *)
(* client submits one command, a server runs them one at a time and each   *)
(* at most once, and "execute ok" follows the run.  A command may be lost  *)
(* at any stage, and then it is not answered; but one that is running when *)
(* the server is lost goes on without it, and the next server, which does  *)
(* not know of it, may run others beside it.  Only clients that are not    *)
(* the app may be answered without a run, or be told "failed execute".     *)
(***************************************************************************)
CONSTANTS Requesters,     \* whoever may send a command
          AppRequesters   \* those of the app

VARIABLE phase    \* phase[c]: how far the command of c has got

Phases == {"new", "submitted", "running", "orphaned", "ran", "ignored",
           "answered", "rejected", "lost"}

(* What a server that runs is busy with.                                   *)
InHand == {"running", "ran", "ignored"}

Init == phase = [c \in Requesters |-> "new"]

Move(c, from, to) ==
  /\ phase[c] = from
  /\ phase' = [phase EXCEPT ![c] = to]

NobodyInHand == \A d \in Requesters : phase[d] \notin InHand

Submit(c) == Move(c, "new", "submitted")
Start(c) == NobodyInHand /\ Move(c, "submitted", "running")
Finish(c) == Move(c, "running", "ran")
Ignore(c) == NobodyInHand /\ c \notin AppRequesters /\ Move(c, "submitted", "ignored")
Answer(c) == Move(c, "ran", "answered") \/ Move(c, "ignored", "answered")
Reject(c) == NobodyInHand /\ c \notin AppRequesters /\ Move(c, "new", "rejected")

(* One failure may lose the commands of several clients.  A running one is *)
(* not ended by it: it is lost when it ends by itself.                     *)
Lose ==
  \E L \in (SUBSET Requesters) \ {{}} :
    /\ \A c \in L : phase[c] \notin {"answered", "rejected", "lost"}
    /\ phase' = [c \in Requesters |->
                   IF c \notin L THEN phase[c]
                   ELSE IF phase[c] = "running" THEN "orphaned"
                   ELSE "lost"]

Next ==
  \/ \E c \in Requesters :
       \/ Submit(c) \/ Start(c) \/ Finish(c) \/ Ignore(c)
       \/ Answer(c) \/ Reject(c)
  \/ Lose

Spec == Init /\ [][Next]_phase
=============================================================================
