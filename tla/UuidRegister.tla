---------------------------- MODULE UuidRegister ----------------------------
(***************************************************************************)
(* What the callers of libyunosfwnative may rely on when its backend can   *)
(* be set again: a register that is written in steps.  What a get answers  *)
(* changes only while a set is under way, when the memory behind it is lost*)
(* and, after a power cut, to what had been saved; and TRUE stands for its *)
(* UUID until one of these comes.                                          *)
(***************************************************************************)
CONSTANTS Values,
          None       \* for NULL, and for a caller that was not told TRUE

VARIABLES busy,      \* a set is under way
          answer,    \* what a get may return now
          saved,     \* what it may return after a power cut
          acked      \* the UUID of which the last set returned TRUE

registerVars == <<busy, answer, saved, acked>>

(* "other" are bytes that nobody set as a UUID.                            *)
Answers == SUBSET (Values \cup {None, "other"})

Init ==
  /\ busy = FALSE
  /\ answer \in Answers
  /\ saved = answer
  /\ acked = None

Begin ==
  /\ ~busy
  /\ busy' = TRUE
  /\ acked' = None
  /\ UNCHANGED <<answer, saved>>

(* The set goes on.  What is saved has been visible to a get.              *)
Work ==
  /\ busy
  /\ answer' \in Answers
  /\ saved' \in {saved, answer'}
  /\ UNCHANGED <<busy, acked>>

(* The set returns TRUE only if a get answers its UUID, or NULL from a     *)
(* memory that was burnt before.                                           *)
End ==
  /\ busy
  /\ busy' = FALSE
  /\ answer' \in Answers
  /\ saved' \in {saved, answer'}
  /\ acked' \in Values \cup {None}
  /\ acked' # None => answer' \subseteq {acked', None}

(* The kernel saves what a get sees, with or without a set under way.      *)
Writeback ==
  /\ saved' = answer
  /\ UNCHANGED <<busy, answer, acked>>

(* What stands between the memory and its readers has started.             *)
Ready ==
  /\ answer' \cup {None} = answer
  /\ saved' \cup {None} = saved
  /\ UNCHANGED <<busy, acked>>

(* The caller is killed; a register in its own memory is lost with it.     *)
Killed ==
  /\ busy' = FALSE
  /\ \/ UNCHANGED <<answer, acked>>
     \/ answer' = {None} /\ acked' = None
  /\ UNCHANGED saved

PowerCut ==
  /\ busy' = FALSE
  /\ saved' \in {saved, saved \cup {None}}
  /\ answer' = saved'
  /\ acked' = None

Next == Begin \/ Work \/ End \/ Writeback \/ Ready \/ Killed \/ PowerCut

Spec == Init /\ [][Next]_registerVars
=============================================================================
