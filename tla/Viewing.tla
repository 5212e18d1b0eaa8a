------------------------------ MODULE Viewing ------------------------------
(***************************************************************************)
(* What a viewer may rely on of VideoSurface: no player with its nine      *)
(* states, no callbacks, no queue.  Each activity opens once and is closed *)
(* for good, plays its video once at most, not before it was seen, and is  *)
(* closed by the viewer who has it in front of him, or because its video   *)
(* is over.  If it is ever seen a second time, or when its video is over,  *)
(* the app ends.                                                           *)
(***************************************************************************)
CONSTANT Instances

VARIABLES
  act,      \* each activity: not started, in front, hidden or finished
  surface,  \* it can be seen
  shown,    \* those that could be seen once
  play,     \* what each of them does with its video
  up        \* the app has not ended

viewVars == <<act, surface, shown, play, up>>

Init ==
  /\ act = [v \in Instances |-> "none"]
  /\ surface = [v \in Instances |-> FALSE]
  /\ shown = {}
  /\ play = [v \in Instances |-> "waiting"]
  /\ up = TRUE

InFront(v) == [w \in Instances |->
                 IF w = v THEN "front"
                 ELSE IF act[w] = "front" THEN "hidden" ELSE act[w]]

Come(v) ==
  /\ up
  /\ act[v] \in {"none", "hidden"}
  /\ act' = InFront(v)
  /\ UNCHANGED <<surface, shown, play, up>>

Leave(v) ==
  /\ up
  /\ act[v] = "front"
  /\ \E s \in {"hidden", "finished"} : act' = [act EXCEPT ![v] = s]
  /\ UNCHANGED <<surface, shown, play, up>>

See(v) ==
  /\ up
  /\ act[v] = "front" /\ ~surface[v]
  /\ surface' = [surface EXCEPT ![v] = TRUE]
  /\ shown' = shown \cup {v}
  /\ v \in shown \/ play[v] = "over" => ~up'
  /\ up' \in BOOLEAN
  /\ UNCHANGED <<act, play>>

Vanish(v) ==
  /\ up
  /\ surface[v]
  /\ surface' = [surface EXCEPT ![v] = FALSE]
  /\ UNCHANGED <<act, shown, play, up>>

Play(v) ==
  /\ up
  /\ v \in shown /\ play[v] = "waiting"
  /\ play' = [play EXCEPT ![v] = "playing"]
  /\ UNCHANGED <<act, surface, shown, up>>

(* A video that plays out or is forgotten with its activity, or fails,     *)
(* even before it was seen.                                                *)
Stop(v) ==
  /\ up
  /\ act[v] # "none"
  /\ play[v] # "over"
  /\ play' = [play EXCEPT ![v] = "over"]
  /\ UNCHANGED <<act, surface, shown, up>>

Close(v) ==
  /\ up
  /\ play[v] = "over"
  /\ act' = [act EXCEPT ![v] = "finished"]
  /\ UNCHANGED <<surface, shown, play, up>>

Next ==
  \E v \in Instances :
    Come(v) \/ Leave(v) \/ See(v) \/ Vanish(v) \/ Play(v) \/ Stop(v) \/ Close(v)

Spec == Init /\ [][Next]_viewVars
=============================================================================
