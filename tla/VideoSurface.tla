---------------------------- MODULE VideoSurface ----------------------------
(***************************************************************************)
(* VideoSurface: each click on button_media_info starts one more instance  *)
(* of this activity, which makes a MediaPlayer of its own and drives it by *)
(* callbacks of its surface and of the player.  They all run in the main   *)
(* thread; the player works elsewhere (external), changes its state there, *)
(* and posts what happened to the queue of the main thread.  Nothing ever  *)
(* stops or releases a player but the garbage collector.                   *)
(***************************************************************************)
EXTENDS Naturals, Sequences

CONSTANTS Instances,  \* instances of the activity
          MAXINFOS    \* bound: no "info" is posted when as much is queued

VARIABLES
  act,       \* each activity: not started, in front, hidden or finished
  surface,   \* its surface exists
  player,    \* the state of its player
  posted,    \* what the players posted to the main thread
  crashed,   \* an exception that nobody caught ended the app
  comings,   \* history: how often its surface was created
  nosource,  \* history: setDataSource() threw
  starts     \* history: how often start() made its player play

actVars == <<act, surface>>
history == <<comings, nosource, starts>>
vars == <<actVars, player, posted, crashed, history>>

PlayerStates == {"none", "idle", "initialized", "preparing", "prepared",
                 "started", "complete", "error", "released"}

TypeOK ==
  /\ act \in [Instances -> {"none", "front", "hidden", "finished"}]
  /\ surface \in [Instances -> BOOLEAN]
  /\ player \in [Instances -> PlayerStates]
  /\ posted \in Seq([to : Instances, what : {"prepared", "complete", "error", "info"}])
  /\ crashed \in BOOLEAN
  /\ \A v \in Instances : surface[v] => act[v] # "none" /\ player[v] # "none"

Init ==
  /\ act = [v \in Instances |-> "none"]
  /\ surface = [v \in Instances |-> FALSE]
  /\ player = [v \in Instances |-> "none"]
  /\ posted = << >>
  /\ crashed = FALSE
  /\ comings = [v \in Instances |-> 0]
  /\ nosource = [v \in Instances |-> FALSE]
  /\ starts = [v \in Instances |-> 0]

-----------------------------------------------------------------------------
(* The activity and its surface.                                           *)
InFront(v) == [w \in Instances |->
                 IF w = v THEN "front"
                 ELSE IF act[w] = "front" THEN "hidden" ELSE act[w]]

(* A mutant: an activity is created without a data source.                 *)
onCreateNoSource(v) ==
  /\ ~crashed
  /\ act[v] = "none"
  /\ act' = InFront(v)
  /\ player' = [player EXCEPT ![v] = "idle"]
  /\ UNCHANGED <<surface, posted, crashed, history>>

(* A mutant: the player is made later.                                     *)
onCreateNoPlayer(v) ==
  /\ ~crashed
  /\ act[v] = "none"
  /\ act' = InFront(v)
  /\ UNCHANGED <<surface, player, posted, crashed, history>>

(* onCreate(): an exception of setDataSource() is caught, and the player   *)
(* stays idle.                                                             *)
onCreate(v) ==
  /\ ~crashed
  /\ act[v] = "none"
  /\ act' = InFront(v)
  /\ \E ok \in BOOLEAN :
       /\ player' = [player EXCEPT ![v] = IF ok THEN "initialized" ELSE "idle"]
       /\ nosource' = [nosource EXCEPT ![v] = ~ok]
  /\ UNCHANGED <<surface, posted, crashed, comings, starts>>

(* prepareAsync() throws an IllegalStateException unless the player has    *)
(* just got its source, and nobody catches it.                             *)
surfaceCreated(v) ==
  /\ ~crashed
  /\ act[v] = "front"
  /\ ~surface[v]
  /\ surface' = [surface EXCEPT ![v] = TRUE]
  /\ comings' = [comings EXCEPT ![v] = @ + 1]
  /\ IF player[v] = "initialized"
     THEN player' = [player EXCEPT ![v] = "preparing"] /\ UNCHANGED crashed
     ELSE crashed' = TRUE /\ UNCHANGED player
  /\ UNCHANGED <<act, posted, nosource, starts>>

(* The player is not told.                                                 *)
surfaceDestroyed(v) ==
  /\ ~crashed
  /\ surface[v]
  /\ surface' = [surface EXCEPT ![v] = FALSE]
  /\ UNCHANGED <<act, player, posted, crashed, history>>

(* The user goes elsewhere, comes back, or leaves the activity for good.   *)
Leave(v) ==
  /\ ~crashed
  /\ act[v] = "front"
  /\ \E s \in {"hidden", "finished"} : act' = [act EXCEPT ![v] = s]
  /\ UNCHANGED <<surface, player, posted, crashed, history>>

ComeBack(v) ==
  /\ ~crashed
  /\ act[v] = "hidden"
  /\ act' = InFront(v)
  /\ UNCHANGED <<surface, player, posted, crashed, history>>

-----------------------------------------------------------------------------
(* The player (external).                                                  *)
Post(v, what) == posted' = Append(posted, [to |-> v, what |-> what])

Moves(v, from, to) ==
  /\ ~crashed
  /\ player[v] \in from
  /\ player' = [player EXCEPT ![v] = to]
  /\ UNCHANGED <<actVars, crashed, history>>

Prepared(v) == Moves(v, {"preparing"}, "prepared") /\ Post(v, "prepared")
PlaysOut(v) == Moves(v, {"started"}, "complete") /\ Post(v, "complete")

(* An error of its own, or the death of the media server, which no player  *)
(* survives, whether or not it was prepared.                               *)
Fails(v) ==
  /\ Moves(v, PlayerStates \ {"none", "error", "released"}, "error")
  /\ Post(v, "error")

Informs(v) ==
  /\ ~crashed
  /\ player[v] \in {"preparing", "prepared", "started"}
  /\ Len(posted) < MAXINFOS
  /\ Post(v, "info")
  /\ UNCHANGED <<actVars, player, crashed, history>>

(* The garbage collector, once nothing leads to the player any more.       *)
Collected(v) ==
  /\ act[v] = "finished" /\ ~surface[v]
  /\ \A i \in 1 .. Len(posted) : posted[i].to # v
  /\ player[v] # "released"
  /\ Moves(v, PlayerStates, "released")
  /\ UNCHANGED posted

Player(v) ==
  \/ Prepared(v) \/ PlaysOut(v) \/ Fails(v) \/ Informs(v) \/ Collected(v)

-----------------------------------------------------------------------------
(* The main thread takes up what the players posted, one after the other.  *)
IsNext(v, what) ==
  /\ ~crashed
  /\ posted # << >>
  /\ Head(posted) = [to |-> v, what |-> what]

(* onPrepared(): start() plays a player that is prepared, whether or not   *)
(* there still is a surface or an activity; of another one it makes an     *)
(* error, which is posted.                                                 *)
onPrepared(v) ==
  /\ IsNext(v, "prepared")
  /\ IF player[v] = "prepared"
     THEN /\ player' = [player EXCEPT ![v] = "started"]
          /\ starts' = [starts EXCEPT ![v] = @ + 1]
          /\ posted' = Tail(posted)
     ELSE /\ player' = [player EXCEPT ![v] = "error"]
          /\ posted' = Append(Tail(posted), [to |-> v, what |-> "error"])
          /\ UNCHANGED starts
  /\ UNCHANGED <<actVars, crashed, comings, nosource>>

(* A mutant: any news of the player is taken for its end.                  *)
onInfoFinishes(v) ==
  /\ IsNext(v, "info")
  /\ posted' = Tail(posted)
  /\ act' = [act EXCEPT ![v] = "finished"]
  /\ UNCHANGED <<surface, player, crashed, history>>

(* onInfo(): the player is asked for more, and what it throws is caught.   *)
onInfo(v) ==
  /\ IsNext(v, "info")
  /\ posted' = Tail(posted)
  /\ UNCHANGED <<actVars, player, crashed, history>>

(* A mutant: the video is played in a loop.                                *)
onCompletionLoops(v) ==
  /\ IsNext(v, "complete")
  /\ posted' = Tail(posted)
  /\ player' = [player EXCEPT ![v] = "started"]
  /\ starts' = [starts EXCEPT ![v] = @ + 1]
  /\ UNCHANGED <<actVars, crashed, comings, nosource>>

(* A mutant: the activity is finished only while it can be seen.           *)
onCompletionIfSeen(v) ==
  /\ IsNext(v, "complete")
  /\ posted' = Tail(posted)
  /\ act' = [act EXCEPT ![v] = IF surface[v] THEN "finished" ELSE @]
  /\ UNCHANGED <<surface, player, crashed, history>>

(* onCompletion(): finish().                                               *)
onCompletion(v) ==
  /\ IsNext(v, "complete")
  /\ posted' = Tail(posted)
  /\ act' = [act EXCEPT ![v] = "finished"]
  /\ UNCHANGED <<surface, player, crashed, history>>

(* A mutant: the error is reported as handled.                             *)
onErrorHandled(v) ==
  /\ IsNext(v, "error")
  /\ posted' = Tail(posted)
  /\ UNCHANGED <<actVars, player, crashed, history>>

(* onError() returns false, so that onCompletion() is called next.         *)
onError(v) ==
  /\ IsNext(v, "error")
  /\ posted' = Tail(posted)
  /\ act' = [act EXCEPT ![v] = "finished"]
  /\ UNCHANGED <<surface, player, crashed, history>>

MainThread ==
  \E v \in Instances : onPrepared(v) \/ onInfo(v) \/ onCompletion(v) \/ onError(v)

Next ==
  \/ MainThread
  \/ \E v \in Instances :
       \/ onCreate(v)
       \/ surfaceCreated(v) \/ surfaceDestroyed(v)
       \/ Leave(v) \/ ComeBack(v)
       \/ Player(v)

Spec == Init /\ [][Next]_vars

(* The main thread takes up its messages; nothing is assumed of users and  *)
(* players.                                                                *)
FairSpec == Spec /\ WF_vars(MainThread)

-----------------------------------------------------------------------------
(* surfaceCreated() ends the app only if the surface of an activity came   *)
(* back, or setDataSource() had thrown, or the media server died and the   *)
(* message that would have finished the activity is still in the queue.    *)
CrashOnlyUnready ==
  crashed =>
    \E v \in Instances :
      /\ surface[v]
      /\ \/ comings[v] > 1
         \/ nosource[v]
         \/ /\ player[v] = "error"
            /\ \E i \in 1 .. Len(posted) : posted[i] = [to |-> v, what |-> "error"]

(* However callbacks, errors and returns interleave, a player is started   *)
(* at most once, and never before its activity had a surface.              *)
PlaysOnce ==
  \A v \in Instances :
    /\ starts[v] <= 1
    /\ player[v] \in {"started", "complete"} => starts[v] = 1 /\ comings[v] >= 1

(* No end of a player gets lost: whichever callbacks came in between, an   *)
(* activity whose player failed or played out is finished, or the message  *)
(* that will finish it is still in the queue.                              *)
EndIsQueued ==
  \A v \in Instances :
    player[v] \in {"error", "complete"} =>
      \/ act[v] = "finished"
      \/ \E i \in 1 .. Len(posted) :
           posted[i].to = v /\ posted[i].what \in {"error", "complete"}

(* A viewer is shown what Viewing promises.                                *)
Play(v) ==
  CASE player[v] = "started" -> "playing"
    [] player[v] \in {"complete", "error", "released"} -> "over"
    [] OTHER -> "waiting"

Plays == [v \in Instances |-> Play(v)]
Shown == {v \in Instances : comings[v] >= 1}

View == INSTANCE Viewing WITH shown <- Shown, play <- Plays, up <- ~crashed

ViewSpec == View!Spec

(* A player that failed or played out takes its activity with it, which    *)
(* is finished once for all, unless the app crashes.                       *)
EndsWithPlayer ==
  \A v \in Instances :
    player[v] \in {"error", "complete"} ~> act[v] = "finished" \/ crashed
=============================================================================
