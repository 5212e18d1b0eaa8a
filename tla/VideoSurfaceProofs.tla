------------------------- MODULE VideoSurfaceProofs -------------------------
(***************************************************************************)
(* VideoSurface for any number of activities and any number of messages of *)
(* the players: when the app can crash, how often a player is started, and *)
(* that no end of a player gets lost.                                      *)
(***************************************************************************)
EXTENDS VideoSurface, SequenceTheorems, TLAPS

Messages == [to : Instances, what : {"prepared", "complete", "error", "info"}]

Types ==
  /\ act \in [Instances -> {"none", "front", "hidden", "finished"}]
  /\ surface \in [Instances -> BOOLEAN]
  /\ player \in [Instances -> PlayerStates]
  /\ posted \in Seq(Messages)
  /\ crashed \in BOOLEAN
  /\ comings \in [Instances -> Nat]
  /\ nosource \in [Instances -> BOOLEAN]
  /\ starts \in [Instances -> Nat]

-----------------------------------------------------------------------------
(* An activity that was not created has done nothing, the state of its     *)
(* player tells where the player of one that was comes from, and only      *)
(* players that were prepared once have posted anything.                   *)
BeforePrepare == {"none", "idle", "initialized"}
BeforeStart == BeforePrepare \cup {"preparing", "prepared"}

Course(v) ==
  /\ act[v] = "none" =>
       player[v] = "none" /\ ~surface[v] /\ comings[v] = 0 /\ ~nosource[v]
  /\ player[v] = "none" => act[v] = "none"
  /\ player[v] = "idle" => nosource[v]
  /\ player[v] = "released" => act[v] = "finished"
  /\ player[v] \notin BeforePrepare \cup {"error", "released"} => comings[v] >= 1
  /\ player[v] \in BeforeStart => starts[v] = 0
  /\ player[v] \in {"started", "complete"} => starts[v] = 1
  /\ starts[v] <= 1

(* Only an error comes from a player that was not prepared.                *)
Posting(m) == act[m.to] # "none" /\ (m.what # "error" => comings[m.to] >= 1)

PostedInv == \A i \in 1 .. Len(posted) : Posting(posted[i])

VideoInv ==
  /\ Types
  /\ \A v \in Instances : Course(v)
  /\ PostedInv

(* What append and tail do to the queue of the main thread.                *)
LEMMA PostedAppend ==
  ASSUME NEW q \in Seq(Messages), NEW m \in Messages
  PROVE  /\ Append(q, m) \in Seq(Messages)
         /\ Len(Append(q, m)) = Len(q) + 1 /\ Len(q) \in Nat
         /\ \A i \in 1 .. Len(q) : Append(q, m)[i] = q[i]
         /\ Append(q, m)[Len(q) + 1] = m
OBVIOUS

LEMMA PostedTail ==
  ASSUME NEW q \in Seq(Messages), q # << >>
  PROVE  /\ Tail(q) \in Seq(Messages)
         /\ Len(Tail(q)) = Len(q) - 1 /\ Len(q) \in Nat \ {0}
         /\ \A i \in 1 .. Len(Tail(q)) : Tail(q)[i] = q[i + 1]
         /\ Head(q) = q[1] /\ q[1] \in Messages
OBVIOUS

(* Nothing is created, posted or crashed at first.                         *)
LEMMA VideoInit == Init => VideoInv
<1> SUFFICES ASSUME Init PROVE VideoInv
  OBVIOUS
<1>1. Types
  <2>1. /\ act \in [Instances -> {"none", "front", "hidden", "finished"}]
        /\ player \in [Instances -> PlayerStates]
    BY DEF Init, PlayerStates
  <2>2. surface \in [Instances -> BOOLEAN] /\ nosource \in [Instances -> BOOLEAN]
    BY DEF Init
  <2>3. comings \in [Instances -> Nat] /\ starts \in [Instances -> Nat]
    BY DEF Init
  <2>4. posted \in Seq(Messages) /\ crashed \in BOOLEAN
    BY EmptySeq DEF Init
  <2>5. QED
    BY <2>1, <2>2, <2>3, <2>4 DEF Types
<1>2. ASSUME NEW v \in Instances PROVE Course(v)
  <2>1. /\ act[v] = "none" /\ player[v] = "none" /\ comings[v] = 0 /\ starts[v] = 0
        /\ ~surface[v] /\ ~nosource[v]
    BY DEF Init
  <2>2. QED
    BY <2>1 DEF Course, BeforePrepare, BeforeStart
<1>3. PostedInv
  BY DEF Init, PostedInv
<1>4. QED
  BY <1>1, <1>2, <1>3 DEF VideoInv

(* No message loses its sender, and no sender its surface of once.         *)
LEMMA PostingKept ==
  ASSUME Types,
         \A w \in Instances : act'[w] = "none" => act[w] = "none",
         \A w \in Instances : comings'[w] >= comings[w] /\ comings'[w] \in Nat,
         NEW m \in Messages, Posting(m)
  PROVE  Posting(m)'
<1>1. m.to \in Instances /\ comings[m.to] \in Nat
  BY DEF Types, Messages
<1>2. QED
  BY <1>1 DEF Posting

LEMMA QueueSame ==
  ASSUME VideoInv, UNCHANGED posted,
         \A w \in Instances : act'[w] = "none" => act[w] = "none",
         \A w \in Instances : comings'[w] >= comings[w] /\ comings'[w] \in Nat
  PROVE  posted' \in Seq(Messages) /\ PostedInv'
<1>1. Types /\ posted \in Seq(Messages) /\ PostedInv
  BY DEF VideoInv, Types
<1>2. ASSUME NEW i \in 1 .. Len(posted) PROVE Posting(posted[i])'
  <2>1. posted[i] \in Messages /\ Posting(posted[i])
    BY <1>1, ElementOfSeq DEF PostedInv
  <2>2. Posting(posted[i])'
    BY <1>1, <2>1, PostingKept
  <2>3. QED
    BY <2>2
<1>3. QED
  BY <1>1, <1>2 DEF PostedInv

(* A message joins the queue.                                              *)
LEMMA QueueLonger ==
  ASSUME VideoInv, UNCHANGED <<act, comings>>, NEW v \in Instances, act[v] # "none",
         NEW what \in {"prepared", "complete", "error", "info"}, Post(v, what),
         what # "error" => comings[v] >= 1
  PROVE  posted' \in Seq(Messages) /\ PostedInv'
<1> DEFINE m == [to |-> v, what |-> what]
<1>1. m \in Messages /\ Posting(m)
  BY DEF Messages, Posting
<1>2. posted \in Seq(Messages) /\ PostedInv
  BY DEF VideoInv, Types
<1>3. posted' = Append(posted, m)
  BY DEF Post
<1> HIDE DEF m
<1>4. QED
  BY <1>1, <1>2, <1>3, PostedAppend DEF PostedInv, Posting

(* The main thread takes a message off the queue.                          *)
LEMMA QueueShorter ==
  ASSUME VideoInv, NEW v \in Instances, NEW what, IsNext(v, what)
  PROVE  /\ act[v] # "none"
         /\ what # "error" => comings[v] >= 1
         /\ Tail(posted) \in Seq(Messages)
         /\ \A i \in 1 .. Len(Tail(posted)) : Posting(Tail(posted)[i])
<1>1. posted \in Seq(Messages) /\ PostedInv
  BY DEF VideoInv, Types
<1>2. posted # << >> /\ Head(posted).to = v /\ Head(posted).what = what
  BY DEF IsNext
<1>3. Posting(posted[1])
  BY <1>1, <1>2, PostedTail DEF PostedInv
<1>4. QED
  BY <1>1, <1>2, <1>3, PostedTail DEF PostedInv, Posting

(* An activity whose player and history stay the same keeps its course.    *)
LEMMA CourseKept ==
  ASSUME NEW w \in Instances, Course(w),
         player'[w] = player[w], starts'[w] = starts[w],
         comings'[w] = comings[w], nosource'[w] = nosource[w],
         act'[w] = "none" <=> act[w] = "none",
         act[w] = "finished" => act'[w] = "finished",
         surface'[w] => surface[w]
  PROVE  Course(w)'
BY DEF Course

(* What InFront(v) does to the other activities.                           *)
LEMMA OthersHide ==
  ASSUME VideoInv, NEW v \in Instances, act[v] # "finished", act' = InFront(v)
  PROVE  /\ act' \in [Instances -> {"none", "front", "hidden", "finished"}]
         /\ act'[v] = "front"
         /\ \A w \in Instances :
              /\ w # v => (act'[w] = "none" <=> act[w] = "none")
              /\ act[w] = "finished" => act'[w] = "finished"
<1>1. act \in [Instances -> {"none", "front", "hidden", "finished"}]
  BY DEF VideoInv, Types
<1>2. QED
  BY <1>1 DEF InFront

(* The activity is created, with a data source or without.                 *)
LEMMA CreateKeeps ==
  ASSUME VideoInv, NEW v \in Instances, onCreate(v) PROVE VideoInv'
<1>1. Types /\ Course(v) /\ act[v] = "none"
  BY DEF VideoInv, onCreate
<1>2. PICK ok \in BOOLEAN :
        /\ player' = [player EXCEPT ![v] = IF ok THEN "initialized" ELSE "idle"]
        /\ nosource' = [nosource EXCEPT ![v] = ~ok]
  BY DEF onCreate
<1>3. /\ act' \in [Instances -> {"none", "front", "hidden", "finished"}]
      /\ act'[v] = "front"
      /\ \A w \in Instances :
           /\ w # v => (act'[w] = "none" <=> act[w] = "none")
           /\ act[w] = "finished" => act'[w] = "finished"
  BY <1>1, OthersHide DEF onCreate
<1>4. /\ player' \in [Instances -> PlayerStates]
      /\ player'[v] \in {"initialized", "idle"}
      /\ \A w \in Instances : w # v => player'[w] = player[w]
  BY <1>1, <1>2 DEF Types, PlayerStates
<1>5. nosource' \in [Instances -> BOOLEAN]
  BY <1>1, <1>2 DEF Types
<1>6. \A w \in Instances : w # v => nosource'[w] = nosource[w]
  BY <1>1, <1>2 DEF Types
<1>7. player'[v] = "idle" => nosource'[v]
  <2>1. CASE ok
    BY <1>1, <1>2, <2>1 DEF Types
  <2>2. CASE ~ok
    BY <1>1, <1>2, <2>2 DEF Types
  <2>3. QED
    BY <2>1, <2>2
<1>8. UNCHANGED <<surface, posted, crashed, comings, starts>>
  BY DEF onCreate
<1>9. Types'
  BY <1>1, <1>3, <1>4, <1>5, <1>8 DEF Types
<1>10. ASSUME NEW w \in Instances PROVE Course(w)'
  <2>1. CASE w = v
    <3>1. starts[v] = 0
      BY <1>1 DEF Course, BeforeStart, BeforePrepare
    <3>2. QED
      BY <1>3, <1>4, <1>7, <1>8, <2>1, <3>1 DEF Course, BeforeStart, BeforePrepare
  <2>2. CASE w # v
    BY <1>3, <1>4, <1>6, <1>8, <2>2, CourseKept DEF VideoInv
  <2>3. QED
    BY <2>1, <2>2
<1>11. PostedInv'
  <2>1. \A w \in Instances : comings'[w] >= comings[w] /\ comings'[w] \in Nat
    BY <1>1, <1>8 DEF Types
  <2>2. \A w \in Instances : act'[w] = "none" => act[w] = "none"
    BY <1>1, <1>3
  <2>3. QED
    BY <1>8, <2>1, <2>2, QueueSame
<1>12. QED
  BY <1>9, <1>10, <1>11 DEF VideoInv

(* The surface comes, for the first time or again.                         *)
LEMMA SurfaceKeeps ==
  ASSUME VideoInv, NEW v \in Instances, surfaceCreated(v) PROVE VideoInv'
<1>1. Types /\ Course(v) /\ act[v] = "front" /\ ~crashed /\ PostedInv
  BY DEF VideoInv, surfaceCreated
<1>2. /\ surface' = [surface EXCEPT ![v] = TRUE]
      /\ comings' = [comings EXCEPT ![v] = @ + 1]
      /\ UNCHANGED <<act, posted, nosource, starts>>
  BY DEF surfaceCreated
<1>3. /\ comings' \in [Instances -> Nat]
      /\ comings'[v] = comings[v] + 1 /\ comings[v] \in Nat
      /\ \A w \in Instances : w # v => comings'[w] = comings[w]
  BY <1>1, <1>2 DEF Types
<1>4. /\ surface' \in [Instances -> BOOLEAN]
      /\ \A w \in Instances : w # v => surface'[w] = surface[w]
  BY <1>1, <1>2 DEF Types
<1>5. PostedInv'
  BY <1>2, <1>3, QueueSame DEF VideoInv, Types
<1>6. CASE player[v] = "initialized"
  <2>1. /\ player' = [player EXCEPT ![v] = "preparing"]
        /\ crashed' = crashed
    BY <1>6 DEF surfaceCreated
  <2>2. /\ player' \in [Instances -> PlayerStates] /\ player'[v] = "preparing"
        /\ \A w \in Instances : w # v => player'[w] = player[w]
    BY <1>1, <2>1 DEF Types, PlayerStates
  <2>3. Types'
    BY <1>1, <1>2, <1>3, <1>4, <2>1, <2>2 DEF Types
  <2>4. ASSUME NEW w \in Instances PROVE Course(w)'
    <3>1. CASE w = v
      BY <1>1, <1>2, <1>3, <1>6, <2>2, <3>1 DEF Course, BeforeStart, BeforePrepare
    <3>2. CASE w # v
      BY <1>2, <1>3, <1>4, <2>2, <3>2, CourseKept DEF VideoInv
    <3>3. QED
      BY <3>1, <3>2
  <2>5. QED
    BY <1>5, <2>3, <2>4 DEF VideoInv
<1>7. CASE player[v] # "initialized"
  <2>1. crashed' = TRUE /\ player' = player
    BY <1>7 DEF surfaceCreated
  <2>2. Types'
    BY <1>1, <1>2, <1>3, <1>4, <2>1 DEF Types
  <2>3. ASSUME NEW w \in Instances PROVE Course(w)'
    <3>1. CASE w = v
      BY <1>1, <1>2, <1>3, <2>1, <3>1 DEF Course
    <3>2. CASE w # v
      BY <1>2, <1>3, <1>4, <2>1, <3>2, CourseKept DEF VideoInv
    <3>3. QED
      BY <3>1, <3>2
  <2>4. QED
    BY <1>5, <2>2, <2>3 DEF VideoInv
<1>8. QED
  BY <1>6, <1>7

(* The surface goes; the user leaves, or comes back.                       *)
LEMMA ActivityKeeps ==
  ASSUME VideoInv, NEW v \in Instances,
         surfaceDestroyed(v) \/ Leave(v) \/ ComeBack(v)
  PROVE  VideoInv'
<1>1. Types
  BY DEF VideoInv
<1>2. UNCHANGED <<player, posted, crashed, comings, nosource, starts>>
  BY DEF surfaceDestroyed, Leave, ComeBack, history
<1>3. /\ act' \in [Instances -> {"none", "front", "hidden", "finished"}]
      /\ \A w \in Instances :
           /\ act'[w] = "none" <=> act[w] = "none"
           /\ act[w] = "finished" => act'[w] = "finished"
  <2>1. CASE surfaceDestroyed(v)
    BY <1>1, <2>1 DEF surfaceDestroyed, Types
  <2>2. CASE Leave(v)
    BY <1>1, <2>2 DEF Leave, Types
  <2>3. CASE ComeBack(v)
    BY <2>3, OthersHide DEF ComeBack
  <2>4. QED
    BY <2>1, <2>2, <2>3
<1>4. /\ surface' \in [Instances -> BOOLEAN]
      /\ \A w \in Instances : surface'[w] => surface[w]
  <2>1. CASE surfaceDestroyed(v)
    BY <1>1, <2>1 DEF surfaceDestroyed, Types
  <2>2. CASE Leave(v) \/ ComeBack(v)
    BY <1>1, <2>2 DEF Leave, ComeBack, Types
  <2>3. QED
    BY <2>1, <2>2
<1>5. Types'
  BY <1>1, <1>2, <1>3, <1>4 DEF Types
<1>6. \A w \in Instances : Course(w)'
  BY <1>2, <1>3, <1>4, CourseKept DEF VideoInv
<1>7. PostedInv'
  BY <1>1, <1>2, <1>3, QueueSame DEF Types
<1>8. QED
  BY <1>5, <1>6, <1>7 DEF VideoInv

(* A step that changes one player and posts or takes a message: types and  *)
(* courses, when the course of that player goes on.                        *)
LEMMA PlayerSteps ==
  ASSUME VideoInv, NEW v \in Instances, NEW t \in PlayerStates,
         UNCHANGED <<act, surface, crashed, comings, nosource>>,
         player' = [player EXCEPT ![v] = t],
         starts' \in [Instances -> Nat],
         \A w \in Instances : w # v => starts'[w] = starts[w],
         player'[v] = t => Course(v)',
         posted' \in Seq(Messages), PostedInv'
  PROVE  VideoInv'
<1>1. Types
  BY DEF VideoInv
<1>2. /\ player' \in [Instances -> PlayerStates] /\ player'[v] = t
      /\ \A w \in Instances : w # v => player'[w] = player[w]
  BY <1>1 DEF Types
<1>3. Types'
  BY <1>1, <1>2 DEF Types
<1>4. ASSUME NEW w \in Instances PROVE Course(w)'
  <2>1. CASE w = v
    BY <1>2, <2>1
  <2>2. CASE w # v
    BY <1>2, <2>2, CourseKept DEF VideoInv
  <2>3. QED
    BY <2>1, <2>2
<1>5. QED
  BY <1>3, <1>4 DEF VideoInv

(* What happens in the player.                                             *)
LEMMA PlayerKeeps ==
  ASSUME VideoInv, NEW v \in Instances, Player(v) PROVE VideoInv'
<1>1. Types /\ Course(v)
  BY DEF VideoInv
<1>2. UNCHANGED <<act, surface, crashed, comings, nosource, starts>>
  BY DEF Player, Prepared, PlaysOut, Fails, Informs, Collected, Moves, actVars, history
<1>3. starts' \in [Instances -> Nat] /\ \A w \in Instances : starts'[w] = starts[w]
  BY <1>1, <1>2 DEF Types
<1>4. CASE Prepared(v)
  <2>1. player[v] = "preparing" /\ player' = [player EXCEPT ![v] = "prepared"]
    BY <1>4 DEF Prepared, Moves
  <2>2. comings[v] >= 1 /\ starts[v] = 0 /\ act[v] # "none"
    BY <1>1, <2>1 DEF Course, BeforePrepare, BeforeStart
  <2>3. player'[v] = "prepared" => Course(v)'
    BY <1>1, <1>2, <2>1, <2>2 DEF Course, BeforePrepare, BeforeStart
  <2>4. posted' \in Seq(Messages) /\ PostedInv'
    BY <1>2, <1>4, <2>2, QueueLonger DEF Prepared
  <2>5. QED
    BY <1>2, <1>3, <2>1, <2>3, <2>4, PlayerSteps DEF PlayerStates
<1>5. CASE PlaysOut(v)
  <2>1. player[v] = "started" /\ player' = [player EXCEPT ![v] = "complete"]
    BY <1>5 DEF PlaysOut, Moves
  <2>2. comings[v] >= 1 /\ starts[v] = 1 /\ act[v] # "none"
    BY <1>1, <2>1 DEF Course, BeforePrepare
  <2>3. player'[v] = "complete" => Course(v)'
    BY <1>1, <1>2, <2>1, <2>2 DEF Course, BeforePrepare, BeforeStart
  <2>4. posted' \in Seq(Messages) /\ PostedInv'
    BY <1>2, <1>5, <2>2, QueueLonger DEF PlaysOut
  <2>5. QED
    BY <1>2, <1>3, <2>1, <2>3, <2>4, PlayerSteps DEF PlayerStates
<1>6. CASE Fails(v)
  <2>1. player[v] # "none" /\ player' = [player EXCEPT ![v] = "error"]
    BY <1>6 DEF Fails, Moves
  <2>2. act[v] # "none"
    BY <1>1, <2>1 DEF Course
  <2>3. player'[v] = "error" => Course(v)'
    BY <1>1, <1>2, <2>1, <2>2 DEF Course, BeforePrepare, BeforeStart
  <2>4. posted' \in Seq(Messages) /\ PostedInv'
    BY <1>2, <1>6, <2>2, QueueLonger DEF Fails
  <2>5. QED
    BY <1>2, <1>3, <2>1, <2>3, <2>4, PlayerSteps DEF PlayerStates
<1>7. CASE Informs(v)
  <2>1. player[v] \in {"preparing", "prepared", "started"} /\ UNCHANGED player
    BY <1>7 DEF Informs
  <2>2. comings[v] >= 1 /\ act[v] # "none"
    BY <1>1, <2>1 DEF Course, BeforePrepare
  <2>3. posted' \in Seq(Messages) /\ PostedInv'
    BY <1>2, <1>7, <2>2, QueueLonger DEF Informs
  <2>4. Types'
    BY <1>1, <1>2, <2>1, <2>3 DEF Types
  <2>5. \A w \in Instances : Course(w)'
    BY <1>2, <2>1, CourseKept DEF VideoInv
  <2>6. QED
    BY <2>3, <2>4, <2>5 DEF VideoInv
<1>8. CASE Collected(v)
  <2>1. /\ act[v] = "finished" /\ UNCHANGED posted
        /\ player' = [player EXCEPT ![v] = "released"]
    BY <1>8 DEF Collected, Moves
  <2>2. player'[v] = "released" => Course(v)'
    BY <1>1, <1>2, <2>1 DEF Course, BeforePrepare, BeforeStart
  <2>3. posted' \in Seq(Messages) /\ PostedInv'
    BY <1>1, <1>2, <2>1, QueueSame DEF Types
  <2>4. QED
    BY <1>2, <1>3, <2>1, <2>2, <2>3, PlayerSteps DEF PlayerStates
<1>9. QED
  BY <1>4, <1>5, <1>6, <1>7, <1>8 DEF Player

(* onPrepared() starts the player, or makes an error of one that is not    *)
(* prepared any more.                                                      *)
LEMMA PreparedKeeps ==
  ASSUME VideoInv, NEW v \in Instances, onPrepared(v) PROVE VideoInv'
<1>1. Types /\ Course(v)
  BY DEF VideoInv
<1>2. UNCHANGED <<act, surface, crashed, comings, nosource>> /\ IsNext(v, "prepared")
  BY DEF onPrepared, actVars
<1>3. CASE player[v] = "prepared"
  <2>1. /\ player' = [player EXCEPT ![v] = "started"]
        /\ starts' = [starts EXCEPT ![v] = @ + 1]
        /\ posted' = Tail(posted)
    BY <1>3 DEF onPrepared
  <2>2. comings[v] >= 1 /\ starts[v] = 0
    BY <1>1, <1>3 DEF Course, BeforePrepare, BeforeStart
  <2>3. /\ starts' \in [Instances -> Nat] /\ starts'[v] = 1
        /\ \A w \in Instances : w # v => starts'[w] = starts[w]
    BY <1>1, <2>1, <2>2 DEF Types
  <2>4. player'[v] = "started" => Course(v)'
    BY <1>1, <1>2, <1>3, <2>2, <2>3 DEF Course, BeforePrepare, BeforeStart
  <2>5. posted' \in Seq(Messages) /\ PostedInv'
    BY <1>2, <2>1, QueueShorter DEF PostedInv, Posting
  <2>6. QED
    BY <1>2, <2>1, <2>3, <2>4, <2>5, PlayerSteps DEF PlayerStates
<1>4. CASE player[v] # "prepared"
  <2> DEFINE m == [to |-> v, what |-> "error"]
  <2>1. /\ player' = [player EXCEPT ![v] = "error"]
        /\ UNCHANGED starts
        /\ posted' = Append(Tail(posted), m)
    BY <1>4 DEF onPrepared
  <2>2. /\ comings[v] >= 1 /\ act[v] # "none"
        /\ Tail(posted) \in Seq(Messages)
        /\ \A i \in 1 .. Len(Tail(posted)) : Posting(Tail(posted)[i])
    BY <1>2, QueueShorter
  <2>3. m \in Messages /\ Posting(m)
    BY <2>2 DEF Messages, Posting
  <2> HIDE DEF m
  <2>4. posted' \in Seq(Messages) /\ PostedInv'
    BY <1>2, <2>1, <2>2, <2>3, PostedAppend DEF PostedInv, Posting
  <2>5. player'[v] = "error" => Course(v)'
    BY <1>1, <1>2, <2>1, <2>2 DEF Course, BeforePrepare, BeforeStart
  <2>6. starts' \in [Instances -> Nat] /\ \A w \in Instances : starts'[w] = starts[w]
    BY <1>1, <2>1 DEF Types
  <2>7. QED
    BY <1>2, <2>1, <2>4, <2>5, <2>6, PlayerSteps DEF PlayerStates
<1>5. QED
  BY <1>3, <1>4

(* The other callbacks finish an activity at most.                         *)
LEMMA CallbackKeeps ==
  ASSUME VideoInv, NEW v \in Instances, onInfo(v) \/ onCompletion(v) \/ onError(v)
  PROVE  VideoInv'
<1>1. Types /\ Course(v)
  BY DEF VideoInv
<1>2. UNCHANGED <<surface, player, crashed, comings, nosource, starts>>
  BY DEF onInfo, onCompletion, onError, actVars, history
<1>3. PICK what : IsNext(v, what) /\ posted' = Tail(posted)
  BY DEF onInfo, onCompletion, onError
<1>4. act[v] # "none"
  BY <1>3, QueueShorter
<1>5. /\ act' \in [Instances -> {"none", "front", "hidden", "finished"}]
      /\ \A w \in Instances :
           /\ act'[w] = "none" <=> act[w] = "none"
           /\ act[w] = "finished" => act'[w] = "finished"
  BY <1>1, <1>4 DEF onInfo, onCompletion, onError, actVars, Types
<1>6. posted' \in Seq(Messages) /\ PostedInv'
  <2>1. /\ posted' \in Seq(Messages)
        /\ \A i \in 1 .. Len(posted') : posted'[i] \in Messages /\ Posting(posted'[i])
    BY <1>3, QueueShorter, ElementOfSeq
  <2>2. \A m \in Messages : Posting(m) => Posting(m)'
    BY <1>1, <1>2, <1>5, PostingKept DEF Types
  <2>3. QED
    BY <2>1, <2>2 DEF PostedInv, Posting
<1>7. Types'
  BY <1>1, <1>2, <1>5, <1>6 DEF Types
<1>8. \A w \in Instances : Course(w)'
  BY <1>2, <1>5, CourseKept DEF VideoInv
<1>9. QED
  BY <1>6, <1>7, <1>8 DEF VideoInv

(* A step that changes nothing.                                            *)
LEMMA VideoStutter == VideoInv /\ UNCHANGED vars => VideoInv'
<1> SUFFICES ASSUME VideoInv, UNCHANGED vars PROVE VideoInv'
  OBVIOUS
<1>1. UNCHANGED <<act, surface, player, posted, crashed, comings, nosource, starts>>
  BY DEF vars, actVars, history
<1>2. Types'
  BY <1>1 DEF VideoInv, Types
<1>3. \A w \in Instances : Course(w)'
  BY <1>1, CourseKept DEF VideoInv
<1>4. QED
  BY <1>1, <1>2, <1>3, QueueSame DEF VideoInv, Types

(* However the callbacks of any number of activities interleave, VideoInv  *)
(* holds.                                                                  *)
THEOREM VideoInStep == Spec => []VideoInv
<1>1. VideoInv /\ [Next]_vars => VideoInv'
  BY CreateKeeps, SurfaceKeeps, ActivityKeeps, PlayerKeeps, PreparedKeeps,
     CallbackKeeps, VideoStutter DEF Next, MainThread
<1>2. QED
  BY VideoInit, <1>1, PTL DEF Spec

(* A player is started at most once, and only if its activity ever had a   *)
(* surface.                                                                *)
THEOREM StartsOnce == Spec => []PlaysOnce
<1>1. VideoInv => PlaysOnce
  BY DEF VideoInv, Course, BeforePrepare, PlaysOnce
<1>2. QED
  BY VideoInStep, <1>1, PTL

(* The states of activities, surfaces and players are of their types, and  *)
(* only a created activity has a surface.                                  *)
THEOREM VideoTypes == Spec => []TypeOK
<1>1. VideoInv => TypeOK
  <2> SUFFICES ASSUME VideoInv PROVE TypeOK
    OBVIOUS
  <2>1. \A v \in Instances : surface[v] => act[v] # "none" /\ player[v] # "none"
    BY DEF VideoInv, Course
  <2>2. QED
    BY <2>1 DEF VideoInv, Types, TypeOK, Messages
<1>2. QED
  BY VideoInStep, <1>1, PTL

-----------------------------------------------------------------------------
(* The end of each player, told or still to be told.                       *)
Ended == {"error", "complete"}

Announced(v) ==
  \E i \in 1 .. Len(posted) : posted[i].to = v /\ posted[i].what \in Ended

End(v) == player[v] \in Ended => act[v] = "finished" \/ Announced(v)

EndInv == \A v \in Instances : End(v)

(* What is announced stays so while messages are only added.               *)
LEMMA AnnouncedLonger ==
  ASSUME posted \in Seq(Messages), NEW v \in Instances,
         NEW what \in {"prepared", "complete", "error", "info"}, Post(v, what)
  PROVE  /\ \A w \in Instances : Announced(w) => Announced(w)'
         /\ what \in Ended => Announced(v)'
<1> DEFINE m == [to |-> v, what |-> what]
<1>1. m \in Messages /\ m.to = v /\ m.what = what
  BY DEF Messages
<1>2. posted' = Append(posted, m)
  BY DEF Post
<1> HIDE DEF m
<1>3. /\ Len(posted') = Len(posted) + 1 /\ Len(posted) \in Nat
      /\ \A i \in 1 .. Len(posted) : posted'[i] = posted[i]
      /\ posted'[Len(posted) + 1] = m
  BY <1>1, <1>2, PostedAppend
<1>4. ASSUME NEW w \in Instances, Announced(w) PROVE Announced(w)'
  BY <1>3, <1>4 DEF Announced
<1>5. ASSUME what \in Ended PROVE Announced(v)'
  BY <1>1, <1>3, <1>5 DEF Announced
<1>6. QED
  BY <1>4, <1>5

(* A message that leaves the queue takes only its own announcement along.  *)
LEMMA AnnouncedShorter ==
  ASSUME posted \in Seq(Messages), NEW v \in Instances, NEW what,
         IsNext(v, what), posted' = Tail(posted),
         NEW w \in Instances, w # v \/ what \notin Ended, Announced(w)
  PROVE  Announced(w)'
<1>1. /\ Len(posted') = Len(posted) - 1 /\ Len(posted) \in Nat \ {0}
      /\ \A i \in 1 .. Len(posted') : posted'[i] = posted[i + 1]
      /\ posted[1] = Head(posted)
  BY PostedTail DEF IsNext
<1>2. posted[1].to = v /\ posted[1].what = what
  BY <1>1 DEF IsNext
<1>3. PICK i \in 1 .. Len(posted) : posted[i].to = w /\ posted[i].what \in Ended
  BY DEF Announced
<1>4. i # 1
  BY <1>2, <1>3
<1>5. i - 1 \in 1 .. Len(posted') /\ posted'[i - 1] = posted[i]
  BY <1>1, <1>3, <1>4
<1>6. QED
  BY <1>3, <1>5 DEF Announced

(* A player that goes no further into an end keeps its activity's.         *)
LEMMA EndKept ==
  ASSUME NEW w \in Instances, End(w),
         player'[w] = player[w] \/ player'[w] \notin Ended,
         act[w] = "finished" => act'[w] = "finished",
         Announced(w) => Announced(w)'
  PROVE  End(w)'
BY DEF End

(* The activities and their surfaces leave the queue alone, and none that  *)
(* is finished begins again.                                               *)
LEMMA EndOfActivity ==
  ASSUME VideoInv, EndInv, NEW v \in Instances,
         onCreate(v) \/ surfaceCreated(v) \/ surfaceDestroyed(v) \/ Leave(v) \/ ComeBack(v)
  PROVE  EndInv'
<1>1. Types
  BY DEF VideoInv
<1>2. ASSUME NEW w \in Instances
      PROVE  /\ player'[w] = player[w] \/ player'[w] \notin Ended
             /\ act[w] = "finished" => act'[w] = "finished"
  <2>1. CASE onCreate(v)
    BY <1>1, <2>1 DEF onCreate, InFront, Types, Ended
  <2>2. CASE surfaceCreated(v)
    BY <1>1, <2>2 DEF surfaceCreated, Types, Ended
  <2>3. CASE surfaceDestroyed(v)
    BY <2>3 DEF surfaceDestroyed
  <2>4. CASE Leave(v)
    BY <1>1, <2>4 DEF Leave, Types
  <2>5. CASE ComeBack(v)
    BY <1>1, <2>5 DEF ComeBack, InFront, Types
  <2>6. QED
    BY <2>1, <2>2, <2>3, <2>4, <2>5
<1>3. UNCHANGED posted
  BY DEF onCreate, surfaceCreated, surfaceDestroyed, Leave, ComeBack
<1>4. ASSUME NEW w \in Instances, Announced(w) PROVE Announced(w)'
  BY <1>3, <1>4 DEF Announced
<1>5. QED
  BY <1>2, <1>4, EndKept DEF EndInv

(* A player says so when it ends.                                          *)
LEMMA EndOfPlayer ==
  ASSUME VideoInv, EndInv, NEW v \in Instances, Player(v) PROVE EndInv'
<1>1. Types
  BY DEF VideoInv
<1>2. UNCHANGED act
  BY DEF Player, Prepared, PlaysOut, Fails, Informs, Collected, Moves, actVars
<1>3. CASE PlaysOut(v) \/ Fails(v)
  <2>1. PICK what \in Ended : Post(v, what)
    BY <1>3 DEF PlaysOut, Fails, Ended
  <2>2. Announced(v)' /\ \A w \in Instances : Announced(w) => Announced(w)'
    BY <1>1, <2>1, AnnouncedLonger DEF Types, Ended
  <2>3. \A w \in Instances : w # v => player'[w] = player[w]
    BY <1>1, <1>3 DEF PlaysOut, Fails, Moves, Types
  <2>4. ASSUME NEW w \in Instances PROVE End(w)'
    <3>1. CASE w = v
      BY <2>2, <3>1 DEF End
    <3>2. CASE w # v
      BY <1>2, <2>2, <2>3, <3>2, EndKept DEF EndInv
    <3>3. QED
      BY <3>1, <3>2
  <2>5. QED
    BY <2>4 DEF EndInv
<1>4. CASE Prepared(v) \/ Informs(v)
  <2>1. PICK what \in {"prepared", "info"} : Post(v, what)
    BY <1>4 DEF Prepared, Informs
  <2>2. \A w \in Instances : Announced(w) => Announced(w)'
    BY <1>1, <2>1, AnnouncedLonger DEF Types
  <2>3. \A w \in Instances : player'[w] = player[w] \/ player'[w] \notin Ended
    BY <1>1, <1>4 DEF Prepared, Informs, Moves, Types, Ended
  <2>4. QED
    BY <1>2, <2>2, <2>3, EndKept DEF EndInv
<1>5. CASE Collected(v)
  <2>1. UNCHANGED posted
    BY <1>5 DEF Collected
  <2>2. ASSUME NEW w \in Instances, Announced(w) PROVE Announced(w)'
    BY <2>1, <2>2 DEF Announced
  <2>3. \A w \in Instances : player'[w] = player[w] \/ player'[w] \notin Ended
    BY <1>1, <1>5 DEF Collected, Moves, Types, Ended
  <2>4. QED
    BY <1>2, <2>2, <2>3, EndKept DEF EndInv
<1>6. QED
  BY <1>3, <1>4, <1>5 DEF Player

(* The main thread: a "prepared" that comes too late makes a new error,    *)
(* which is announced in turn.                                             *)
LEMMA EndOfPrepared ==
  ASSUME VideoInv, EndInv, NEW v \in Instances, onPrepared(v) PROVE EndInv'
<1>1. Types /\ IsNext(v, "prepared") /\ UNCHANGED act
  BY DEF VideoInv, onPrepared, actVars
<1>2. CASE player[v] = "prepared"
  <2>1. posted' = Tail(posted) /\ player' = [player EXCEPT ![v] = "started"]
    BY <1>2 DEF onPrepared
  <2>2. ASSUME NEW w \in Instances, Announced(w) PROVE Announced(w)'
    <3>1. posted \in Seq(Messages) /\ "prepared" \notin Ended
      BY <1>1 DEF Types, Ended
    <3>2. QED
      BY <1>1, <2>1, <2>2, <3>1, AnnouncedShorter
  <2>3. \A w \in Instances : player'[w] = player[w] \/ player'[w] \notin Ended
    BY <1>1, <2>1 DEF Types, Ended
  <2>4. QED
    BY <1>1, <2>2, <2>3, EndKept DEF EndInv
<1>3. CASE player[v] # "prepared"
  <2> DEFINE m == [to |-> v, what |-> "error"]
  <2>1. posted' = Append(Tail(posted), m) /\ player' = [player EXCEPT ![v] = "error"]
    BY <1>3 DEF onPrepared
  <2>2. m \in Messages /\ m.to = v /\ m.what \in Ended
    BY DEF Messages, Ended
  <2> HIDE DEF m
  <2>3. /\ Tail(posted) \in Seq(Messages)
        /\ Len(Tail(posted)) = Len(posted) - 1 /\ Len(posted) \in Nat \ {0}
        /\ \A i \in 1 .. Len(Tail(posted)) : Tail(posted)[i] = posted[i + 1]
        /\ posted[1].what = "prepared"
    BY <1>1, PostedTail DEF Types, IsNext
  <2>4. /\ Len(posted') = Len(posted)
        /\ \A i \in 1 .. Len(posted) - 1 : posted'[i] = posted[i + 1]
        /\ posted'[Len(posted)] = m
    BY <2>1, <2>2, <2>3, PostedAppend
  <2>5. Announced(v)'
    BY <2>2, <2>3, <2>4 DEF Announced
  <2>6. ASSUME NEW w \in Instances, Announced(w) PROVE Announced(w)'
    <3>1. PICK i \in 1 .. Len(posted) : posted[i].to = w /\ posted[i].what \in Ended
      BY <2>6 DEF Announced
    <3>2. i # 1
      BY <2>3, <3>1 DEF Ended
    <3>3. i - 1 \in 1 .. Len(posted) - 1 /\ posted'[i - 1] = posted[i]
      BY <2>3, <2>4, <3>1, <3>2
    <3>4. i - 1 \in 1 .. Len(posted')
      BY <2>3, <2>4, <3>3
    <3>5. QED
      BY <3>1, <3>3, <3>4 DEF Announced
  <2>7. ASSUME NEW w \in Instances PROVE End(w)'
    <3>1. CASE w = v
      BY <2>5, <3>1 DEF End
    <3>2. CASE w # v
      BY <1>1, <2>1, <2>6, <3>2, EndKept DEF EndInv, Types
    <3>3. QED
      BY <3>1, <3>2
  <2>8. QED
    BY <2>7 DEF EndInv
<1>4. QED
  BY <1>2, <1>3

(* onInfo() takes no end off the queue; onCompletion() and onError() take  *)
(* one, and finish its activity.                                           *)
LEMMA EndOfCallback ==
  ASSUME VideoInv, EndInv, NEW v \in Instances, onInfo(v) \/ onCompletion(v) \/ onError(v)
  PROVE  EndInv'
<1>1. Types /\ UNCHANGED player
  BY DEF VideoInv, onInfo, onCompletion, onError
<1>2. \A w \in Instances : act[w] = "finished" => act'[w] = "finished"
  BY <1>1 DEF onInfo, onCompletion, onError, actVars, Types
<1>3. CASE onInfo(v)
  <2>1. ASSUME NEW w \in Instances, Announced(w) PROVE Announced(w)'
    <3>1. posted \in Seq(Messages) /\ "info" \notin Ended
      BY <1>1 DEF Types, Ended
    <3>2. IsNext(v, "info") /\ posted' = Tail(posted)
      BY <1>3 DEF onInfo
    <3>3. QED
      BY <2>1, <3>1, <3>2, AnnouncedShorter
  <2>2. QED
    BY <1>1, <1>2, <2>1, EndKept DEF EndInv
<1>4. CASE onCompletion(v) \/ onError(v)
  <2>1. PICK what \in Ended : IsNext(v, what) /\ posted' = Tail(posted)
    BY <1>4 DEF onCompletion, onError, Ended
  <2>2. act'[v] = "finished"
    BY <1>1, <1>4 DEF onCompletion, onError, Types
  <2>3. ASSUME NEW w \in Instances PROVE End(w)'
    <3>1. CASE w = v
      BY <2>2, <3>1 DEF End
    <3>2. CASE w # v
      <4>1. Announced(w) => Announced(w)'
        BY <1>1, <2>1, <3>2, AnnouncedShorter DEF Types
      <4>2. QED
        BY <1>1, <1>2, <4>1, EndKept DEF EndInv
    <3>3. QED
      BY <3>1, <3>2
  <2>4. QED
    BY <2>3 DEF EndInv
<1>5. QED
  BY <1>3, <1>4

(* The end of a player is never lost among the callbacks of any number of  *)
(* activities: its activity is finished, or will be by a message that is   *)
(* still queued.                                                           *)
THEOREM EndStaysQueued == Spec => []EndIsQueued
<1>1. Init => EndInv
  BY DEF Init, EndInv, End, Ended
<1>2. VideoInv /\ EndInv /\ UNCHANGED vars => EndInv'
  BY DEF vars, actVars, EndInv, End, Announced
<1>3. VideoInv /\ EndInv /\ [Next]_vars => EndInv'
  BY <1>2, EndOfActivity, EndOfPlayer, EndOfPrepared, EndOfCallback
     DEF Next, MainThread
<1>4. EndInv <=> EndIsQueued
  BY DEF EndInv, End, Announced, Ended, EndIsQueued
<1>5. QED
  BY VideoInStep, <1>1, <1>3, <1>4, PTL DEF Spec

(* prepareAsync() throws on the first coming of a surface only if there is *)
(* no source, or if an error is still to be told.                          *)
LEMMA CrashInNext ==
  VideoInv /\ EndIsQueued /\ CrashOnlyUnready /\ [Next]_vars => CrashOnlyUnready'
<1> SUFFICES ASSUME VideoInv, EndIsQueued, CrashOnlyUnready, [Next]_vars
             PROVE  CrashOnlyUnready'
  OBVIOUS
<1>1. CASE \E v \in Instances : surfaceCreated(v)
  <2>1. PICK v \in Instances : surfaceCreated(v)
    BY <1>1
  <2>2. Types /\ Course(v) /\ PostedInv /\ act[v] = "front" /\ ~crashed
    BY <2>1 DEF VideoInv, surfaceCreated
  <2>3. /\ surface'[v] /\ comings'[v] = comings[v] + 1 /\ comings[v] \in Nat
        /\ nosource'[v] = nosource[v] /\ posted' = posted
    BY <2>1, <2>2 DEF surfaceCreated, Types
  <2>4. CASE comings[v] >= 1 \/ nosource[v]
    BY <2>3, <2>4 DEF CrashOnlyUnready
  <2>5. CASE player[v] = "initialized"
    BY <2>1, <2>2, <2>5 DEF surfaceCreated, CrashOnlyUnready
  <2>6. CASE ~(comings[v] >= 1) /\ ~nosource[v] /\ player[v] # "initialized"
    <3>1. player[v] = "error" /\ player' = player
      BY <2>1, <2>2, <2>6 DEF surfaceCreated, Course, BeforePrepare, Types, PlayerStates
    <3>2. PICK i \in 1 .. Len(posted) :
            posted[i].to = v /\ posted[i].what \in {"error", "complete"}
      BY <2>2, <3>1 DEF EndIsQueued
    <3>3. posted[i] \in Messages /\ Posting(posted[i])
      BY <2>2, <3>2, ElementOfSeq DEF Types, PostedInv
    <3>4. posted[i] = [to |-> v, what |-> "error"]
      BY <2>6, <3>2, <3>3 DEF Messages, Posting
    <3>5. QED
      BY <2>3, <3>1, <3>4 DEF CrashOnlyUnready
  <2>7. QED
    BY <2>4, <2>5, <2>6
<1>2. CASE UNCHANGED vars
  BY <1>2 DEF vars, actVars, history, CrashOnlyUnready
<1>3. CASE ~crashed'
  BY <1>3 DEF CrashOnlyUnready
<1>4. \/ \E v \in Instances : surfaceCreated(v)
      \/ UNCHANGED vars
      \/ ~crashed'
  BY DEF Next, MainThread, onCreate, surfaceDestroyed, Leave, ComeBack, Player, Prepared,
         PlaysOut, Fails, Informs, Collected, Moves, onPrepared, onInfo, onCompletion,
         onError, IsNext
<1>5. QED
  BY <1>1, <1>2, <1>3, <1>4

(* The app ends in surfaceCreated() only when a surface came back, when    *)
(* setDataSource() had thrown, or between the death of the media server    *)
(* and the message of it.                                                  *)
THEOREM CrashesUnready == Spec => []CrashOnlyUnready
<1>1. Init => CrashOnlyUnready
  BY DEF Init, CrashOnlyUnready
<1>2. QED
  BY VideoInStep, EndStaysQueued, CrashInNext, <1>1, PTL DEF Spec

-----------------------------------------------------------------------------
(* No end is announced of a player that did not end, and a surface that    *)
(* came has used up the one call of prepareAsync() that does not throw.    *)
ToldInv == \A v \in Instances : Announced(v) => player[v] \in Ended

SeenInv ==
  ~crashed => \A v \in Instances : comings[v] >= 1 => player[v] \notin BeforePrepare

(* What was announced after a message left the queue was so before.        *)
LEMMA AnnouncedLess ==
  ASSUME posted \in Seq(Messages), posted # << >>, posted' = Tail(posted),
         NEW w \in Instances, Announced(w)'
  PROVE  Announced(w)
<1>1. /\ Len(posted') = Len(posted) - 1 /\ Len(posted) \in Nat \ {0}
      /\ \A i \in 1 .. Len(posted') : posted'[i] = posted[i + 1]
  BY PostedTail
<1>2. PICK i \in 1 .. Len(posted') : posted'[i].to = w /\ posted'[i].what \in Ended
  BY DEF Announced
<1>3. i + 1 \in 1 .. Len(posted) /\ posted'[i] = posted[i + 1]
  BY <1>1, <1>2
<1>4. QED
  BY <1>2, <1>3 DEF Announced

(* A player that has ended does not go on.                                 *)
LEMMA EndedStays ==
  ASSUME Types, NEW v \in Instances,
         onCreate(v) \/ surfaceCreated(v) \/ Player(v) \/ onPrepared(v),
         Course(v), NEW w \in Instances, player[w] \in Ended, Announced(w)
  PROVE  player'[w] \in Ended
<1>1. player \in [Instances -> PlayerStates]
  BY DEF Types
<1>2. CASE w # v
  <2>1. \E t : player' = [player EXCEPT ![v] = t]
    <3>1. CASE onCreate(v)
      BY <3>1 DEF onCreate
    <3>2. CASE surfaceCreated(v)
      BY <1>1, <3>2 DEF surfaceCreated
    <3>3. CASE Player(v)
      BY <1>1, <3>3 DEF Player, Prepared, PlaysOut, Fails, Informs, Collected, Moves
    <3>4. CASE onPrepared(v)
      BY <3>4 DEF onPrepared
    <3>5. QED
      BY <3>1, <3>2, <3>3, <3>4
  <2>2. QED
    BY <1>1, <1>2, <2>1
<1>3. CASE w = v
  <2>1. CASE onCreate(v)
    BY <1>3, <2>1 DEF onCreate, Course, Ended
  <2>2. CASE surfaceCreated(v)
    BY <1>1, <1>3, <2>2 DEF surfaceCreated, Ended
  <2>3. CASE Prepared(v) \/ PlaysOut(v) \/ Fails(v)
    BY <1>1, <1>3, <2>3 DEF Prepared, PlaysOut, Fails, Moves, Ended
  <2>4. CASE Informs(v)
    BY <2>4 DEF Informs
  <2>5. CASE Collected(v)
    BY <1>3, <2>5 DEF Collected, Announced
  <2>6. CASE onPrepared(v)
    BY <1>1, <1>3, <2>6 DEF onPrepared, Ended
  <2>7. QED
    BY <2>1, <2>2, <2>3, <2>4, <2>5, <2>6 DEF Player
<1>4. QED
  BY <1>2, <1>3

(* Only players that ended are announced as such.                          *)
LEMMA ToldOfPlayer ==
  ASSUME VideoInv, ToldInv, NEW v \in Instances, Player(v), NEW w \in Instances, Announced(w)'
  PROVE  player'[w] \in Ended
<1>1. Types /\ Course(v) /\ posted \in Seq(Messages)
  BY DEF VideoInv, Types
<1>2. Announced(w) => player'[w] \in Ended
  BY <1>1, EndedStays DEF ToldInv
<1>3. ASSUME NEW what \in {"prepared", "complete", "error", "info"}, Post(v, what)
      PROVE  Announced(w) \/ (w = v /\ what \in Ended)
  <2> DEFINE m == [to |-> v, what |-> what]
  <2>1. posted' = Append(posted, m) /\ m \in Messages /\ m.to = v /\ m.what = what
    BY <1>3 DEF Post, Messages
  <2> HIDE DEF m
  <2>2. /\ Len(posted') = Len(posted) + 1 /\ Len(posted) \in Nat
        /\ \A i \in 1 .. Len(posted) : posted'[i] = posted[i]
        /\ posted'[Len(posted) + 1] = m
    BY <1>1, <2>1, PostedAppend
  <2>3. PICK i \in 1 .. Len(posted') : posted'[i].to = w /\ posted'[i].what \in Ended
    BY DEF Announced
  <2>4. QED
    BY <2>1, <2>2, <2>3 DEF Announced
<1>4. CASE Prepared(v) \/ Informs(v)
  <2>1. PICK what \in {"prepared", "info"} : Post(v, what)
    BY <1>4 DEF Prepared, Informs
  <2>2. QED
    BY <1>2, <1>3, <2>1 DEF Ended
<1>5. CASE PlaysOut(v) \/ Fails(v)
  <2>1. PICK what \in Ended : Post(v, what)
    BY <1>5 DEF PlaysOut, Fails, Ended
  <2>2. player'[v] \in Ended
    BY <1>1, <1>5 DEF PlaysOut, Fails, Moves, Types, Ended
  <2>3. QED
    BY <1>2, <1>3, <2>1, <2>2 DEF Ended
<1>6. CASE Collected(v)
  BY <1>2, <1>6 DEF Collected, Announced
<1>7. QED
  BY <1>4, <1>5, <1>6 DEF Player

LEMMA ToldOfPrepared ==
  ASSUME VideoInv, ToldInv, NEW v \in Instances, onPrepared(v), NEW w \in Instances, Announced(w)'
  PROVE  player'[w] \in Ended
<1>1. Types /\ Course(v) /\ posted \in Seq(Messages) /\ posted # << >>
  BY DEF VideoInv, Types, onPrepared, IsNext
<1>2. Announced(w) => player'[w] \in Ended
  BY <1>1, EndedStays DEF ToldInv
<1>3. CASE player[v] = "prepared"
  <2>1. posted' = Tail(posted)
    BY <1>3 DEF onPrepared
  <2>2. QED
    BY <1>1, <1>2, <2>1, AnnouncedLess
<1>4. CASE player[v] # "prepared"
  <2>1. posted' = Append(Tail(posted), [to |-> v, what |-> "error"])
    BY <1>4 DEF onPrepared
  <2>2. Announced(w) \/ w = v
    <3> DEFINE m == [to |-> v, what |-> "error"]
    <3>1. posted' = Append(Tail(posted), m) /\ m \in Messages /\ m.to = v
      BY <2>1 DEF Messages
    <3> HIDE DEF m
    <3>2. /\ Tail(posted) \in Seq(Messages)
          /\ Len(Tail(posted)) = Len(posted) - 1 /\ Len(posted) \in Nat \ {0}
          /\ \A i \in 1 .. Len(Tail(posted)) : Tail(posted)[i] = posted[i + 1]
      BY <1>1, PostedTail
    <3>3. /\ Len(posted') = Len(posted)
          /\ \A i \in 1 .. Len(posted) - 1 : posted'[i] = posted[i + 1]
          /\ posted'[Len(posted)] = m
      BY <3>1, <3>2, PostedAppend
    <3>4. PICK i \in 1 .. Len(posted') : posted'[i].to = w /\ posted'[i].what \in Ended
      BY DEF Announced
    <3>5. CASE i = Len(posted)
      BY <3>1, <3>3, <3>4, <3>5
    <3>6. CASE i # Len(posted)
      <4>1. Len(posted) \in Nat /\ i \in 1 .. Len(posted)
        BY <3>2, <3>3
      <4>2. i \in 1 .. Len(posted) - 1 /\ i + 1 \in 1 .. Len(posted)
        BY <3>6, <4>1
      <4>3. posted'[i] = posted[i + 1]
        BY <3>3, <4>2
      <4>4. QED
        BY <3>4, <4>2, <4>3 DEF Announced
    <3>7. QED
      BY <3>5, <3>6
  <2>3. player'[v] \in Ended
    BY <1>1, <1>4 DEF onPrepared, Types, Ended
  <2>4. QED
    BY <1>2, <2>2, <2>3
<1>5. QED
  BY <1>3, <1>4

LEMMA ToldInNext == VideoInv /\ ToldInv /\ [Next]_vars => ToldInv'
<1> SUFFICES ASSUME VideoInv, ToldInv, [Next]_vars, NEW w \in Instances, Announced(w)'
             PROVE  player'[w] \in Ended
  BY DEF ToldInv
<1>1. Types /\ posted \in Seq(Messages)
  BY DEF VideoInv, Types
<1>2. ASSUME NEW v \in Instances, onCreate(v) \/ surfaceCreated(v)
      PROVE  player'[w] \in Ended
  <2>1. Announced(w)
    BY <1>2 DEF onCreate, surfaceCreated, Announced
  <2>2. QED
    BY <1>1, <1>2, <2>1, EndedStays DEF VideoInv, ToldInv
<1>3. ASSUME NEW v \in Instances, surfaceDestroyed(v) \/ Leave(v) \/ ComeBack(v)
      PROVE  player'[w] \in Ended
  BY <1>3 DEF surfaceDestroyed, Leave, ComeBack, Announced, ToldInv
<1>4. ASSUME NEW v \in Instances, onInfo(v) \/ onCompletion(v) \/ onError(v)
      PROVE  player'[w] \in Ended
  <2>1. posted # << >> /\ posted' = Tail(posted) /\ UNCHANGED player
    BY <1>4 DEF onInfo, onCompletion, onError, IsNext
  <2>2. QED
    BY <1>1, <2>1, AnnouncedLess DEF ToldInv
<1>5. CASE UNCHANGED vars
  BY <1>5 DEF vars, actVars, Announced, ToldInv
<1>6. QED
  BY <1>2, <1>3, <1>4, <1>5, ToldOfPlayer, ToldOfPrepared DEF Next, MainThread

(* Only its surface takes a player beyond its source, and prepareAsync()   *)
(* of any other ends the app.                                              *)
LEMMA SeenInNext == VideoInv /\ SeenInv /\ [Next]_vars => SeenInv'
<1> SUFFICES ASSUME VideoInv, SeenInv, [Next]_vars, ~crashed',
                    NEW w \in Instances, comings'[w] >= 1
             PROVE  player'[w] \notin BeforePrepare
  BY DEF SeenInv
<1>1. Types /\ \A v \in Instances : Course(v)
  BY DEF VideoInv
<1>2. /\ player \in [Instances -> PlayerStates] /\ comings \in [Instances -> Nat]
  BY <1>1 DEF Types
<1>3. ASSUME ~crashed, comings'[w] = comings[w], player'[w] = player[w] \/ player'[w] \notin BeforePrepare
      PROVE  player'[w] \notin BeforePrepare
  BY <1>3 DEF SeenInv
<1>4. ASSUME NEW v \in Instances, onCreate(v) PROVE player'[w] \notin BeforePrepare
  <2>1. comings[v] = 0
    BY <1>1, <1>4 DEF onCreate, Course
  <2>2. w # v /\ comings'[w] = comings[w] /\ ~crashed
    BY <1>4, <2>1 DEF onCreate
  <2>3. player'[w] = player[w]
    BY <1>2, <1>4, <2>2 DEF onCreate
  <2>4. QED
    BY <1>3, <2>2, <2>3
<1>5. ASSUME NEW v \in Instances, surfaceCreated(v) PROVE player'[w] \notin BeforePrepare
  <2>1. ~crashed /\ player' = [player EXCEPT ![v] = "preparing"]
        /\ comings' = [comings EXCEPT ![v] = @ + 1]
    BY <1>5 DEF surfaceCreated
  <2>2. CASE w = v
    BY <1>2, <2>1, <2>2 DEF BeforePrepare
  <2>3. CASE w # v
    BY <1>2, <1>3, <2>1, <2>3
  <2>4. QED
    BY <2>2, <2>3
<1>6. ASSUME NEW v \in Instances, surfaceDestroyed(v) \/ Leave(v) \/ ComeBack(v)
      PROVE  player'[w] \notin BeforePrepare
  BY <1>3, <1>6 DEF surfaceDestroyed, Leave, ComeBack, history
<1>7. ASSUME NEW v \in Instances, Player(v) PROVE player'[w] \notin BeforePrepare
  <2>1. ~crashed /\ comings' = comings
    BY <1>7 DEF Player, Prepared, PlaysOut, Fails, Informs, Collected, Moves, history
  <2>2. player' = player \/ \E t \in PlayerStates \ BeforePrepare : player' = [player EXCEPT ![v] = t]
    BY <1>7 DEF Player, Prepared, PlaysOut, Fails, Informs, Collected, Moves,
                PlayerStates, BeforePrepare
  <2>3. QED
    BY <1>2, <1>3, <2>1, <2>2
<1>8. ASSUME NEW v \in Instances, onPrepared(v) PROVE player'[w] \notin BeforePrepare
  <2>1. ~crashed /\ comings' = comings
    BY <1>8 DEF onPrepared, IsNext
  <2>2. \E t \in PlayerStates \ BeforePrepare : player' = [player EXCEPT ![v] = t]
    BY <1>8 DEF onPrepared, PlayerStates, BeforePrepare
  <2>3. QED
    BY <1>2, <1>3, <2>1, <2>2
<1>9. ASSUME NEW v \in Instances, onInfo(v) \/ onCompletion(v) \/ onError(v)
      PROVE  player'[w] \notin BeforePrepare
  BY <1>3, <1>9 DEF onInfo, onCompletion, onError, IsNext, history
<1>10. CASE UNCHANGED vars
  BY <1>3, <1>10 DEF vars, history
<1>11. QED
  BY <1>4, <1>5, <1>6, <1>7, <1>8, <1>9, <1>10 DEF Next, MainThread

-----------------------------------------------------------------------------
(* What a viewer sees of the players.                                      *)
LEMMA PlayIs ==
  ASSUME NEW v \in Instances, player[v] \in PlayerStates
  PROVE  /\ player[v] \in BeforeStart => Play(v) = "waiting"
         /\ player[v] = "started" => Play(v) = "playing"
         /\ player[v] \in {"complete", "error", "released"} => Play(v) = "over"
         /\ Play(v) \in {"waiting", "playing", "over"}
BY DEF Play, PlayerStates, BeforeStart, BeforePrepare

LEMMA PlaysAre ==
  ASSUME NEW v \in Instances, \A w \in Instances : w # v => player'[w] = player[w],
         NEW p, Play(v)' = p
  PROVE  Plays' = [Plays EXCEPT ![v] = p]
<1>1. \A w \in Instances : w # v => Play(w)' = Play(w)
  BY DEF Play
<1>2. QED
  BY <1>1 DEF Plays

LEMMA PlaysSame == UNCHANGED player => UNCHANGED Plays
BY DEF Plays, Play

LEMMA ShownSame == UNCHANGED comings => UNCHANGED Shown
BY DEF Shown

(* Activities come and go as they are seen to.                             *)
LEMMA ActivityViewed ==
  ASSUME VideoInv, NEW v \in Instances,
         onCreate(v) \/ surfaceDestroyed(v) \/ Leave(v) \/ ComeBack(v)
  PROVE  View!Next
<1>1. Types /\ Course(v)
  BY DEF VideoInv
<1>2. CASE onCreate(v)
  <2>1. player' = [player EXCEPT ![v] = "initialized"] \/ player' = [player EXCEPT ![v] = "idle"]
    BY <1>2 DEF onCreate
  <2>2. Play(v)' = "waiting" /\ Play(v) = "waiting"
    <3>1. player[v] \in BeforeStart /\ player[v] \in PlayerStates
      BY <1>1, <1>2 DEF onCreate, Course, BeforeStart, BeforePrepare, PlayerStates
    <3>2. player'[v] \in {"initialized", "idle"}
      BY <1>1, <2>1 DEF Types
    <3>3. QED
      BY <3>1, <3>2, PlayIs DEF Play
  <2>3. UNCHANGED Plays
    <3>1. Plays' = [Plays EXCEPT ![v] = "waiting"]
      BY <1>1, <2>1, <2>2, PlaysAre DEF Types
    <3>2. QED
      BY <2>2, <3>1 DEF Plays
  <2>4. View!Come(v)
    BY <1>2, <2>3, ShownSame DEF onCreate, View!Come, InFront, View!InFront
  <2>5. QED
    BY <2>4 DEF View!Next
<1>3. CASE surfaceDestroyed(v)
  <2>1. View!Vanish(v)
    BY <1>3, PlaysSame, ShownSame DEF surfaceDestroyed, history, View!Vanish
  <2>2. QED
    BY <2>1 DEF View!Next
<1>4. CASE Leave(v)
  <2>1. View!Leave(v)
    BY <1>4, PlaysSame, ShownSame DEF Leave, history, View!Leave
  <2>2. QED
    BY <2>1 DEF View!Next
<1>5. CASE ComeBack(v)
  <2>1. View!Come(v)
    BY <1>5, PlaysSame, ShownSame DEF ComeBack, history, View!Come, InFront, View!InFront
  <2>2. QED
    BY <2>1 DEF View!Next
<1>6. QED
  BY <1>2, <1>3, <1>4, <1>5

(* A surface that comes is seen, and seen twice ends the app.              *)
LEMMA SurfaceViewed ==
  ASSUME VideoInv, SeenInv, NEW v \in Instances, surfaceCreated(v)
  PROVE  View!See(v)
<1>1. Types /\ Course(v) /\ ~crashed
  BY DEF VideoInv, surfaceCreated
<1>2. Shown' = Shown \cup {v}
  BY <1>1 DEF surfaceCreated, Shown, Types
<1>3. UNCHANGED Plays
  <2>1. CASE player[v] = "initialized"
    <3>1. Play(v)' = "waiting" /\ Play(v) = "waiting"
      <4>1. player'[v] = "preparing"
        BY <1>1, <2>1 DEF surfaceCreated, Types
      <4>2. QED
        BY <2>1, <4>1 DEF Play
    <3>2. Plays' = [Plays EXCEPT ![v] = "waiting"]
      BY <1>1, <2>1, <3>1, PlaysAre DEF surfaceCreated, Types
    <3>3. QED
      BY <3>1, <3>2 DEF Plays
  <2>2. CASE player[v] # "initialized"
    BY <2>2, PlaysSame DEF surfaceCreated
  <2>3. QED
    BY <2>1, <2>2
<1>4. v \in Shown \/ Plays[v] = "over" => crashed'
  <2>1. Plays[v] = "over" => player[v] # "initialized"
    BY DEF Plays, Play
  <2>2. v \in Shown => player[v] # "initialized"
    BY <1>1 DEF Shown, SeenInv, BeforePrepare
  <2>3. QED
    BY <2>1, <2>2 DEF surfaceCreated
<1>5. crashed' \in BOOLEAN
  <2>1. CASE player[v] = "initialized"
    BY <1>1, <2>1, Zenon DEF surfaceCreated, Types
  <2>2. CASE player[v] # "initialized"
    BY <2>2, Zenon DEF surfaceCreated
  <2>3. QED
    BY <2>1, <2>2
<1>6. QED
  BY <1>2, <1>3, <1>4, <1>5 DEF surfaceCreated, View!See

(* A player that stays what a viewer takes it for, goes on to play, or     *)
(* stops.                                                                  *)
LEMMA PlayerViewed ==
  ASSUME VideoInv, NEW v \in Instances, ~crashed,
         UNCHANGED <<act, surface, crashed, comings>>,
         NEW t \in PlayerStates, player' = [player EXCEPT ![v] = t],
         \/ player[v] = "preparing" /\ t = "prepared"
         \/ player[v] = "prepared" /\ t = "started"
         \/ t \in Ended \cup {"released"} /\ act[v] # "none"
  PROVE  View!Next \/ UNCHANGED View!viewVars
<1>1. Types /\ Course(v) /\ player \in [Instances -> PlayerStates]
  BY DEF VideoInv, Types
<1>2. UNCHANGED Shown
  BY ShownSame
<1>3. /\ player'[v] = t
      /\ \A w \in Instances : w # v => player'[w] = player[w]
  BY <1>1
<1>4. Plays[v] = Play(v) /\ Plays = [Plays EXCEPT ![v] = Play(v)]
  BY DEF Plays
<1>5. CASE player[v] = "preparing" /\ t = "prepared"
  <2>1. Play(v)' = Play(v)
    BY <1>3, <1>5 DEF Play
  <2>2. UNCHANGED Plays
    BY <1>3, <1>4, <2>1, PlaysAre
  <2>3. QED
    BY <1>2, <2>2 DEF View!viewVars
<1>6. CASE player[v] = "prepared" /\ t = "started"
  <2>1. Play(v)' = "playing" /\ Play(v) = "waiting"
    BY <1>3, <1>6 DEF Play
  <2>2. Plays' = [Plays EXCEPT ![v] = "playing"]
    BY <1>3, <2>1, PlaysAre
  <2>3. v \in Shown
    BY <1>1, <1>6 DEF Course, BeforePrepare, Shown
  <2>4. View!Play(v)
    BY <1>2, <1>4, <2>1, <2>2, <2>3 DEF View!Play
  <2>5. QED
    BY <2>4 DEF View!Next
<1>7. CASE t \in Ended \cup {"released"} /\ act[v] # "none"
  <2>1. Play(v)' = "over"
    BY <1>3, <1>7 DEF Play, Ended
  <2>2. Plays' = [Plays EXCEPT ![v] = "over"]
    BY <1>3, <2>1, PlaysAre
  <2>3. CASE Play(v) = "over"
    BY <1>2, <1>4, <2>2, <2>3 DEF View!viewVars
  <2>4. CASE Play(v) # "over"
    <3>1. View!Stop(v)
      BY <1>2, <1>4, <1>7, <2>2, <2>4 DEF View!Stop
    <3>2. QED
      BY <3>1 DEF View!Next
  <2>5. QED
    BY <2>3, <2>4
<1>8. QED
  BY <1>5, <1>6, <1>7

(* What happens in a player and in onPrepared().                           *)
LEMMA PlayersViewed ==
  ASSUME VideoInv, NEW v \in Instances, Player(v) \/ onPrepared(v)
  PROVE  View!Next \/ UNCHANGED View!viewVars
<1>1. Types /\ Course(v) /\ PostedInv /\ posted \in Seq(Messages)
  BY DEF VideoInv, Types
<1>2. ~crashed /\ UNCHANGED <<act, surface, crashed, comings>>
  BY DEF Player, Prepared, PlaysOut, Fails, Informs, Collected, Moves, actVars, history,
         onPrepared, IsNext
<1>3. CASE Prepared(v)
  BY <1>2, <1>3, PlayerViewed DEF Prepared, Moves, PlayerStates
<1>4. CASE PlaysOut(v) \/ Fails(v)
  <2>1. act[v] # "none"
    BY <1>1, <1>4 DEF PlaysOut, Fails, Moves, Course
  <2>2. PICK t \in Ended : player' = [player EXCEPT ![v] = t]
    BY <1>4 DEF PlaysOut, Fails, Moves, Ended
  <2>3. t \in PlayerStates
    BY DEF Ended, PlayerStates
  <2>4. QED
    BY <1>2, <2>1, <2>2, <2>3, PlayerViewed
<1>5. CASE Informs(v)
  BY <1>2, <1>5, PlaysSame, ShownSame DEF Informs, View!viewVars
<1>6. CASE Collected(v)
  BY <1>2, <1>6, PlayerViewed DEF Collected, Moves, PlayerStates
<1>7. CASE onPrepared(v) /\ player[v] = "prepared"
  BY <1>2, <1>7, PlayerViewed DEF onPrepared, PlayerStates
<1>8. CASE onPrepared(v) /\ player[v] # "prepared"
  <2>1. act[v] # "none"
    BY <1>8, QueueShorter DEF onPrepared
  <2>2. player' = [player EXCEPT ![v] = "error"]
    BY <1>8 DEF onPrepared
  <2>3. "error" \in PlayerStates /\ "error" \in Ended
    BY DEF PlayerStates, Ended
  <2>4. QED
    BY <1>2, <2>1, <2>2, <2>3, PlayerViewed
<1>9. QED
  BY <1>3, <1>4, <1>5, <1>6, <1>7, <1>8 DEF Player

(* An activity is closed for an end that was announced, and so is true.    *)
LEMMA CallbackViewed ==
  ASSUME VideoInv, ToldInv, NEW v \in Instances, onInfo(v) \/ onCompletion(v) \/ onError(v)
  PROVE  View!Next \/ UNCHANGED View!viewVars
<1>1. Types /\ posted \in Seq(Messages)
  BY DEF VideoInv, Types
<1>2. UNCHANGED <<surface, player, crashed, comings, Plays, Shown>> /\ ~crashed
  BY PlaysSame, ShownSame DEF onInfo, onCompletion, onError, actVars, history, IsNext
<1>3. CASE onInfo(v)
  BY <1>2, <1>3 DEF onInfo, actVars, View!viewVars
<1>4. CASE onCompletion(v) \/ onError(v)
  <2>1. PICK what \in Ended : IsNext(v, what)
    BY <1>4 DEF onCompletion, onError, Ended
  <2>2. Announced(v)
    <3>1. posted # << >> /\ posted[1].to = v /\ posted[1].what = what
      BY <1>1, <2>1, PostedTail DEF IsNext
    <3>2. 1 \in 1 .. Len(posted)
      BY <1>1, <3>1, PostedTail
    <3>3. QED
      BY <3>1, <3>2 DEF Announced
  <2>3. Plays[v] = "over"
    BY <2>2 DEF ToldInv, Ended, Plays, Play
  <2>4. View!Close(v)
    BY <1>2, <1>4, <2>3 DEF onCompletion, onError, View!Close
  <2>5. QED
    BY <2>4 DEF View!Next
<1>5. QED
  BY <1>3, <1>4

(* What the callbacks, the queue and the players make of any number of     *)
(* activities is what Viewing promises: each opens, plays and is closed    *)
(* once at most, is closed only from the front or when its video is over,  *)
(* and ends the app if it is seen again or when its video is over.         *)
THEOREM ShowsAsPromised == Spec => ViewSpec
<1>1. Init => ToldInv /\ SeenInv
  BY DEF Init, ToldInv, SeenInv, Announced
<1>2. Init => View!Init
  <2> SUFFICES ASSUME Init PROVE View!Init
    OBVIOUS
  <2>1. Plays = [v \in Instances |-> "waiting"]
    BY DEF Init, Plays, Play
  <2>2. Shown = {}
    BY DEF Init, Shown
  <2>3. QED
    BY <2>1, <2>2 DEF Init, View!Init
<1>3. VideoInv /\ ToldInv /\ SeenInv /\ [Next]_vars => [View!Next]_(View!viewVars)
  <2> SUFFICES ASSUME VideoInv, ToldInv, SeenInv, [Next]_vars
               PROVE  View!Next \/ UNCHANGED View!viewVars
    OBVIOUS
  <2>1. UNCHANGED vars => UNCHANGED View!viewVars
    BY PlaysSame, ShownSame DEF vars, actVars, history, View!viewVars
  <2>2. \A v \in Instances : View!See(v) => View!Next
    BY DEF View!Next
  <2>3. QED
    BY <2>1, <2>2, ActivityViewed, SurfaceViewed, PlayersViewed, CallbackViewed
    DEF Next, MainThread
<1>4. QED
  BY VideoInStep, ToldInNext, SeenInNext, <1>1, <1>2, <1>3, PTL
  DEF Spec, ViewSpec, View!Spec
=============================================================================
