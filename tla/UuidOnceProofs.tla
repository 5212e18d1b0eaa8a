--------------------------- MODULE UuidOnceProofs ---------------------------
(***************************************************************************)
(* What the write-once backends promise, for every number of parts,        *)
(* descriptors and UUIDs.  BurntInv holds whatever fails.  ChipInv, and    *)
(* with it the refinement of OnceStore, holds as long as an open() fails   *)
(* only because the process has used up its descriptors: emmc_amlogic.c    *)
(* takes a device it cannot open for a blank one, and this is harmless     *)
(* only if it cannot be opened to be burnt either.                         *)
(***************************************************************************)
EXTENDS UuidOnce, FiniteSetTheorems, TLAPS

(* What each step of a call may rely on.                                   *)
Exhausted == backend = "amlogic" /\ at = 1 /\ fds >= MAXFD

StageInv ==
  /\ pc # "idle" => val \in Uuids
  /\ pc \notin {"burn", "verify"} => at = 1
  /\ pc = "reopen" => backend = "amlogic" /\ (Blank \/ fds >= MAXFD)
  /\ pc = "burn" => Burning \/ Exhausted
  /\ pc = "burn" /\ backend = "amlogic" => at <= PARTS
  /\ pc = "verify" => Whole(val)

(* What the fuses hold.                                                    *)
FuseInv ==
  /\ \A u \in told : Whole(u)
  /\ \E u \in Uuids \cup {NoUuid} : \A p \in Parts : cell[p] \in {{}, {u}}

ChipInv == StableOpens /\ TypeOK /\ StageInv /\ FuseInv

-----------------------------------------------------------------------------
(* The initial states are of the right types.                              *)
LEMMA ChipTypeInit == Init => TypeOK
<1> SUFFICES ASSUME Init PROVE TypeOK
  OBVIOUS
<1>1. 1 \in 1 .. PARTS + 1 /\ 0 \in 0 .. MAXFD
  BY PartsAssumption, MaxFdAssumption
<1>2. cell \in [Parts -> SUBSET Uuids]
  BY DEF Init, ChipInit
<1>3. QED
  BY <1>1, <1>2 DEF Init, ChipInit, TypeOK, ChipTypeOK

(* A blank chip and an idle caller.                                        *)
LEMMA ChipInvInit == Init /\ StableOpens => ChipInv
<1> SUFFICES ASSUME Init, StableOpens PROVE ChipInv
  OBVIOUS
<1>1. StageInv /\ FuseInv
  BY DEF Init, ChipInit, StageInv, FuseInv, Parts
<1>2. QED
  BY <1>1, ChipTypeInit DEF ChipInv

(* The steps that leave the fuses as they are.                             *)
LEMMA QuietStep ==
  ASSUME ChipInv, UNCHANGED <<cell, backend, told>>,
         TypeOK',
         pc' # "idle" => val' \in Uuids,
         pc' \notin {"burn", "verify"} => at' = 1,
         pc' # "verify",
         pc' = "reopen" => backend = "amlogic" /\ (Blank \/ fds' >= MAXFD),
         pc' = "burn" => at' = 1 /\ (Blank \/ (backend = "amlogic" /\ fds' >= MAXFD))
  PROVE  ChipInv'
<1>1. FuseInv'
  BY DEF ChipInv, FuseInv, Whole, Parts
<1>2. Blank => Blank'
  BY DEF Blank
<1>3. pc' = "burn" /\ Blank => Burning'
  <2> SUFFICES ASSUME pc' = "burn", Blank PROVE Burning'
    OBVIOUS
  <2>1. \A p \in Parts : ~(p < at') /\ cell'[p] = {}
    BY DEF Blank, Parts
  <2>2. QED
    BY <2>1 DEF Burning, Parts
<1>4. 1 <= PARTS
  BY PartsAssumption
<1>5. StageInv'
  BY <1>2, <1>3, <1>4 DEF StageInv, Exhausted
<1>6. QED
  BY <1>1, <1>5 DEF ChipInv, StableOpens

-----------------------------------------------------------------------------
(* Types                                                                   *)

(* A burnt part keeps the fuses and the position in their types.           *)
LEMMA BurnTypes ==
  ASSUME TypeOK, val \in Uuids, at <= PARTS, BurnPart
  PROVE  cell' \in [Parts -> SUBSET Uuids] /\ at' \in 1 .. PARTS + 1
<1>1. at \in Nat /\ 1 <= at /\ PARTS \in Nat
  BY PartsAssumption DEF TypeOK, ChipTypeOK
<1>2. at + 1 \in 1 .. PARTS + 1
  BY <1>1
<1>3. cell' = [cell EXCEPT ![at] = @ \cup {val}] /\ at' = at + 1
  BY DEF BurnPart
<1>4. cell' \in [Parts -> SUBSET Uuids]
  BY <1>3 DEF TypeOK, ChipTypeOK
<1>5. QED
  BY <1>2, <1>3, <1>4

(* A return keeps the types.                                               *)
LEMMA ReturnTypes ==
  ASSUME TypeOK, NEW ok \in BOOLEAN, ok => val \in Uuids, Return(ok),
         cell' = cell, fds' \in 0 .. MAXFD, UNCHANGED <<version, OTP_init>>
  PROVE  TypeOK'
<1>1. 1 \in 1 .. PARTS + 1
  BY PartsAssumption
<1>2. QED
  BY <1>1 DEF TypeOK, ChipTypeOK, Return

(* A death keeps the types.                                                *)
LEMMA DiesTypes ==
  ASSUME TypeOK, Dies, version' = version, OTP_init' \in BOOLEAN
  PROVE  TypeOK'
<1>1. 1 \in 1 .. PARTS + 1 /\ 0 \in 0 .. MAXFD
  BY PartsAssumption, MaxFdAssumption
<1>2. QED
  BY <1>1 DEF TypeOK, ChipTypeOK, Dies

(* The parts of a burnt chip, and of a chip that is being burnt.           *)
LEMMA BurnStep ==
  ASSUME ChipInv, pc = "burn", at <= PARTS, Burning, BurnPart,
         pc' = "burn" \/ (pc' = "verify" /\ at = PARTS),
         pc' = "burn" /\ backend = "amlogic" => at # PARTS,
         UNCHANGED <<version, OTP_init>>
  PROVE  ChipInv'
<1>1. val \in Uuids /\ at \in Nat /\ 1 <= at /\ PARTS \in Nat /\ at \in Parts
  BY PartsAssumption DEF ChipInv, StageInv, TypeOK, ChipTypeOK, Parts
<1>2. cell' = [cell EXCEPT ![at] = @ \cup {val}]
      /\ at' = at + 1
      /\ UNCHANGED <<backend, val, fds, told>>
  BY DEF BurnPart
<1>3. cell \in [Parts -> SUBSET Uuids]
  BY DEF ChipInv, TypeOK, ChipTypeOK
<1>4. \A p \in Parts : cell'[p] = IF p < at + 1 THEN {val} ELSE {}
  <2> SUFFICES ASSUME NEW p \in Parts
               PROVE  cell'[p] = IF p < at + 1 THEN {val} ELSE {}
    OBVIOUS
  <2>1. cell[p] = IF p < at THEN {val} ELSE {}
    BY DEF Burning
  <2>2. CASE p = at
    <3>1. cell'[p] = cell[p] \cup {val}
      BY <1>2, <1>3, <2>2
    <3>2. cell[p] = {}
      BY <2>1, <2>2, <1>1
    <3>3. p < at + 1
      BY <1>1, <2>2
    <3>4. QED
      BY <3>1, <3>2, <3>3
  <2>3. CASE p # at
    <3>1. cell'[p] = cell[p]
      BY <1>2, <1>3, <2>3
    <3>2. p < at + 1 <=> p < at
      BY <1>1, <2>3 DEF Parts
    <3>3. QED
      BY <2>1, <3>1, <3>2
  <2>4. QED
    BY <2>2, <2>3
<1>5. told = {}
  <2>1. cell[at] = {}
    BY <1>1 DEF Burning
  <2>2. QED
    BY <1>1, <2>1 DEF ChipInv, FuseInv, Whole
<1>6. FuseInv'
  <2>1. \A p \in Parts : cell'[p] \in {{}, {val}}
    BY <1>4
  <2>2. told' = {}
    BY <1>2, <1>5
  <2>3. QED
    BY <1>1, <2>1, <2>2 DEF FuseInv, Parts
<1>7. pc' = "burn" => Burning'
  BY <1>2, <1>4 DEF Burning, Parts
<1>8. pc' = "verify" => Whole(val)'
  BY <1>1, <1>2, <1>4 DEF Whole, Parts
<1>9. StageInv'
  BY <1>1, <1>2, <1>7, <1>8 DEF StageInv
<1>10. TypeOK'
  BY <1>1, <1>2, BurnTypes DEF ChipInv, TypeOK, ChipTypeOK
<1>11. QED
  BY <1>6, <1>9, <1>10 DEF ChipInv, StableOpens

(* A call that returns TRUE has burnt its UUID whole.                      *)
LEMMA ReturnStep ==
  ASSUME ChipInv, NEW ok \in BOOLEAN, ok => val \in Uuids /\ Whole(val),
         Return(ok), cell' = cell, fds' \in 0 .. MAXFD,
         UNCHANGED <<version, OTP_init>>
  PROVE  ChipInv'
<1>1. TypeOK'
  BY ReturnTypes DEF ChipInv
<1>2. StageInv'
  BY DEF Return, StageInv
<1>3. FuseInv'
  BY DEF ChipInv, FuseInv, Return, Whole, Parts
<1>4. QED
  BY <1>1, <1>2, <1>3 DEF ChipInv, StableOpens

(* A jump to the next step of a call that burns nothing.                   *)
LEMMA GotoStep ==
  ASSUME ChipInv, NEW next, Goto(next), cell' = cell, fds' \in 0 .. MAXFD,
         at = 1, val \in Uuids, next \in {"write_version", "check", "reopen", "burn"},
         version' \in BOOLEAN, OTP_init' \in BOOLEAN,
         next = "reopen" => backend = "amlogic" /\ (Blank \/ fds' >= MAXFD),
         next = "burn" => Blank \/ (backend = "amlogic" /\ fds' >= MAXFD)
  PROVE  ChipInv'
<1>1. TypeOK'
  BY DEF ChipInv, TypeOK, ChipTypeOK, Goto
<1>2. QED
  BY <1>1, QuietStep DEF Goto

(* A call starts.                                                          *)
LEMMA CallStep ==
  ASSUME ChipInv, NEW first \in {"read_version", "is_empty"}, Call(first),
         UNCHANGED <<version, OTP_init>>
  PROVE  ChipInv'
<1>1. 1 \in 1 .. PARTS + 1
  BY PartsAssumption
<1>2. TypeOK'
  BY <1>1 DEF ChipInv, TypeOK, ChipTypeOK, Call
<1>3. QED
  BY <1>2, QuietStep DEF Call

(* The process dies.                                                       *)
LEMMA DiesStep ==
  ASSUME ChipInv, Dies, version' = version, OTP_init' \in BOOLEAN
  PROVE  ChipInv'
<1>1. TypeOK'
  BY DiesTypes DEF ChipInv
<1>2. QED
  BY <1>1, QuietStep DEF Dies

-----------------------------------------------------------------------------
(* The steps of emmc_amlogic.c                                             *)

(* An open() fails only if no descriptor is left.                          *)
LEMMA OpenFailsExhausted ==
  ASSUME ChipInv, backend = "amlogic", OpenFails
  PROVE  fds >= MAXFD /\ ~Opens
BY MaxFdAssumption DEF ChipInv, StableOpens, OpenFails, Opens, TypeOK, ChipTypeOK

(* Every step of efuse_write_usid() and what leads to it keeps ChipInv.    *)
LEMMA EfuseKeeps == ChipInv /\ Efuse => ChipInv'
<1> SUFFICES ASSUME ChipInv, EfuseStep, UNCHANGED OTP_init
             PROVE  ChipInv'
  BY DEF Efuse
<1>t. /\ fds \in 0 .. MAXFD /\ MAXFD \in Nat
      /\ version \in BOOLEAN /\ OTP_init \in BOOLEAN
  BY MaxFdAssumption DEF ChipInv, TypeOK, ChipTypeOK
<1>s. StageInv
  BY DEF ChipInv
<1>1. CASE EfuseSet
  BY <1>1, CallStep DEF EfuseSet
<1>2. CASE EfuseReadVersion
  <2>1. at = 1 /\ val \in Uuids
    BY <1>2, <1>s DEF EfuseReadVersion, StageInv
  <2>2. Goto("check") \/ Goto("write_version")
    BY <1>2 DEF EfuseReadVersion
  <2>3. UNCHANGED <<cell, fds, version>>
    BY <1>2 DEF EfuseReadVersion
  <2>4. QED
    BY <1>t, <2>1, <2>2, <2>3, GotoStep
<1>3. CASE EfuseWriteVersion
  <2>1. at = 1 /\ val \in Uuids
    BY <1>3, <1>s DEF EfuseWriteVersion, StageInv
  <2>2. Goto("check") /\ UNCHANGED <<cell, fds>> /\ version' \in BOOLEAN
    BY <1>3, <1>t DEF EfuseWriteVersion
  <2>3. QED
    BY <1>t, <2>1, <2>2, GotoStep
<1>4. CASE EfuseCheck
  <2>1. at = 1 /\ val \in Uuids /\ backend = "amlogic"
    BY <1>4, <1>s DEF EfuseCheck, StageInv
  <2>2. UNCHANGED <<cell, fds, version>>
    BY <1>4 DEF EfuseCheck
  <2>3. CASE Return(FALSE)
    BY <1>t, <2>2, <2>3, ReturnStep
  <2>4. CASE Goto("reopen") /\ (Blank \/ fds >= MAXFD)
    BY <1>t, <2>1, <2>2, <2>4, GotoStep
  <2>5. QED
    BY <1>4, <2>1, <2>3, <2>4, OpenFailsExhausted DEF EfuseCheck
<1>5. CASE EfuseReopen
  <2>1. at = 1 /\ val \in Uuids /\ backend = "amlogic" /\ (Blank \/ fds >= MAXFD)
    BY <1>5, <1>s DEF EfuseReopen, StageInv
  <2>2. UNCHANGED <<cell, version>>
    BY <1>5 DEF EfuseReopen
  <2>3. fds' \in 0 .. MAXFD
    <3>1. fds' = fds \/ (fds < MAXFD /\ fds' = fds + 1)
      BY <1>5 DEF EfuseReopen, Opens
    <3>2. QED
      BY <1>t, <3>1
  <2>4. CASE Return(FALSE)
    BY <1>t, <2>2, <2>3, <2>4, ReturnStep
  <2>5. CASE Opens /\ Goto("burn")
    <3>1. Blank
      BY <1>t, <2>1, <2>5 DEF Opens
    <3>2. QED
      BY <1>t, <2>1, <2>2, <2>3, <2>5, <3>1, GotoStep
  <2>6. CASE OpenFails /\ UNCHANGED fds /\ Goto("burn")
    BY <1>t, <2>1, <2>2, <2>3, <2>6, OpenFailsExhausted, GotoStep
  <2>7. QED
    BY <1>5, <2>4, <2>5, <2>6 DEF EfuseReopen
<1>6. CASE EfuseBurn
  <2>1. pc = "burn" /\ backend = "amlogic" /\ (at = 1 => Opens) /\ BurnPart
        /\ pc' = (IF at = PARTS THEN "verify" ELSE "burn") /\ UNCHANGED version
    BY <1>6 DEF EfuseBurn
  <2>2. at <= PARTS /\ (Burning \/ Exhausted)
    BY <1>s, <2>1 DEF StageInv
  <2>3. ~Exhausted
    BY <1>t, <2>1 DEF Exhausted, Opens
  <2>4. QED
    BY <2>1, <2>2, <2>3, BurnStep
<1>7. CASE EfuseBurnFails
  BY <1>7, <1>t, ReturnStep DEF EfuseBurnFails
<1>8. CASE EfuseVerify
  <2>1. Whole(val) /\ val \in Uuids
    BY <1>8, <1>s DEF EfuseVerify, StageInv
  <2>2. Return(TRUE) /\ UNCHANGED <<cell, fds, version>>
    <3>1. Whole(val) = TRUE
      BY <2>1 DEF Whole
    <3>2. QED
      BY <1>8, <3>1 DEF EfuseVerify
  <2>3. QED
    BY <1>t, <2>1, <2>2, ReturnStep
<1>9. CASE EfuseGet
  <2>1. UNCHANGED <<backend, cell, pc, val, at, told, version>> /\ pc = "idle"
    BY <1>9 DEF EfuseGet
  <2>2. fds' \in 0 .. MAXFD
    BY <1>9, <1>t DEF EfuseGet, Opens
  <2>3. TypeOK'
    BY <2>1, <2>2 DEF ChipInv, TypeOK, ChipTypeOK
  <2>4. at' = 1
    BY <1>s, <2>1 DEF StageInv
  <2>5. QED
    BY <2>1, <2>3, <2>4, QuietStep
<1>10. QED
  BY <1>1, <1>2, <1>3, <1>4, <1>5, <1>6, <1>7, <1>8, <1>9 DEF EfuseStep

-----------------------------------------------------------------------------
(* Every step of emmc_msd6a801.c keeps ChipInv.                            *)
LEMMA MstarKeeps == ChipInv /\ Mstar => ChipInv'
<1> SUFFICES ASSUME ChipInv, MstarStep, UNCHANGED version
             PROVE  ChipInv'
  BY DEF Mstar
<1>t. fds \in 0 .. MAXFD /\ version \in BOOLEAN /\ OTP_init \in BOOLEAN
  BY DEF ChipInv, TypeOK, ChipTypeOK
<1>s. StageInv
  BY DEF ChipInv
<1>1. CASE MstarSet
  BY <1>1, CallStep DEF MstarSet
<1>2. CASE MstarInit
  <2>1. at = 1 /\ val \in Uuids
    BY <1>2, <1>s DEF MstarInit, StageInv
  <2>2. Goto("check") /\ UNCHANGED <<cell, fds>> /\ OTP_init' \in BOOLEAN
    BY <1>2 DEF MstarInit
  <2>3. QED
    BY <1>t, <2>1, <2>2, GotoStep
<1>3. CASE MstarInitFails
  BY <1>3, <1>t, DiesStep DEF MstarInitFails
<1>4. CASE MstarCheck
  <2>1. at = 1 /\ val \in Uuids
    BY <1>4, <1>s DEF MstarCheck, StageInv
  <2>2. UNCHANGED <<cell, fds, OTP_init>>
    BY <1>4 DEF MstarCheck
  <2>3. CASE Blank /\ Goto("burn")
    BY <1>t, <2>1, <2>2, <2>3, GotoStep
  <2>4. CASE Return(FALSE)
    BY <1>t, <2>2, <2>4, ReturnStep
  <2>5. QED
    BY <1>4, <2>3, <2>4 DEF MstarCheck
<1>5. CASE MstarBurn
  <2>1. pc = "burn" /\ backend = "mstar" /\ UNCHANGED OTP_init
    BY <1>5 DEF MstarBurn
  <2>2. Burning /\ val \in Uuids
    BY <1>s, <2>1 DEF StageInv, Exhausted
  <2>3. CASE at <= PARTS
    <3>1. BurnPart /\ pc' = "burn"
      BY <1>5, <2>3 DEF MstarBurn
    <3>2. QED
      BY <2>1, <2>2, <2>3, <3>1, BurnStep
  <2>4. CASE ~(at <= PARTS)
    <3>1. Return(TRUE) /\ UNCHANGED <<cell, fds>>
      BY <1>5, <2>4 DEF MstarBurn
    <3>2. Whole(val)
      <4>1. \A p \in Parts : p < at
        BY <2>4, PartsAssumption DEF Parts, ChipInv, TypeOK, ChipTypeOK
      <4>2. QED
        BY <2>2, <4>1 DEF Burning, Whole
    <3>3. QED
      BY <1>t, <2>1, <2>2, <3>1, <3>2, ReturnStep
  <2>5. QED
    BY <2>3, <2>4
<1>6. CASE MstarGet
  <2>1. UNCHANGED chipVars /\ OTP_init' = TRUE /\ pc = "idle"
    BY <1>6 DEF MstarGet
  <2>2. UNCHANGED <<backend, cell, pc, val, at, fds, told>>
    BY <2>1 DEF chipVars
  <2>3. TypeOK'
    BY <2>1, <2>2 DEF ChipInv, TypeOK, ChipTypeOK
  <2>4. at' = 1
    BY <1>s, <2>1, <2>2 DEF StageInv
  <2>5. QED
    BY <2>1, <2>2, <2>3, <2>4, QuietStep
<1>7. QED
  BY <1>1, <1>2, <1>3, <1>4, <1>5, <1>6 DEF MstarStep

(* A stutter changes nothing.                                              *)
LEMMA StutterKeeps == ChipInv /\ UNCHANGED vars => ChipInv'
<1> SUFFICES ASSUME ChipInv, UNCHANGED vars PROVE ChipInv'
  OBVIOUS
<1>1. UNCHANGED <<backend, cell, pc, val, at, fds, told, version, OTP_init>>
  BY DEF vars, chipVars
<1>2. TypeOK'
  BY <1>1 DEF ChipInv, TypeOK, ChipTypeOK
<1>3. StageInv'
  BY <1>1 DEF ChipInv, StageInv, Blank, Burning, Exhausted, Whole, Parts
<1>4. FuseInv'
  BY <1>1 DEF ChipInv, FuseInv, Whole, Parts
<1>5. QED
  BY <1>2, <1>3, <1>4 DEF ChipInv, StableOpens

(* ChipInv is inductive.                                                   *)
LEMMA ChipInvStep == ChipInv /\ [Next]_vars => ChipInv'
<1>1. ChipInv /\ Killed => ChipInv'
  BY DiesStep DEF Killed
<1>2. QED
  BY <1>1, EfuseKeeps, MstarKeeps, StutterKeeps DEF Next

(* ChipInv holds in every state.                                           *)
THEOREM ChipInvariant == Spec /\ StableOpens => []ChipInv
<1>1. Init /\ StableOpens => ChipInv
  BY ChipInvInit
<1>2. ChipInv /\ [Next]_vars => ChipInv'
  BY ChipInvStep
<1>3. QED
  BY <1>1, <1>2, PTL DEF Spec

(* While an open() fails only for want of descriptors, efuse_write_usid()  *)
(* and the OTP loop burn a part of the chip with one UUID at most.         *)
THEOREM BurntOnce == Spec /\ StableOpens => []NeverReburnt
<1>1. ChipInv => NeverReburnt
  <2> SUFFICES ASSUME ChipInv, NEW p \in Parts
               PROVE  Cardinality(cell[p]) <= 1
    BY DEF NeverReburnt
  <2>1. PICK u : cell[p] \in {{}, {u}}
    BY DEF ChipInv, FuseInv
  <2>2. Cardinality({}) = 0 /\ Cardinality({u}) = 1
    BY FS_EmptySet, FS_Singleton
  <2>3. QED
    BY <2>1, <2>2
<1>2. QED
  BY <1>1, ChipInvariant, PTL

-----------------------------------------------------------------------------
(* What holds whatever fails, an open() for any reason included: how far a *)
(* call has burnt its UUID, alone or on top of another.                    *)
CallInv ==
  /\ pc # "idle" => val \in Uuids
  /\ pc \notin {"burn", "verify"} => at = 1
  /\ pc = "burn" /\ backend = "amlogic" => at <= PARTS
  /\ pc = "burn" => \A p \in Parts : p < at => val \in cell[p]
  /\ pc = "verify" => \A p \in Parts : val \in cell[p]

BurntInv == TypeOK /\ CallInv /\ TrueIsBurnt

(* A step that burns nothing and tells nothing.                            *)
LEMMA QuietBurnt ==
  ASSUME BurntInv, UNCHANGED <<cell, told>>, TypeOK',
         pc' # "idle" => val' \in Uuids,
         at' = 1, pc' # "verify"
  PROVE  BurntInv'
<1>1. TrueIsBurnt'
  BY DEF BurntInv, TrueIsBurnt, Parts
<1>2. \A p \in Parts : ~(p < at')
  BY DEF Parts
<1>3. 1 <= PARTS
  BY PartsAssumption
<1>4. CallInv'
  BY <1>2, <1>3 DEF CallInv, Parts
<1>5. QED
  BY <1>1, <1>4 DEF BurntInv

(* A call that returns.                                                    *)
LEMMA ReturnBurnt ==
  ASSUME BurntInv, NEW ok \in BOOLEAN,
         ok => val \in Uuids /\ \A p \in Parts : val \in cell[p],
         Return(ok), cell' = cell, fds' \in 0 .. MAXFD,
         UNCHANGED <<version, OTP_init>>
  PROVE  BurntInv'
<1>1. TypeOK'
  BY ReturnTypes DEF BurntInv
<1>2. CallInv'
  BY DEF Return, CallInv
<1>3. TrueIsBurnt'
  BY DEF BurntInv, TrueIsBurnt, Return, Parts
<1>4. QED
  BY <1>1, <1>2, <1>3 DEF BurntInv

(* A jump to a step of a call that has burnt nothing yet.                  *)
LEMMA GotoBurnt ==
  ASSUME BurntInv, NEW next \in {"write_version", "check", "reopen", "burn"}, Goto(next),
         cell' = cell, fds' \in 0 .. MAXFD, at = 1, val \in Uuids,
         version' \in BOOLEAN, OTP_init' \in BOOLEAN
  PROVE  BurntInv'
<1>1. TypeOK'
  BY DEF BurntInv, TypeOK, ChipTypeOK, Goto
<1>2. QED
  BY <1>1, QuietBurnt DEF Goto

(* A call starts, or the process dies.                                     *)
LEMMA CallBurnt ==
  ASSUME BurntInv,
         \/ \E first \in {"read_version", "is_empty"} : Call(first)
         \/ Dies,
         version' = version, OTP_init' \in BOOLEAN
  PROVE  BurntInv'
<1>1. 1 \in 1 .. PARTS + 1
  BY PartsAssumption
<1>2. CASE \E first \in {"read_version", "is_empty"} : Call(first)
  <2>1. TypeOK'
    BY <1>1, <1>2 DEF BurntInv, TypeOK, ChipTypeOK, Call
  <2>2. QED
    BY <1>2, <2>1, QuietBurnt DEF Call
<1>3. CASE Dies
  <2>1. TypeOK'
    BY <1>3, DiesTypes DEF BurntInv
  <2>2. QED
    BY <1>3, <2>1, QuietBurnt DEF Dies
<1>4. QED
  BY <1>2, <1>3

(* A part is burnt.                                                        *)
LEMMA PartBurnt ==
  ASSUME BurntInv, pc = "burn", at <= PARTS, BurnPart,
         pc' = IF backend = "amlogic" /\ at = PARTS THEN "verify" ELSE "burn",
         UNCHANGED <<version, OTP_init>>
  PROVE  BurntInv'
<1>1. /\ val \in Uuids /\ at \in Nat /\ 1 <= at /\ PARTS \in Nat
      /\ cell \in [Parts -> SUBSET Uuids]
      /\ \A p \in Parts : p < at => val \in cell[p]
  BY PartsAssumption DEF BurntInv, CallInv, TypeOK, ChipTypeOK
<1>2. cell' = [cell EXCEPT ![at] = @ \cup {val}]
      /\ at' = at + 1
      /\ UNCHANGED <<backend, val, fds, told>>
  BY DEF BurnPart
<1>3. /\ \A p \in Parts : cell[p] \subseteq cell'[p]
      /\ \A p \in Parts : p < at + 1 => val \in cell'[p]
  <2>1. ASSUME NEW p \in Parts
        PROVE  cell[p] \subseteq cell'[p] /\ (p < at + 1 => val \in cell'[p])
    <3>1. p \in Nat
      BY DEF Parts
    <3>2. CASE p = at
      <4>1. cell'[p] = cell[p] \cup {val}
        BY <1>1, <1>2, <3>2
      <4>2. QED
        BY <4>1
    <3>3. CASE p # at
      <4>1. cell'[p] = cell[p]
        BY <1>1, <1>2, <3>3
      <4>2. p < at + 1 => p < at
        BY <1>1, <3>1, <3>3
      <4>3. QED
        BY <1>1, <4>1, <4>2
    <3>4. QED
      BY <3>2, <3>3
  <2>2. QED
    BY <2>1
<1>4. TrueIsBurnt'
  BY <1>2, <1>3 DEF BurntInv, TrueIsBurnt, Parts
<1>5. TypeOK'
  BY <1>1, <1>2, BurnTypes DEF BurntInv, TypeOK, ChipTypeOK
<1>6. CallInv'
  <2>1. at = PARTS => \A p \in Parts : val \in cell'[p]
    BY <1>1, <1>3 DEF Parts
  <2>2. QED
    BY <1>1, <1>2, <1>3, <2>1 DEF CallInv, Parts
<1>7. QED
  BY <1>4, <1>5, <1>6 DEF BurntInv

(* BurntInv is inductive.                                                  *)
LEMMA BurntInvStep == BurntInv /\ [Next]_vars => BurntInv'
<1> SUFFICES ASSUME BurntInv, [Next]_vars PROVE BurntInv'
  OBVIOUS
<1>t. /\ fds \in 0 .. MAXFD /\ MAXFD \in Nat /\ version \in BOOLEAN /\ OTP_init \in BOOLEAN
      /\ at \in 1 .. PARTS + 1 /\ PARTS \in Nat /\ CallInv
  BY MaxFdAssumption, PartsAssumption DEF BurntInv, TypeOK, ChipTypeOK
<1>1. CASE Efuse
  <2>0. EfuseStep /\ UNCHANGED OTP_init
    BY <1>1 DEF Efuse
  <2>1. CASE EfuseSet
    BY <1>t, <2>0, <2>1, CallBurnt DEF EfuseSet
  <2>2. CASE EfuseReadVersion
    <3>1. \E next \in {"check", "write_version"} : Goto(next)
      BY <2>2 DEF EfuseReadVersion
    <3>2. QED
      BY <1>t, <2>0, <2>2, <3>1, GotoBurnt DEF EfuseReadVersion, CallInv
  <2>3. CASE EfuseWriteVersion
    BY <1>t, <2>0, <2>3, GotoBurnt DEF EfuseWriteVersion, CallInv
  <2>4. CASE EfuseCheck
    <3>1. Return(FALSE) \/ Goto("reopen")
      BY <2>4 DEF EfuseCheck
    <3>2. at = 1 /\ val \in Uuids /\ UNCHANGED <<cell, fds, version>>
      BY <1>t, <2>4 DEF EfuseCheck, CallInv
    <3>3. QED
      BY <1>t, <2>0, <3>1, <3>2, GotoBurnt, ReturnBurnt
  <2>5. CASE EfuseReopen
    <3>1. Return(FALSE) \/ Goto("burn")
      BY <2>5 DEF EfuseReopen
    <3>2. at = 1 /\ val \in Uuids /\ UNCHANGED <<cell, version>>
      BY <1>t, <2>5 DEF EfuseReopen, CallInv
    <3>3. fds' = fds \/ (fds < MAXFD /\ fds' = fds + 1)
      BY <2>5 DEF EfuseReopen, Opens
    <3>4. fds' \in 0 .. MAXFD
      BY <1>t, <3>3
    <3>5. QED
      BY <1>t, <2>0, <3>1, <3>2, <3>4, GotoBurnt, ReturnBurnt
  <2>6. CASE EfuseBurn
    BY <1>t, <2>0, <2>6, PartBurnt DEF EfuseBurn, CallInv
  <2>7. CASE EfuseBurnFails
    BY <1>t, <2>0, <2>7, ReturnBurnt DEF EfuseBurnFails
  <2>8. CASE EfuseVerify
    <3>1. val \in Uuids /\ \A p \in Parts : val \in cell[p]
      BY <1>t, <2>8 DEF EfuseVerify, CallInv
    <3>2. \E ok \in BOOLEAN : Return(ok)
      <4>1. Whole(val) \in BOOLEAN
        BY DEF Whole
      <4>2. QED
        BY <2>8, <4>1 DEF EfuseVerify
    <3>3. UNCHANGED <<cell, fds, version>>
      BY <2>8 DEF EfuseVerify
    <3>4. QED
      BY <1>t, <2>0, <3>1, <3>2, <3>3, ReturnBurnt
  <2>9. CASE EfuseGet
    <3>1. UNCHANGED <<backend, cell, pc, val, at, told, version>> /\ pc = "idle"
      BY <2>9 DEF EfuseGet
    <3>2. fds' \in 0 .. MAXFD
      BY <1>t, <2>9 DEF EfuseGet, Opens
    <3>3. TypeOK'
      BY <2>0, <3>1, <3>2 DEF BurntInv, TypeOK, ChipTypeOK
    <3>4. at' = 1
      BY <1>t, <3>1 DEF CallInv
    <3>5. QED
      BY <3>1, <3>3, <3>4, QuietBurnt
  <2>10. QED
    BY <2>0, <2>1, <2>2, <2>3, <2>4, <2>5, <2>6, <2>7, <2>8, <2>9 DEF EfuseStep
<1>2. CASE Mstar
  <2>0. MstarStep /\ UNCHANGED version
    BY <1>2 DEF Mstar
  <2>1. CASE MstarSet
    BY <1>t, <2>0, <2>1, CallBurnt DEF MstarSet
  <2>2. CASE MstarInit
    BY <1>t, <2>0, <2>2, GotoBurnt DEF MstarInit, CallInv
  <2>3. CASE MstarInitFails
    BY <1>t, <2>0, <2>3, CallBurnt DEF MstarInitFails
  <2>4. CASE MstarCheck
    <3>1. Return(FALSE) \/ Goto("burn")
      BY <2>4 DEF MstarCheck
    <3>2. at = 1 /\ val \in Uuids /\ UNCHANGED <<cell, fds, OTP_init>>
      BY <1>t, <2>4 DEF MstarCheck, CallInv
    <3>3. QED
      BY <1>t, <2>0, <3>1, <3>2, GotoBurnt, ReturnBurnt
  <2>5. CASE MstarBurn
    <3>1. CASE at <= PARTS
      BY <1>t, <2>0, <2>5, <3>1, PartBurnt DEF MstarBurn
    <3>2. CASE ~(at <= PARTS)
      <4>1. \A p \in Parts : p < at
        BY <1>t, <3>2 DEF Parts
      <4>2. val \in Uuids /\ \A p \in Parts : val \in cell[p]
        BY <1>t, <2>5, <4>1 DEF MstarBurn, CallInv
      <4>3. QED
        BY <1>t, <2>0, <2>5, <3>2, <4>2, ReturnBurnt DEF MstarBurn
    <3>3. QED
      BY <3>1, <3>2
  <2>6. CASE MstarGet
    <3>1. UNCHANGED <<backend, cell, pc, val, at, fds, told>> /\ OTP_init' = TRUE /\ pc = "idle"
      BY <2>6 DEF MstarGet, chipVars
    <3>2. TypeOK'
      BY <2>0, <3>1 DEF BurntInv, TypeOK, ChipTypeOK
    <3>3. at' = 1
      BY <1>t, <3>1 DEF CallInv
    <3>4. QED
      BY <3>1, <3>2, <3>3, QuietBurnt
  <2>7. QED
    BY <2>0, <2>1, <2>2, <2>3, <2>4, <2>5, <2>6 DEF MstarStep
<1>3. CASE Killed
  BY <1>3, CallBurnt DEF Killed
<1>4. CASE UNCHANGED vars
  <2>1. UNCHANGED <<backend, cell, pc, val, at, fds, told, version, OTP_init>>
    BY <1>4 DEF vars, chipVars
  <2>2. TypeOK'
    BY <2>1 DEF BurntInv, TypeOK, ChipTypeOK
  <2>3. CallInv' /\ TrueIsBurnt'
    BY <2>1 DEF BurntInv, CallInv, TrueIsBurnt, Parts
  <2>4. QED
    BY <2>2, <2>3 DEF BurntInv
<1>5. QED
  BY <1>1, <1>2, <1>3, <1>4 DEF Next

(* BurntInv holds in every state, whatever fails.                          *)
THEOREM BurntInvariant == Spec => []BurntInv
<1>1. Init => BurntInv
  BY ChipTypeInit DEF Init, ChipInit, BurntInv, CallInv, TrueIsBurnt
<1>2. QED
  BY <1>1, BurntInvStep, PTL DEF Spec

(* The state of a chip and of the call stays within its types: no call     *)
(* burns past the end of the UUID or holds more descriptors than there     *)
(* are.                                                                    *)
THEOREM ChipTypes == Spec => []TypeOK
<1>1. BurntInv => TypeOK
  BY DEF BurntInv
<1>2. QED
  BY <1>1, BurntInvariant, PTL

(* Whatever fails, an open() included: a UUID of which a call returned     *)
(* TRUE was burnt into every part of the chip.                             *)
THEOREM TrueBurnt == Spec => []TrueIsBurnt
<1>1. BurntInv => TrueIsBurnt
  BY DEF BurntInv
<1>2. QED
  BY <1>1, BurntInvariant, PTL

-----------------------------------------------------------------------------
(* Refinement: every step stores, spoils, reports, or stutters.            *)

(* The kinds of steps that OnceStore tells apart.                          *)
Quiet ==
  /\ UNCHANGED <<cell, told>>
  /\ pc' = "burn" => at' = 1 \/ UNCHANGED <<pc, val, at>>

Tells ==
  /\ val \in Uuids
  /\ Whole(val)
  /\ told' = told \cup {val}
  /\ pc' = "idle"
  /\ cell' = cell

Burns ==
  /\ pc = "burn"
  /\ at <= PARTS
  /\ Burning
  /\ BurnPart
  /\ pc' = "burn" \/ at = PARTS

(* The steps of emmc_amlogic.c are of these kinds.                         *)
LEMMA EfuseKinds == ChipInv /\ EfuseStep => Quiet \/ Tells \/ Burns
<1> SUFFICES ASSUME ChipInv, EfuseStep PROVE Quiet \/ Tells \/ Burns
  OBVIOUS
<1>s. StageInv /\ fds \in 0 .. MAXFD /\ MAXFD \in Nat
  BY MaxFdAssumption DEF ChipInv, TypeOK, ChipTypeOK
<1>1. CASE EfuseSet
  BY <1>1 DEF EfuseSet, Call, Quiet
<1>2. CASE EfuseReadVersion
  BY <1>2 DEF EfuseReadVersion, Goto, Quiet
<1>3. CASE EfuseWriteVersion
  BY <1>3 DEF EfuseWriteVersion, Goto, Quiet
<1>4. CASE EfuseCheck
  BY <1>4 DEF EfuseCheck, Goto, Return, Quiet
<1>5. CASE EfuseReopen
  <2>1. at = 1
    BY <1>s, <1>5 DEF StageInv, EfuseReopen
  <2>2. QED
    BY <1>5, <2>1 DEF EfuseReopen, Goto, Return, Quiet
<1>6. CASE EfuseBurn
  <2>1. at <= PARTS /\ (Burning \/ Exhausted)
    BY <1>s, <1>6 DEF StageInv, EfuseBurn
  <2>2. ~Exhausted
    BY <1>s, <1>6 DEF Exhausted, EfuseBurn, Opens
  <2>3. QED
    BY <1>6, <2>1, <2>2 DEF EfuseBurn, Burns
<1>7. CASE EfuseBurnFails
  BY <1>7 DEF EfuseBurnFails, Return, Quiet
<1>8. CASE EfuseVerify
  <2>1. Whole(val) /\ val \in Uuids
    BY <1>8, <1>s DEF EfuseVerify, StageInv
  <2>2. told' = told \cup {val} /\ pc' = "idle" /\ cell' = cell
    BY <1>8, <2>1 DEF EfuseVerify, Return
  <2>3. QED
    BY <2>1, <2>2 DEF Tells
<1>9. CASE EfuseGet
  BY <1>9 DEF EfuseGet, Quiet
<1>10. QED
  BY <1>1, <1>2, <1>3, <1>4, <1>5, <1>6, <1>7, <1>8, <1>9 DEF EfuseStep

(* So are the steps of emmc_msd6a801.c.                                    *)
LEMMA MstarKinds == ChipInv /\ MstarStep => Quiet \/ Tells \/ Burns
<1> SUFFICES ASSUME ChipInv, MstarStep PROVE Quiet \/ Tells \/ Burns
  OBVIOUS
<1>s. StageInv
  BY DEF ChipInv
<1>1. CASE MstarSet
  BY <1>1 DEF MstarSet, Call, Quiet
<1>2. CASE MstarInit
  BY <1>2 DEF MstarInit, Goto, Quiet
<1>3. CASE MstarInitFails
  BY <1>3 DEF MstarInitFails, Dies, Quiet
<1>4. CASE MstarCheck
  <2>1. at = 1
    BY <1>s, <1>4 DEF StageInv, MstarCheck
  <2>2. QED
    BY <1>4, <2>1 DEF MstarCheck, Goto, Return, Quiet
<1>5. CASE MstarBurn
  <2>1. Burning /\ val \in Uuids
    BY <1>s, <1>5 DEF StageInv, Exhausted, MstarBurn
  <2>2. CASE at <= PARTS
    BY <1>5, <2>1, <2>2 DEF MstarBurn, Burns
  <2>3. CASE ~(at <= PARTS)
    <3>1. \A p \in Parts : p < at
      BY <2>3, PartsAssumption DEF Parts, ChipInv, TypeOK, ChipTypeOK
    <3>2. Whole(val)
      BY <2>1, <3>1 DEF Burning, Whole
    <3>3. QED
      BY <1>5, <2>1, <2>3, <3>2 DEF MstarBurn, Return, Tells
  <2>4. QED
    BY <2>2, <2>3
<1>6. CASE MstarGet
  BY <1>6 DEF MstarGet, chipVars, Quiet
<1>7. QED
  BY <1>1, <1>2, <1>3, <1>4, <1>5, <1>6 DEF MstarStep

(* A chip that holds a UUID holds one only.                                *)
LEMMA WholeStored ==
  ASSUME NEW u \in Uuids, Whole(u)
  PROVE  Stored = u
<1>1. 1 \in Parts
  BY PartsAssumption DEF Parts
<1>2. \A v \in Uuids : Whole(v) => v = u
  BY <1>1 DEF Whole
<1>3. QED
  BY <1>2 DEF Stored

(* A quiet step may spoil a chip that was being burnt.                     *)
LEMMA QuietStored ==
  ASSUME Quiet
  PROVE  Stored' = Stored \/ (Stored = "blank" /\ Stored' = "spoilt")
<1>1. cell' = cell
  BY DEF Quiet
<1>2. CASE \E u \in Uuids : Whole(u)
  BY <1>1, <1>2 DEF Stored, Whole
<1>3. CASE ~\E u \in Uuids : Whole(u)
  <2>1. ~\E u \in Uuids : Whole(u)'
    BY <1>1, <1>3 DEF Whole
  <2>2. Blank' <=> Blank
    BY <1>1 DEF Blank
  <2>3. Burning' => Blank \/ Burning
    <3>1. Burning' /\ at' = 1 => Blank
      BY <1>1 DEF Burning, Blank, Parts
    <3>2. Burning' /\ UNCHANGED <<pc, val, at>> => Burning
      BY <1>1 DEF Burning
    <3>3. Burning' => pc' = "burn"
      BY DEF Burning
    <3>4. QED
      BY <3>1, <3>2, <3>3 DEF Quiet
  <2>4. Stored = IF Blank \/ Burning THEN "blank" ELSE "spoilt"
    BY <1>3 DEF Stored
  <2>5. Stored' = IF Blank' \/ Burning' THEN "blank" ELSE "spoilt"
    BY <2>1 DEF Stored
  <2>6. QED
    BY <2>2, <2>3, <2>4, <2>5
<1>4. QED
  BY <1>2, <1>3

(* Burning a part leaves the chip blank in the eyes of OnceStore, or is    *)
(* the step that stores the UUID.                                          *)
LEMMA BurnStored ==
  ASSUME ChipInv, Burns
  PROVE  Stored = "blank" /\ (Stored' = "blank" \/ Stored' \in Uuids)
<1>1. val \in Uuids /\ at \in Nat /\ PARTS \in Nat /\ at \in Parts /\ Burning
  BY PartsAssumption DEF Burns, ChipInv, StageInv, TypeOK, ChipTypeOK, Parts
<1>2. Stored = "blank"
  <2>1. cell[at] = {}
    BY <1>1 DEF Burning
  <2>2. ~\E u \in Uuids : Whole(u)
    BY <1>1, <2>1 DEF Whole
  <2>3. QED
    BY <1>1, <2>2 DEF Stored
<1>3. cell \in [Parts -> SUBSET Uuids]
  BY DEF ChipInv, TypeOK, ChipTypeOK
<1>4. cell' = [cell EXCEPT ![at] = @ \cup {val}] /\ at' = at + 1 /\ val' = val
  BY DEF Burns, BurnPart
<1>5. \A p \in Parts : cell'[p] = IF p < at + 1 THEN {val} ELSE {}
  <2> SUFFICES ASSUME NEW p \in Parts
               PROVE  cell'[p] = IF p < at + 1 THEN {val} ELSE {}
    OBVIOUS
  <2>1. cell[p] = IF p < at THEN {val} ELSE {}
    BY <1>1 DEF Burning
  <2>2. CASE p = at
    BY <1>1, <1>3, <1>4, <2>1, <2>2
  <2>3. CASE p # at
    <3>1. cell'[p] = cell[p]
      BY <1>3, <1>4, <2>3
    <3>2. p < at + 1 <=> p < at
      BY <1>1, <2>3 DEF Parts
    <3>3. QED
      BY <2>1, <3>1, <3>2
  <2>4. QED
    BY <2>2, <2>3
<1>6. CASE at = PARTS
  <2>1. Whole(val)'
    BY <1>1, <1>4, <1>5, <1>6 DEF Whole, Parts
  <2>2. (\E u \in Uuids : Whole(u))'
    BY <1>1, <1>4, <2>1
  <2>3. QED
    BY <1>2, <2>2 DEF Stored
<1>7. CASE at # PARTS
  <2>1. Burning'
    BY <1>4, <1>5, <1>7 DEF Burns, Burning, Parts
  <2>2. PARTS \in Parts /\ ~(PARTS < at + 1)
    BY <1>1, <1>7 DEF Parts
  <2>3. cell'[PARTS] = {}
    BY <1>5, <2>2
  <2>4. ~\E u \in Uuids : Whole(u)'
    BY <2>2, <2>3 DEF Whole
  <2>5. QED
    BY <1>2, <2>1, <2>4 DEF Stored
<1>8. QED
  BY <1>6, <1>7

(* A step of a kind is a step of OnceStore.                                *)
LEMMA KindsRefine ==
  ASSUME ChipInv, Quiet \/ Tells \/ Burns
  PROVE  [Store!Next]_(Store!storeVars)
<1>1. CASE Quiet
  <2>1. told' = told
    BY <1>1 DEF Quiet
  <2>2. QED
    BY <1>1, <2>1, QuietStored DEF Store!Next, Store!Spoil, Store!storeVars
<1>2. CASE Tells
  <2>1. val \in Uuids /\ Stored = val
    BY <1>2, WholeStored DEF Tells
  <2>2. Stored' = Stored
    BY <1>2, QuietStored DEF Tells, Quiet, Stored, Whole
  <2>3. Store!Report(val)
    BY <1>2, <2>1, <2>2 DEF Tells, Store!Report
  <2>4. QED
    BY <2>1, <2>3 DEF Store!Next
<1>3. CASE Burns
  <2>1. told' = told
    BY <1>3 DEF Burns, BurnPart
  <2>2. QED
    BY <1>3, <2>1, BurnStored DEF Store!Next, Store!Store, Store!storeVars
<1>4. QED
  BY <1>1, <1>2, <1>3

(* A step or a stutter of UuidOnce is a step or a stutter of OnceStore.    *)
LEMMA StepRefines == ChipInv /\ [Next]_vars => [Store!Next]_(Store!storeVars)
<1>1. Killed => Quiet
  BY DEF Killed, Dies, Quiet
<1>2. UNCHANGED vars => Quiet
  BY DEF vars, chipVars, Quiet
<1>3. ChipInv /\ [Next]_vars => Quiet \/ Tells \/ Burns
  BY <1>1, <1>2, EfuseKinds, MstarKinds DEF Next, Efuse, Mstar
<1>4. QED
  BY <1>3, KindsRefine

(* A blank chip is a blank store.                                          *)
LEMMA InitRefines == Init => Store!Init
<1> SUFFICES ASSUME Init PROVE Stored = "blank" /\ told = {}
  BY DEF Store!Init
<1>1. 1 \in Parts
  BY PartsAssumption DEF Parts
<1>2. Blank /\ cell[1] = {}
  BY <1>1 DEF Init, ChipInit, Blank
<1>3. ~\E u \in Uuids : Whole(u)
  BY <1>1, <1>2 DEF Whole
<1>4. QED
  BY <1>2, <1>3 DEF Stored, Init, ChipInit

(* Whatever fails, is killed or is called again, a chip that the two       *)
(* backends write holds the first UUID whole, or none for ever, and TRUE   *)
(* is only ever returned of the UUID that it holds.                        *)
THEOREM WritesOnce == Spec /\ StableOpens => StoreSpec
<1>1. ChipInv /\ [Next]_vars => [Store!Next]_(Store!storeVars)
  BY StepRefines
<1>2. QED
  BY <1>1, InitRefines, ChipInvariant, PTL DEF Spec, StoreSpec, Store!Spec
=============================================================================
