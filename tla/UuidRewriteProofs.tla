------------------------- MODULE UuidRewriteProofs --------------------------
(***************************************************************************)
(* What the backends that may set a UUID again promise, for any set of     *)
(* backends, of UUIDs and of failures, and any number of parts.            *)
(***************************************************************************)
EXTENDS UuidRewrite, TLAPS

(* The changes that the backends make to a medium.                         *)
LEMMA MediumUpdate ==
  ASSUME NEW m \in Media
  PROVE  /\ m.file \in BOOLEAN /\ m.flag \in BOOLEAN /\ m.cell \in [Parts -> SUBSET Uuids]
         /\ [m EXCEPT !.file = TRUE] \in Media
         /\ [m EXCEPT !.flag = TRUE] \in Media
         /\ \A c \in [Parts -> SUBSET Uuids] : [m EXCEPT !.cell = c] \in Media
  BY DEF Media

LEMMA EmptyMedium ==
  /\ Empty \in Media
  /\ Empty.file = FALSE /\ Empty.flag = FALSE
  /\ \A p \in Parts : Empty.cell[p] = {}
  BY DEF Empty, Media

(* All the parts of a UUID at once.                                        *)
LEMMA WholeMedium ==
  ASSUME NEW m \in Media, NEW u \in Uuids
  PROVE  /\ [m EXCEPT !.cell = [p \in Parts |-> {u}]] \in Media
         /\ Whole([m EXCEPT !.cell = [p \in Parts |-> {u}]], u)
<1>1. [p \in Parts |-> {u}] \in [Parts -> SUBSET Uuids]
  OBVIOUS
<1>2. QED
  BY <1>1 DEF Media, Whole

(* One part of it.                                                         *)
LEMMA PartWritten ==
  ASSUME seen \in Media, at \in 1 .. PARTS + 1, NEW new \in SUBSET Uuids, WritePart(new)
  PROVE  /\ at \in Parts /\ at' = at + 1 /\ at' \in 1 .. PARTS + 1
         /\ seen' \in Media /\ seen'.file = seen.file /\ seen'.flag = seen.flag
         /\ seen'.cell[at] = new
         /\ \A p \in Parts \ {at} : seen'.cell[p] = seen.cell[p]
         /\ pc = "write" /\ UNCHANGED <<backend, pc, val, cut, told>>
<1>1. /\ pc = "write" /\ at <= PARTS /\ at' = at + 1
      /\ UNCHANGED <<backend, pc, val, cut, told>>
      /\ seen' = [seen EXCEPT !.cell[at] = new]
  BY DEF WritePart
<1>2. at \in Parts /\ at' \in 1 .. PARTS + 1
  BY <1>1, PartsAssumption DEF Parts
<1>3. seen' = [seen EXCEPT !.cell = [seen.cell EXCEPT ![at] = new]]
  BY <1>1
<1>4. [seen.cell EXCEPT ![at] = new] \in [Parts -> SUBSET Uuids]
  BY <1>2 DEF Media
<1>5. /\ seen' \in Media /\ seen'.file = seen.file /\ seen'.flag = seen.flag
      /\ seen'.cell = [seen.cell EXCEPT ![at] = new]
  BY <1>3, <1>4 DEF Media
<1>6. QED
  BY <1>1, <1>2, <1>5 DEF Media

-----------------------------------------------------------------------------
(* The types of what a call has in its own variables.                      *)
Pcs == {"idle", "open", "flag", "read", "write", "remove", "check", "save", "sync"}

ControlTypes ==
  /\ backend \in Backends
  /\ pc \in Pcs
  /\ val \in Uuids \cup {NoUuid}
  /\ at \in 1 .. PARTS + 1
  /\ told \in Uuids \cup {NoUuid}

StoreTypes == seen \in Media /\ disk \in Media /\ cut \in BOOLEAN

LEMMA SplitTypes == MediumTypeOK <=> ControlTypes /\ StoreTypes
  BY DEF MediumTypeOK, ControlTypes, StoreTypes, Pcs

LEMMA GotoTypes ==
  ASSUME ControlTypes, NEW s \in Pcs, Goto(s)
  PROVE  ControlTypes'
  BY DEF ControlTypes, Goto

LEMMA ReturnTypes ==
  ASSUME ControlTypes, NEW ok, Return(ok)
  PROVE  ControlTypes'
<1>1. 1 \in 1 .. PARTS + 1
  BY PartsAssumption
<1>2. told' \in {val, NoUuid}
  BY DEF Return
<1>3. QED
  BY <1>1, <1>2 DEF ControlTypes, Return, Pcs

LEMMA WritePartTypes ==
  ASSUME ControlTypes, StoreTypes, NEW new \in SUBSET Uuids, WritePart(new)
  PROVE  ControlTypes' /\ seen' \in Media /\ cut' \in BOOLEAN
  BY PartWritten DEF ControlTypes, StoreTypes

(* The backends in a file or on a block device keep the types.             *)
LEMMA FilesTypes ==
  ASSUME ControlTypes, StoreTypes, pc # "idle" => val \in Uuids, FilesStep
  PROVE  ControlTypes' /\ StoreTypes'
<1>1. /\ seen \in Media /\ disk \in Media /\ cut \in BOOLEAN /\ Empty \in Media
      /\ [seen EXCEPT !.file = TRUE] \in Media /\ [seen EXCEPT !.flag = TRUE] \in Media
      /\ [Empty EXCEPT !.file = TRUE] \in Media
  BY EmptyMedium, MediumUpdate DEF StoreTypes
<1>2. WritePart({val}) => ControlTypes' /\ seen' \in Media /\ cut' \in BOOLEAN
  <2>1. SUFFICES ASSUME WritePart({val})
                 PROVE  ControlTypes' /\ seen' \in Media /\ cut' \in BOOLEAN
    OBVIOUS
  <2>2. {val} \in SUBSET Uuids
    BY <2>1 DEF WritePart
  <2>3. QED
    BY <2>1, <2>2, WritePartTypes
<1>3. \A s \in Pcs : Goto(s) => ControlTypes'
  BY GotoTypes
<1>4. \A ok \in BOOLEAN : Return(ok) => ControlTypes'
  BY ReturnTypes
<1>5. CASE RtdOpen
  BY <1>1, <1>3, <1>5 DEF RtdOpen, StoreTypes, Pcs
<1>6. CASE RtdFlag
  BY <1>1, <1>3, <1>4, <1>6 DEF RtdFlag, StoreTypes, Pcs
<1>7. CASE RtdWrite
  BY <1>1, <1>2, <1>3, <1>4, <1>7 DEF RtdWrite, Written, Short, StoreTypes, Pcs
<1>8. CASE RtdSave \/ RtdReturn
  BY <1>1, <1>3, <1>4, <1>8 DEF RtdSave, RtdReturn, StoreTypes, Pcs
<1>9. CASE DevIoOpen
  BY <1>1, <1>3, <1>9 DEF DevIoOpen, StoreTypes, Pcs
<1>10. CASE DevIoWrite
  BY <1>1, <1>2, <1>3, <1>4, <1>10 DEF DevIoWrite, Written, Short, StoreTypes, Pcs
<1>11. CASE DevIoCheck
  BY <1>1, <1>4, <1>11 DEF DevIoCheck, StoreTypes
<1>12. CASE BgOpen
  BY <1>1, <1>3, <1>12 DEF BgOpen, StoreTypes, Pcs
<1>13. CASE BgWrite
  BY <1>1, <1>2, <1>3, <1>4, <1>13 DEF BgWrite, Written, Short, StoreTypes, Pcs
<1>14. CASE BgRemove
  BY <1>1, <1>4, <1>14 DEF BgRemove, StoreTypes
<1>15. CASE SamsungOpen
  BY <1>1, <1>3, <1>15 DEF SamsungOpen, StoreTypes, Pcs
<1>16. CASE SamsungWrite
  BY <1>1, <1>2, <1>4, <1>16 DEF SamsungWrite, Written, Short, StoreTypes
<1>17. CASE Writeback
  BY <1>1, <1>17 DEF Writeback, StoreTypes, ControlTypes
<1>18. QED
  BY <1>5, <1>6, <1>7, <1>8, <1>9, <1>10, <1>11, <1>12, <1>13, <1>14, <1>15, <1>16, <1>17
  DEF FilesStep

(* The drivers, and the backends of one step.                              *)
LEMMA DriversTypes ==
  ASSUME ControlTypes, StoreTypes, pc # "idle" => val \in Uuids, DriversStep \/ SimpleStep
  PROVE  ControlTypes' /\ StoreTypes'
<1>1. seen \in Media /\ disk \in Media /\ cut \in BOOLEAN /\ Empty \in Media
  BY EmptyMedium DEF StoreTypes
<1>2. /\ WritePart({val}) => ControlTypes' /\ seen' \in Media /\ cut' \in BOOLEAN
      /\ at <= PARTS /\ WritePart(seen.cell[at] \cup {val}) =>
           ControlTypes' /\ seen' \in Media /\ cut' \in BOOLEAN
  <2>1. SUFFICES ASSUME NEW new, new = {val} \/ (at <= PARTS /\ new = seen.cell[at] \cup {val}),
                        WritePart(new)
                 PROVE  ControlTypes' /\ seen' \in Media /\ cut' \in BOOLEAN
    OBVIOUS
  <2>2. val \in Uuids
    BY <2>1 DEF WritePart
  <2>3. at <= PARTS => at \in Parts
    BY PartsAssumption DEF ControlTypes, Parts
  <2>4. new \in SUBSET Uuids
    BY <1>1, <2>1, <2>2, <2>3, MediumUpdate
  <2>5. QED
    BY <2>1, <2>4, WritePartTypes
<1>3. \A s \in Pcs : Goto(s) => ControlTypes'
  BY GotoTypes
<1>4. \A ok \in BOOLEAN : Return(ok) => ControlTypes'
  BY ReturnTypes
<1>5. pc # "idle" =>
        /\ [seen EXCEPT !.cell = [p \in Parts |-> {val}]] \in Media
        /\ [Empty EXCEPT !.cell = [p \in Parts |-> {val}]] \in Media
  BY <1>1, WholeMedium
<1>6. CASE HisiOpen
  BY <1>1, <1>3, <1>6 DEF HisiOpen, StoreTypes, Pcs
<1>7. CASE HisiWrite
  BY <1>1, <1>2, <1>4, <1>7 DEF HisiWrite, Written, Short, StoreTypes
<1>8. CASE DriverOpen
  BY <1>1, <1>3, <1>8 DEF DriverOpen, StoreTypes, Pcs
<1>9. CASE DriverWrite
  <2>1. (at > 1) \in BOOLEAN
    OBVIOUS
  <2>2. Return(at > 1) => ControlTypes'
    BY ReturnTypes
  <2>3. QED
    BY <1>1, <1>2, <1>4, <1>9, <2>2 DEF DriverWrite, Written, Short, StoreTypes
<1>10. CASE EnvPut
  BY <1>1, <1>3, <1>5, <1>10 DEF EnvPut, StoreTypes, Pcs
<1>11. CASE EnvCommit
  BY <1>1, <1>4, <1>11 DEF EnvCommit, StoreTypes
<1>12. CASE VendorSet
  BY <1>1, <1>4, <1>5, <1>12 DEF VendorSet, WholeOf, StoreTypes
<1>13. CASE ZoneSet
  BY <1>1, <1>4, <1>5, <1>13 DEF ZoneSet, WholeOf, StoreTypes
<1>14. CASE DefaultSet
  BY <1>1, <1>4, <1>14 DEF DefaultSet, StoreTypes
<1>15. QED
  BY <1>6, <1>7, <1>8, <1>9, <1>10, <1>11, <1>12, <1>13, <1>14 DEF DriversStep, SimpleStep

(* nvram_mt6589.c.                                                         *)
LEMMA NvramTypes ==
  ASSUME ControlTypes, StoreTypes, NvramTypeOK, pc # "idle" => val \in Uuids, NvramStep
  PROVE  ControlTypes' /\ StoreTypes' /\ NvramTypeOK'
<1>1. seen \in Media /\ disk \in Media /\ cut \in BOOLEAN
  BY DEF StoreTypes
<1>2. /\ ready \in BOOLEAN /\ tries \in 0 .. MAX_RETRY_COUNT /\ image \in 0 .. CHANGES
      /\ rest \in [{"seen", "disk"} -> 0 .. CHANGES] /\ wrote \in 0 .. CHANGES
      /\ raced \in BOOLEAN
      /\ 0 \in 0 .. MAX_RETRY_COUNT
      /\ rest["seen"] \in 0 .. CHANGES /\ rest["disk"] \in 0 .. CHANGES
  BY RetryAssumption DEF NvramTypeOK
<1>3. \A n \in 0 .. CHANGES :
        /\ [rest EXCEPT !["seen"] = n] \in [{"seen", "disk"} -> 0 .. CHANGES]
        /\ [rest EXCEPT !["disk"] = n] \in [{"seen", "disk"} -> 0 .. CHANGES]
  BY <1>2
<1>4. WritePart({val}) => ControlTypes' /\ seen' \in Media /\ cut' \in BOOLEAN
  <2>1. SUFFICES ASSUME WritePart({val})
                 PROVE  ControlTypes' /\ seen' \in Media /\ cut' \in BOOLEAN
    OBVIOUS
  <2>2. {val} \in SUBSET Uuids
    BY <2>1 DEF WritePart
  <2>3. QED
    BY <2>1, <2>2, WritePartTypes
<1>5. \A s \in Pcs : Goto(s) => ControlTypes'
  BY GotoTypes
<1>6. \A ok \in BOOLEAN : Return(ok) => ControlTypes'
  BY ReturnTypes
<1>7. CASE PollNotReady
  <2>1. tries + 1 \in 0 .. MAX_RETRY_COUNT
    BY <1>2, <1>7, RetryAssumption DEF PollNotReady
  <2>2. QED
    BY <1>1, <1>2, <1>7, <2>1
    DEF PollNotReady, mediumVars, ControlTypes, StoreTypes, NvramTypeOK
<1>8. CASE PollReady
  BY <1>1, <1>2, <1>5, <1>8 DEF PollReady, StoreTypes, NvramTypeOK, Pcs
<1>9. CASE RetriesSpent
  BY <1>1, <1>2, <1>6, <1>9 DEF RetriesSpent, StoreTypes, NvramTypeOK
<1>10. CASE ReadRecord
  BY <1>1, <1>2, <1>5, <1>6, <1>10 DEF ReadRecord, StoreTypes, NvramTypeOK, Pcs
<1>11. CASE WriteRecord
  <2>1. ControlTypes' /\ StoreTypes'
    BY <1>1, <1>4, <1>6, <1>11 DEF WriteRecord, Written, Short, StoreTypes
  <2>2. rest' \in [{"seen", "disk"} -> 0 .. CHANGES]
    BY <1>2, <1>3, <1>11 DEF WriteRecord
  <2>3. QED
    BY <1>2, <1>11, <2>1, <2>2 DEF WriteRecord, NvramTypeOK
<1>12. CASE DaemonReady
  BY <1>1, <1>2, <1>12 DEF DaemonReady, mediumVars, ControlTypes, StoreTypes, NvramTypeOK
<1>13. CASE OtherWrites
  <2>1. wrote + 1 \in 0 .. CHANGES
    BY <1>2, <1>13, ChangesAssumption DEF OtherWrites
  <2>2. ControlTypes' /\ StoreTypes'
    BY <1>13 DEF OtherWrites, mediumVars, ControlTypes, StoreTypes
  <2>3. rest' \in [{"seen", "disk"} -> 0 .. CHANGES] /\ wrote' \in 0 .. CHANGES
    BY <1>3, <1>13, <2>1 DEF OtherWrites
  <2>4. QED
    BY <1>2, <1>13, <2>2, <2>3 DEF OtherWrites, NvramTypeOK
<1>14. CASE RecordWriteback
  <2>1. rest' \in [{"seen", "disk"} -> 0 .. CHANGES]
    BY <1>2, <1>3, <1>14 DEF RecordWriteback
  <2>2. QED
    BY <1>1, <1>2, <1>14, <2>1
    DEF RecordWriteback, ControlTypes, StoreTypes, NvramTypeOK
<1>15. QED
  BY <1>7, <1>8, <1>9, <1>10, <1>11, <1>12, <1>13, <1>14 DEF NvramStep

-----------------------------------------------------------------------------
(* Which step belongs to which backend, and what a call that is under way  *)
(* has in hand.                                                            *)
Writers == {"rtd1815", "dev_io", "marvell_bg2", "samsung", "hisi", "hisi3718", "gs702", "mt6589"}

Fits ==
  /\ pc # "idle" => val \in Uuids /\ told = NoUuid
  /\ pc \in {"idle", "open", "flag", "read"} => at = 1
  /\ pc = "flag" => backend = "rtd1815"
  /\ pc = "read" => backend = "mt6589"
  /\ pc = "write" => backend \in Writers
  /\ pc = "remove" => backend = "marvell_bg2"
  /\ pc = "check" => backend = "dev_io"
  /\ pc = "save" => backend \in {"rtd1815", "infotm"}
  /\ pc = "sync" => backend = "rtd1815"

LEMMA FitsKept ==
  ASSUME Fits, [Next]_vars
  PROVE  Fits'
<1> USE DEF Fits, Writers, Goto, Return, Written, Short
<1>1. CASE Set \/ OpenFails
  BY <1>1 DEF Set, OpenFails
<1>2. CASE RtdOpen \/ RtdFlag \/ RtdWrite \/ RtdSave \/ RtdReturn
  BY <1>2 DEF RtdOpen, RtdFlag, RtdWrite, RtdSave, RtdReturn, WritePart
<1>3. CASE DevIoOpen \/ DevIoWrite \/ DevIoCheck
  BY <1>3 DEF DevIoOpen, DevIoWrite, DevIoCheck, WritePart
<1>4. CASE BgOpen \/ BgWrite \/ BgRemove \/ SamsungOpen \/ SamsungWrite \/ Writeback
  BY <1>4 DEF BgOpen, BgWrite, BgRemove, SamsungOpen, SamsungWrite, Writeback, WritePart
<1>5. CASE HisiOpen \/ HisiWrite \/ DriverOpen \/ DriverWrite \/ EnvPut \/ EnvCommit
  BY <1>5 DEF HisiOpen, HisiWrite, DriverOpen, DriverWrite, EnvPut, EnvCommit, WritePart
<1>6. CASE SimpleStep
  BY <1>6 DEF SimpleStep, VendorSet, ZoneSet, DefaultSet
<1>7. CASE PollNotReady \/ PollReady \/ RetriesSpent \/ ReadRecord
  BY <1>7 DEF PollNotReady, PollReady, RetriesSpent, ReadRecord, mediumVars, Mt6589
<1>8. CASE WriteRecord
  BY <1>8 DEF WriteRecord, WritePart, Mt6589
<1>9. CASE DaemonReady \/ OtherWrites \/ RecordWriteback
  BY <1>9 DEF DaemonReady, OtherWrites, RecordWriteback, mediumVars
<1>10. CASE Killed \/ PowerCut \/ UNCHANGED vars
  BY <1>10 DEF Killed, PowerCut, vars, mediumVars
<1>11. QED
  BY <1>1, <1>2, <1>3, <1>4, <1>5, <1>6, <1>7, <1>8, <1>9, <1>10
  DEF Next, Step, FilesStep, DriversStep, NvramStep

LEMMA FirstInit == Init => TypeOK /\ Fits
<1> SUFFICES ASSUME Init PROVE TypeOK /\ Fits
  OBVIOUS
<1>1. MediumTypeOK
  <2>1. 1 \in 1 .. PARTS + 1
    BY PartsAssumption
  <2>2. QED
    BY <2>1, EmptyMedium DEF Init, MediumInit, MediumTypeOK
<1>2. NvramTypeOK
  <2>1. 0 \in 0 .. MAX_RETRY_COUNT /\ 0 \in 0 .. CHANGES
    BY RetryAssumption, ChangesAssumption
  <2>2. QED
    BY <2>1 DEF Init, NvramInit, NvramTypeOK
<1>3. Fits
  BY DEF Init, MediumInit, Fits
<1>4. QED
  BY <1>1, <1>2, <1>3 DEF TypeOK

LEMMA TypesKept ==
  ASSUME TypeOK, Fits, [Next]_vars
  PROVE  TypeOK'
<1>1. /\ ControlTypes /\ StoreTypes /\ NvramTypeOK
      /\ pc # "idle" => val \in Uuids
  BY SplitTypes DEF TypeOK, Fits
<1>2. SUFFICES ControlTypes' /\ StoreTypes' /\ NvramTypeOK'
  BY DEF TypeOK, MediumTypeOK, ControlTypes, StoreTypes, Pcs
<1>3. CASE Step
  <2>1. NvramTypeOK'
    BY <1>1, <1>3 DEF Step, nvramVars, NvramTypeOK
  <2>2. CASE Set
    <3>1. 1 \in 1 .. PARTS + 1
      BY PartsAssumption
    <3>2. QED
      BY <1>1, <2>1, <2>2, <3>1 DEF Set, ControlTypes, StoreTypes, Pcs
  <2>3. CASE OpenFails
    BY <1>1, <2>1, <2>3, ReturnTypes DEF OpenFails, StoreTypes
  <2>4. CASE FilesStep
    BY <1>1, <2>1, <2>4, FilesTypes
  <2>5. CASE DriversStep \/ SimpleStep
    BY <1>1, <2>1, <2>5, DriversTypes
  <2>6. QED
    BY <1>3, <2>2, <2>3, <2>4, <2>5 DEF Step
<1>4. CASE NvramStep
  BY <1>1, <1>4, NvramTypes
<1>5. CASE Killed /\ NvramKilled
  <2>1. ControlTypes' /\ StoreTypes'
    BY <1>1, <1>5, EmptyMedium, PartsAssumption
    DEF Killed, ControlTypes, StoreTypes, Pcs
  <2>2. NvramTypeOK'
    BY <1>1, <1>5, RetryAssumption, ChangesAssumption DEF NvramKilled, NvramTypeOK
  <2>3. QED
    BY <2>1, <2>2
<1>6. CASE PowerCut /\ NvramPowerCut
  <2>1. ControlTypes' /\ StoreTypes'
    <3>1. 1 \in 1 .. PARTS + 1
      BY PartsAssumption
    <3>2. QED
      BY <1>1, <1>6, <3>1 DEF PowerCut, ControlTypes, StoreTypes, Pcs
  <2>2. NvramTypeOK'
    <3>1. /\ rest["disk"] \in 0 .. CHANGES
          /\ 0 \in 0 .. CHANGES /\ 0 \in 0 .. MAX_RETRY_COUNT
      BY <1>1, RetryAssumption, ChangesAssumption DEF NvramTypeOK
    <3>2. rest' \in [{"seen", "disk"} -> 0 .. CHANGES]
      BY <1>1, <1>6, <3>1 DEF NvramPowerCut, NvramTypeOK
    <3>3. QED
      BY <1>6, <3>1, <3>2 DEF NvramPowerCut, NvramTypeOK
  <2>3. QED
    BY <2>1, <2>2
<1>7. CASE UNCHANGED vars
  BY <1>1, <1>7 DEF vars, mediumVars, nvramVars, ControlTypes, StoreTypes, NvramTypeOK
<1>8. QED
  BY <1>3, <1>4, <1>5, <1>6, <1>7 DEF Next

(* Every variable stays within its type.                                   *)
THEOREM TypesOfRewrite == Spec => []TypeOK
<1>1. TypeOK /\ Fits /\ [Next]_vars => TypeOK' /\ Fits'
  BY TypesKept, FitsKept
<1>2. QED
  BY <1>1, FirstInit, PTL DEF Spec

-----------------------------------------------------------------------------
(* emmc_dev_io.c: the file, the one in the cache and the one on the disk,  *)
(* holds parts of one UUID, and of the one being written while there is    *)
(* one.                                                                    *)
OneUuid(m) == \A p, q \in Parts : \A u \in m.cell[p], w \in m.cell[q] : u = w

MixInv ==
  backend = "dev_io" =>
    /\ OneUuid(seen) /\ OneUuid(disk)
    /\ pc = "write" => \A p \in Parts : seen.cell[p] \subseteq {val}

LEMMA MixInvKept ==
  ASSUME TypeOK, Fits, MixInv, [Next]_vars
  PROVE  MixInv'
<1>1. backend' = backend
  BY DEF Next, vars, mediumVars, Step, Set, OpenFails, FilesStep, DriversStep, SimpleStep,
         NvramStep, Killed, PowerCut, Goto, Return, WritePart, RtdOpen, RtdFlag, RtdWrite,
         RtdSave, RtdReturn, DevIoOpen, DevIoWrite, DevIoCheck, BgOpen, BgWrite, BgRemove, SamsungOpen,
         SamsungWrite, Writeback, HisiOpen, HisiWrite, DriverOpen, DriverWrite, EnvPut,
         EnvCommit, VendorSet, ZoneSet, DefaultSet, PollNotReady, PollReady, RetriesSpent,
         ReadRecord, WriteRecord, DaemonReady, OtherWrites, RecordWriteback
<1>2. SUFFICES ASSUME backend = "dev_io"
               PROVE  /\ OneUuid(seen)' /\ OneUuid(disk)'
                      /\ pc' = "write" => \A p \in Parts : seen'.cell[p] \subseteq {val'}
  BY <1>1 DEF MixInv
<1>3. /\ OneUuid(seen) /\ OneUuid(disk)
      /\ pc = "write" => \A p \in Parts : seen.cell[p] \subseteq {val}
  BY <1>2 DEF MixInv
<1>4. CASE /\ seen' \in {seen, disk} /\ disk' \in {seen, disk}
           /\ pc' = "write" => UNCHANGED <<pc, val, seen>>
  BY <1>3, <1>4 DEF OneUuid
<1>5. CASE DevIoOpen
  <2>1. seen' = [Empty EXCEPT !.file = TRUE] /\ disk' = disk
    BY <1>5 DEF DevIoOpen
  <2>2. \A p \in Parts : seen'.cell[p] = {}
    BY <2>1, EmptyMedium DEF Empty
  <2>3. QED
    BY <1>3, <2>1, <2>2 DEF OneUuid
<1>6. CASE DevIoWrite
  <2>1. CASE WritePart({val}) /\ UNCHANGED disk
    <3>1. /\ at \in Parts /\ seen'.cell[at] = {val} /\ pc = "write"
          /\ \A p \in Parts \ {at} : seen'.cell[p] = seen.cell[p]
          /\ val' = val
      <4>1. {val} \in SUBSET Uuids
        BY <2>1 DEF WritePart, Fits
      <4>2. QED
        BY <2>1, <4>1, PartWritten DEF TypeOK, MediumTypeOK
    <3>2. \A p \in Parts : seen'.cell[p] \subseteq {val}
      BY <1>3, <3>1
    <3>3. QED
      BY <1>3, <2>1, <3>1, <3>2 DEF OneUuid
  <2>2. CASE (Written \/ Short) /\ (Goto("check") \/ Return(FALSE))
    BY <1>4, <2>2 DEF Written, Short, Goto, Return
  <2>3. QED
    BY <1>6, <2>1, <2>2 DEF DevIoWrite
<1>7. CASE Set \/ OpenFails \/ DevIoCheck \/ Writeback \/ Killed \/ PowerCut \/ UNCHANGED vars
  BY <1>2, <1>4, <1>7 DEF Set, OpenFails, DevIoCheck, Writeback, Killed, PowerCut, Return, vars,
                          mediumVars, InProcess
<1>8. ~RtdFlag /\ ~BgRemove /\ ~RtdReturn
  BY <1>2 DEF Fits, RtdFlag, BgRemove, RtdReturn
<1>9. QED
  BY <1>2, <1>5, <1>6, <1>7, <1>8
  DEF Next, Step, FilesStep, DriversStep, SimpleStep, NvramStep, RtdOpen, RtdWrite, RtdSave,
      BgOpen, BgWrite, SamsungOpen, SamsungWrite, HisiOpen, HisiWrite, DriverOpen, DriverWrite,
      EnvPut, EnvCommit, VendorSet, ZoneSet, DefaultSet, PollNotReady, PollReady, RetriesSpent,
      ReadRecord, WriteRecord, DaemonReady, OtherWrites, RecordWriteback, Mt6589

(* The file of emmc_dev_io.c never mixes two UUIDs.                        *)
THEOREM FileNeverMixed == Spec => []NeverMixed
<1>1. Init => MixInv
  BY EmptyMedium DEF Init, MediumInit, MixInv, OneUuid
<1>2. TypeOK /\ Fits /\ MixInv /\ [Next]_vars => TypeOK' /\ Fits' /\ MixInv'
  BY TypesKept, FitsKept, MixInvKept
<1>3. MixInv => NeverMixed
  BY DEF MixInv, NeverMixed, OneUuid
<1>4. QED
  BY <1>1, <1>2, <1>3, FirstInit, PTL DEF Spec

-----------------------------------------------------------------------------
(* nvram_mt6589.c: what the call has of the record is what the record has, *)
(* unless another program changed it in between.                           *)
RestInv ==
  /\ Mt6589 /\ pc \in {"read", "write"} => ready
  /\ ~raced => rest["seen"] = wrote
  /\ Mt6589 /\ pc = "write" /\ at = 1 /\ ~raced => image = wrote

LEMMA RestInvKept ==
  ASSUME TypeOK, Fits, RestInv, [Next]_vars
  PROVE  RestInv'
<1>1. /\ rest \in [{"seen", "disk"} -> 0 .. CHANGES] /\ at \in 1 .. PARTS + 1
      /\ wrote \in 0 .. CHANGES
  BY DEF TypeOK, MediumTypeOK, NvramTypeOK
<1> USE DEF Mt6589
<1>2. CASE Step
  <2>1. UNCHANGED <<ready, tries, image, rest, wrote, raced>>
    BY <1>2 DEF Step, nvramVars
  <2>2. backend = "mt6589" => Set
    BY <1>2 DEF Step, OpenFails, NoOpen, FilesStep, DriversStep, SimpleStep, RtdOpen, RtdFlag,
                RtdWrite, RtdSave, RtdReturn, DevIoOpen, DevIoWrite, DevIoCheck, BgOpen, BgWrite, BgRemove,
                SamsungOpen, SamsungWrite, Writeback, HisiOpen, HisiWrite, DriverOpen,
                DriverWrite, EnvPut, EnvCommit, VendorSet, ZoneSet, DefaultSet, Fits
  <2>3. backend' = backend
    BY <1>2 DEF Step, Set, OpenFails, FilesStep, DriversStep, SimpleStep, Goto, Return,
                WritePart, RtdOpen, RtdFlag, RtdWrite, RtdSave, RtdReturn, DevIoOpen, DevIoWrite,
                DevIoCheck, BgOpen, BgWrite, BgRemove, SamsungOpen, SamsungWrite, Writeback,
                HisiOpen, HisiWrite, DriverOpen, DriverWrite, EnvPut, EnvCommit, VendorSet,
                ZoneSet, DefaultSet
  <2>4. backend = "mt6589" => pc' = "open"
    BY <2>2 DEF Set
  <2>5. QED
    BY <2>1, <2>3, <2>4 DEF RestInv
<1>3. CASE PollNotReady \/ PollReady \/ RetriesSpent
  BY <1>3 DEF PollNotReady, PollReady, RetriesSpent, Goto, Return, mediumVars, RestInv
<1>4. CASE ReadRecord
  BY <1>4 DEF ReadRecord, Goto, Return, RestInv
<1>5. CASE WriteRecord
  <2>1. CASE WritePart({val})
    <3>1. /\ pc = "write" /\ pc' = "write" /\ at' = at + 1
          /\ rest' = IF at = 1 THEN [rest EXCEPT !["seen"] = image] ELSE rest
          /\ UNCHANGED <<backend, ready, image, wrote, raced>>
      BY <1>1, <1>5, <2>1 DEF WriteRecord, WritePart, Written, Short, Return
    <3>2. at' # 1
      BY <1>1, <3>1, PartsAssumption
    <3>3. ~raced => rest'["seen"] = wrote
      BY <1>1, <1>5, <3>1 DEF WriteRecord, RestInv
    <3>4. QED
      BY <1>5, <3>1, <3>2, <3>3 DEF WriteRecord, RestInv
  <2>2. CASE ~WritePart({val})
    BY <1>5, <2>2 DEF WriteRecord, Return, RestInv
  <2>3. QED
    BY <2>1, <2>2
<1>6. CASE DaemonReady
  BY <1>6 DEF DaemonReady, mediumVars, RestInv
<1>7. CASE OtherWrites
  <2>1. rest'["seen"] = wrote'
    BY <1>1, <1>7 DEF OtherWrites
  <2>2. QED
    BY <1>7, <2>1 DEF OtherWrites, mediumVars, RestInv
<1>8. CASE RecordWriteback
  BY <1>1, <1>8 DEF RecordWriteback, RestInv
<1>9. CASE Killed /\ NvramKilled
  BY <1>9 DEF Killed, NvramKilled, RestInv
<1>10. CASE PowerCut /\ NvramPowerCut
  BY <1>1, <1>10 DEF PowerCut, NvramPowerCut, RestInv
<1>11. CASE UNCHANGED vars
  BY <1>11 DEF vars, mediumVars, nvramVars, RestInv
<1>12. QED
  BY <1>2, <1>3, <1>4, <1>5, <1>6, <1>7, <1>8, <1>9, <1>10, <1>11 DEF Next, NvramStep

(* The record is touched only when the NVRAM is Ready, and a change that   *)
(* another program made is lost only if it came between the read and the   *)
(* write of a call.                                                        *)
THEOREM RecordKept == Spec => []RestKept
<1>1. Init => RestInv
  BY DEF Init, MediumInit, NvramInit, RestInv
<1>2. TypeOK /\ Fits /\ RestInv /\ [Next]_vars => TypeOK' /\ Fits' /\ RestInv'
  BY TypesKept, FitsKept, RestInvKept
<1>3. RestInv => RestKept
  BY DEF RestInv, RestKept
<1>4. QED
  BY <1>1, <1>2, <1>3, FirstInit, PTL DEF Spec

-----------------------------------------------------------------------------
(* How far the UUID of a call, or the one of which TRUE was returned, has  *)
(* come into the medium: a burnt part holds it among others, any other     *)
(* part holds it alone.                                                    *)
Has(p, u) == IF backend = "hisi" THEN u \in seen.cell[p] ELSE seen.cell[p] = {u}

Marked ==
  /\ backend \in {"rtd1815", "dev_io", "marvell_bg2"} => seen.file
  /\ backend = "rtd1815" => seen.flag

Holds(u) ==
  /\ \A p \in Parts : Has(p, u)
  /\ Marked
  /\ backend = "mt6589" => ready
  /\ backend # "default"

Stored ==
  /\ pc = "flag" => seen.file
  /\ pc = "write" => Marked /\ \A p \in Parts : p < at => Has(p, val)
  /\ pc = "save" /\ (backend = "rtd1815" \/ ~cut) => Holds(val)
  /\ pc = "sync" => Holds(val)
  /\ pc = "check" /\ ~cut => Holds(val)
  /\ told # NoUuid /\ (backend \in Careful \/ ~cut) => Holds(told)

(* A step that leaves what is seen as it is, or returns FALSE.             *)
LEMMA StoredSame ==
  ASSUME Stored, UNCHANGED <<backend, seen>>, ready => ready',
         \/ pc' = "idle" /\ told' = NoUuid
         \/ pc' = "open" /\ told' = NoUuid
         \/ pc' = "idle" /\ UNCHANGED <<told, cut>>
         \/ UNCHANGED <<pc, val, at, cut, told>>
  PROVE  Stored'
<1>1. \A p \in Parts : \A u \in Uuids \cup {NoUuid} : Has(p, u)' <=> Has(p, u)
  BY DEF Has
<1>2. \A u \in Uuids \cup {NoUuid} : Holds(u) => Holds(u)'
  BY DEF Holds, Has, Marked
<1>3. Marked' <=> Marked
  BY DEF Marked
<1>4. CASE pc' = "idle" /\ told' = NoUuid
  BY <1>4 DEF Stored
<1>5. CASE pc' = "open" /\ told' = NoUuid
  BY <1>5 DEF Stored
<1>6. CASE pc' = "idle" /\ UNCHANGED <<told, cut>>
  BY <1>6 DEF Stored, Holds, Has, Marked
<1>7. CASE UNCHANGED <<pc, val, at, cut, told>>
  BY <1>7 DEF Stored, Holds, Has, Marked
<1>8. QED
  BY <1>4, <1>5, <1>6, <1>7

(* The next part.                                                          *)
LEMMA StoredPart ==
  ASSUME TypeOK, Fits, Stored, ready' = ready,
         \/ backend # "hisi" /\ WritePart({val})
         \/ backend = "hisi" /\ at <= PARTS /\ WritePart(seen.cell[at] \cup {val})
  PROVE  Stored'
<1>1. pc = "write" /\ val \in Uuids /\ told = NoUuid
  BY DEF WritePart, Fits
<1>2. /\ seen \in Media /\ at \in 1 .. PARTS + 1 /\ at \in Nat
      /\ PARTS \in Nat
  BY PartsAssumption DEF TypeOK, MediumTypeOK
<1>3. PICK new \in SUBSET Uuids :
        /\ WritePart(new)
        /\ new = IF backend = "hisi" THEN seen.cell[at] \cup {val} ELSE {val}
  <2>1. CASE backend # "hisi"
    BY <1>1, <2>1
  <2>2. CASE backend = "hisi"
    <3>1. at \in Parts
      BY <1>2, <2>2 DEF Parts
    <3>2. seen.cell[at] \cup {val} \in SUBSET Uuids
      BY <1>1, <1>2, <3>1, MediumUpdate
    <3>3. QED
      BY <2>2, <3>2
  <2>3. QED
    BY <2>1, <2>2
<1>4. /\ at \in Parts /\ at' = at + 1 /\ seen'.file = seen.file /\ seen'.flag = seen.flag
      /\ seen'.cell[at] = new
      /\ \A p \in Parts \ {at} : seen'.cell[p] = seen.cell[p]
      /\ UNCHANGED <<backend, pc, val, cut, told>>
  BY <1>2, <1>3, PartWritten
<1>5. Marked'
  BY <1>1, <1>4 DEF Stored, Marked
<1>6. ASSUME NEW p \in Parts, p < at'
      PROVE  Has(p, val)'
  <2>1. CASE p = at
    BY <1>3, <1>4, <2>1 DEF Has
  <2>2. CASE p # at
    <3>1. p < at
      BY <1>2, <1>4, <1>6, <2>2 DEF Parts
    <3>2. Has(p, val)
      BY <1>1, <3>1 DEF Stored
    <3>3. QED
      BY <1>4, <2>2, <3>2 DEF Has
  <2>3. QED
    BY <2>1, <2>2
<1>7. QED
  BY <1>1, <1>4, <1>5, <1>6 DEF Stored

(* All parts are written: the UUID is there.                               *)
LEMMA WrittenHolds ==
  ASSUME TypeOK, Fits, Stored, RestInv, Written
  PROVE  pc = "write" /\ seen' = seen /\ cut' = cut /\ val \in Uuids /\ Holds(val)
<1>1. pc = "write" /\ at > PARTS /\ seen' = seen /\ cut' = cut
  BY DEF Written
<1>2. \A p \in Parts : p < at
  BY <1>1, PartsAssumption DEF Parts, TypeOK, MediumTypeOK
<1>3. \A p \in Parts : Has(p, val)
  BY <1>1, <1>2 DEF Stored
<1>4. Marked /\ val \in Uuids /\ backend \in Writers
  BY <1>1 DEF Stored, Fits
<1>5. backend = "mt6589" => ready
  BY <1>1 DEF RestInv, Mt6589
<1>6. QED
  BY <1>1, <1>3, <1>4, <1>5 DEF Holds, Writers

(* The steps that end with a UUID in the medium.                           *)
LEMMA StoredDone ==
  ASSUME Holds(val), UNCHANGED <<backend, seen, ready>>,
         NEW s \in {"save", "sync", "check"},
         \/ \E ok \in BOOLEAN : Return(ok)
         \/ Goto(s) /\ told = NoUuid
  PROVE  Stored'
<1>1. CASE \E ok \in BOOLEAN : Return(ok)
  <2>1. pc' = "idle" /\ (told' = val \/ told' = NoUuid)
    BY <1>1 DEF Return
  <2>2. told' # NoUuid => Holds(told)'
    BY <2>1 DEF Holds, Has, Marked
  <2>3. QED
    BY <2>1, <2>2 DEF Stored
<1>2. CASE Goto(s) /\ told = NoUuid
  BY <1>2 DEF Goto, Stored, Holds, Has, Marked
<1>3. QED
  BY <1>1, <1>2

LEMMA FilesStored ==
  ASSUME TypeOK, Fits, RestInv, Stored, FilesStep, UNCHANGED nvramVars
  PROVE  Stored'
<1>1. ready' = ready /\ seen \in Media /\ (pc # "idle" => told = NoUuid)
  BY DEF nvramVars, TypeOK, MediumTypeOK, Fits
<1>2. at = 1 => ~ \E p \in Parts : p < at
  BY PartsAssumption DEF Parts
<1>3. Written => /\ pc = "write" /\ UNCHANGED <<seen, cut>> /\ Holds(val)
  BY WrittenHolds
<1>4. Written /\ UNCHANGED backend =>
        /\ \A s \in {"save", "check"} : Goto(s) => Stored'
        /\ \A ok \in BOOLEAN : Return(ok) => Stored'
  BY <1>1, <1>3, StoredDone
<1>5. WritePart({val}) /\ backend # "hisi" => Stored'
  BY <1>1, StoredPart
<1>6. Return(FALSE) /\ UNCHANGED seen => Stored'
  BY <1>1, StoredSame DEF Return
<1>7. CASE RtdOpen
  <2>1. seen'.file /\ pc' = "flag" /\ told' = NoUuid
    BY <1>1, <1>7 DEF RtdOpen, Goto, Media
  <2>2. QED
    BY <2>1 DEF Stored
<1>8. CASE RtdFlag
  <2>1. CASE Fails("write") /\ Return(FALSE) /\ UNCHANGED seen
    BY <1>6, <2>1
  <2>2. CASE seen' = [seen EXCEPT !.flag = TRUE] /\ Goto("write")
    <3>1. /\ pc = "flag" /\ seen.file /\ at' = 1 /\ told' = NoUuid /\ pc' = "write"
      BY <1>1, <1>8, <2>2 DEF RtdFlag, Goto, Fits, Stored
    <3>2. seen'.file /\ seen'.flag
      BY <1>1, <2>2, <3>1 DEF Media
    <3>3. ~ \E p \in Parts : p < at'
      BY <3>1, PartsAssumption DEF Parts
    <3>4. QED
      BY <3>1, <3>2, <3>3 DEF Stored, Marked
  <2>3. QED
    BY <1>8, <2>1, <2>2 DEF RtdFlag
<1>9. CASE RtdWrite
  BY <1>4, <1>5, <1>6, <1>9 DEF RtdWrite, Short, Goto
<1>10. CASE RtdSave \/ RtdReturn
  <2>1. Holds(val) /\ UNCHANGED <<backend, seen>> /\ told = NoUuid
    BY <1>1, <1>10 DEF RtdSave, RtdReturn, Goto, Return, Stored
  <2>2. QED
    BY <1>1, <1>10, <2>1, StoredDone DEF RtdSave, RtdReturn
<1>11. CASE DevIoOpen
  <2>1. /\ seen' = [Empty EXCEPT !.file = TRUE] /\ pc' = "write" /\ at' = 1 /\ told' = NoUuid
        /\ backend' = "dev_io"
    BY <1>1, <1>11 DEF DevIoOpen, Goto, Fits
  <2>2. seen'.file
    BY <2>1 DEF Empty
  <2>3. ~ \E p \in Parts : p < at'
    BY <2>1, PartsAssumption DEF Parts
  <2>4. QED
    BY <2>1, <2>2, <2>3 DEF Stored, Marked
<1>12. CASE DevIoWrite
  <2>1. CASE Short /\ Goto("check")
    <3>1. cut' = TRUE /\ pc' = "check" /\ told' = NoUuid /\ backend' = "dev_io"
      BY <1>1, <1>12, <2>1 DEF DevIoWrite, Short, Goto
    <3>2. QED
      BY <3>1 DEF Stored, Careful
  <2>2. CASE Short /\ Return(FALSE)
    BY <1>6, <2>2 DEF Short
  <2>3. QED
    BY <1>4, <1>5, <1>12, <2>1, <2>2 DEF DevIoWrite, Goto
<1>13. CASE DevIoCheck
  <2>1. PICK ok \in BOOLEAN : Return(ok)
    BY <1>13 DEF DevIoCheck
  <2>2. pc = "check" /\ backend = "dev_io" /\ UNCHANGED <<backend, seen, cut>>
    BY <1>13, <2>1 DEF DevIoCheck, Return, Fits
  <2>3. CASE cut
    BY <2>1, <2>2, <2>3 DEF Return, Stored, Careful
  <2>4. CASE ~cut
    <3>1. Holds(val)
      BY <2>2, <2>4 DEF Stored
    <3>2. QED
      BY <1>1, <2>1, <2>2, <3>1, StoredDone
  <2>5. QED
    BY <2>3, <2>4
<1>14. CASE BgOpen
  <2>1. /\ seen' = [seen EXCEPT !.file = TRUE] /\ pc' = "write" /\ at' = 1 /\ told' = NoUuid
        /\ backend' = "marvell_bg2"
    BY <1>1, <1>14 DEF BgOpen, Goto, Fits
  <2>2. seen'.file
    BY <1>1, <2>1 DEF Media
  <2>3. ~ \E p \in Parts : p < at'
    BY <2>1, PartsAssumption DEF Parts
  <2>4. QED
    BY <2>1, <2>2, <2>3 DEF Stored, Marked
<1>15. CASE BgWrite
  <2>1. CASE Short /\ Goto("remove")
    BY <1>1, <2>1 DEF Short, Goto, Stored
  <2>2. QED
    BY <1>4, <1>5, <1>15, <2>1 DEF BgWrite, Return
<1>16. CASE BgRemove
  BY <1>16 DEF BgRemove, Return, Stored
<1>17. CASE SamsungOpen
  <2>1. /\ pc' = "write" /\ at' = 1 /\ told' = NoUuid /\ backend' = "samsung"
    BY <1>1, <1>17 DEF SamsungOpen, Goto, Fits
  <2>2. ~ \E p \in Parts : p < at'
    BY <2>1, PartsAssumption DEF Parts
  <2>3. QED
    BY <2>1, <2>2 DEF Stored, Marked
<1>18. CASE SamsungWrite
  <2>1. CASE Short /\ Return(TRUE)
    BY <1>18, <2>1 DEF SamsungWrite, Short, Return, Stored, Careful
  <2>2. QED
    BY <1>4, <1>5, <1>18, <2>1 DEF SamsungWrite, Return
<1>19. CASE Writeback
  BY <1>1, <1>19, StoredSame DEF Writeback
<1>20. QED
  BY <1>7, <1>8, <1>9, <1>10, <1>11, <1>12, <1>13, <1>14, <1>15, <1>16, <1>17, <1>18, <1>19
  DEF FilesStep

LEMMA DriversStored ==
  ASSUME TypeOK, Fits, RestInv, Stored, DriversStep \/ SimpleStep, UNCHANGED nvramVars
  PROVE  Stored'
<1>1. ready' = ready /\ seen \in Media /\ Empty \in Media /\ (pc # "idle" => told = NoUuid)
  BY EmptyMedium DEF nvramVars, TypeOK, MediumTypeOK, Fits
<1>2. Written => /\ pc = "write" /\ UNCHANGED <<seen, cut>> /\ Holds(val)
  BY WrittenHolds
<1>3. Written /\ UNCHANGED backend => \A ok \in BOOLEAN : Return(ok) => Stored'
  BY <1>1, <1>2, StoredDone
<1>4. /\ WritePart({val}) /\ backend # "hisi" => Stored'
      /\ at <= PARTS /\ WritePart(seen.cell[at] \cup {val}) /\ backend = "hisi" => Stored'
  BY <1>1, StoredPart
<1>5. Return(FALSE) /\ UNCHANGED seen => Stored'
  BY <1>1, StoredSame DEF Return
<1>6. CASE HisiOpen \/ DriverOpen
  <2>1. /\ pc' = "write" /\ at' = 1 /\ told' = NoUuid
        /\ backend' \in {"hisi", "gs702", "hisi3718"}
    BY <1>1, <1>6 DEF HisiOpen, DriverOpen, Goto, Fits
  <2>2. ~ \E p \in Parts : p < at'
    BY <2>1, PartsAssumption DEF Parts
  <2>3. QED
    BY <2>1, <2>2 DEF Stored, Marked
<1>7. CASE HisiWrite
  BY <1>3, <1>4, <1>5, <1>7 DEF HisiWrite, Short, Return
<1>8. CASE DriverWrite
  <2>1. CASE Short /\ Return(at > 1)
    BY <1>8, <2>1 DEF DriverWrite, Short, Return, Stored, Careful
  <2>2. QED
    BY <1>3, <1>4, <1>8, <2>1 DEF DriverWrite, Return
<1>9. CASE EnvPut
  <2>1. pc' = "save" /\ told' = NoUuid /\ backend' = "infotm" /\ val' = val /\ val \in Uuids
    BY <1>1, <1>9 DEF EnvPut, Goto, Fits
  <2>2. CASE cut'
    BY <2>1, <2>2 DEF Stored
  <2>3. CASE ~cut'
    <3>1. seen' = [seen EXCEPT !.cell = [p \in Parts |-> {val}]]
      <4>1. seen' = [seen EXCEPT !.cell = [p \in Parts |-> {val}]] \/ cut' = TRUE
        BY <1>9, Zenon DEF EnvPut
      <4>2. cut' # TRUE
        BY <2>3
      <4>3. QED
        BY <4>1, <4>2, Zenon
    <3>2. \A p \in Parts : seen'.cell[p] = {val}
      BY <1>1, <2>1, <3>1, WholeMedium DEF Whole
    <3>3. Holds(val)'
      BY <2>1, <3>2 DEF Holds, Has, Marked
    <3>4. QED
      BY <2>1, <3>3 DEF Stored
  <2>4. QED
    BY <2>2, <2>3
<1>10. CASE EnvCommit
  <2>1. backend = "infotm" /\ pc = "save" /\ Return(TRUE) /\ UNCHANGED <<backend, seen>>
    BY <1>10 DEF EnvCommit, Return
  <2>2. CASE cut'
    BY <2>1, <2>2 DEF Return, Stored, Careful
  <2>3. CASE ~cut'
    <3>1. Holds(val)
      BY <1>10, <2>1, <2>3 DEF EnvCommit, Stored
    <3>2. QED
      BY <1>1, <2>1, <3>1, StoredDone
  <2>4. QED
    BY <2>2, <2>3
<1>11. CASE VendorSet \/ ZoneSet
  <2>1. CASE Return(FALSE) /\ UNCHANGED seen
    BY <1>5, <2>1
  <2>2. CASE Return(TRUE) /\ seen' \in {WholeOf(seen, val), WholeOf(Empty, val)}
    <3>1. /\ backend' \in {"wm8880", "marvell3108", "memory_debug"}
          /\ val \in Uuids /\ pc' = "idle" /\ told' = val
      BY <1>11, <2>2 DEF VendorSet, ZoneSet, Return, Fits
    <3>2. \A p \in Parts : seen'.cell[p] = {val}
      <4>1. PICK m \in Media : seen' = WholeOf(m, val)
        BY <1>1, <2>2
      <4>2. Whole([m EXCEPT !.cell = [p \in Parts |-> {val}]], val)
        BY <3>1, WholeMedium
      <4>3. Whole(seen', val)
        BY <4>1, <4>2 DEF WholeOf
      <4>4. QED
        BY <4>3 DEF Whole
    <3>3. Holds(told)'
      BY <3>1, <3>2 DEF Holds, Has, Marked
    <3>4. QED
      BY <3>1, <3>3 DEF Stored
  <2>3. QED
    BY <1>11, <2>1, <2>2 DEF VendorSet, ZoneSet
<1>12. CASE DefaultSet
  BY <1>5, <1>12 DEF DefaultSet
<1>13. QED
  BY <1>6, <1>7, <1>8, <1>9, <1>10, <1>11, <1>12 DEF DriversStep, SimpleStep

LEMMA StoredKept ==
  ASSUME TypeOK, Fits, RestInv, Stored, [Next]_vars
  PROVE  Stored'
<1>1. /\ at = 1 => ~ \E p \in Parts : p < at
      /\ pc # "idle" => told = NoUuid
  BY PartsAssumption DEF Parts, Fits
<1>2. CASE Step
  <2>1. CASE Set \/ OpenFails
    BY <1>2, <2>1, StoredSame DEF Step, Set, OpenFails, Return, nvramVars
  <2>2. QED
    BY <1>2, <2>1, FilesStored, DriversStored DEF Step
<1>3. CASE PollNotReady \/ DaemonReady \/ OtherWrites \/ RecordWriteback
  BY <1>3, StoredSame DEF PollNotReady, DaemonReady, OtherWrites, RecordWriteback, mediumVars
<1>4. CASE PollReady
  BY <1>1, <1>4 DEF PollReady, Goto, Stored
<1>5. CASE RetriesSpent
  BY <1>5, StoredSame DEF RetriesSpent, Return
<1>6. CASE ReadRecord
  <2>1. CASE Return(FALSE)
    BY <1>6, <2>1, StoredSame DEF ReadRecord, Return
  <2>2. CASE Goto("write")
    <3>1. pc' = "write" /\ at' = 1 /\ told' = NoUuid /\ backend' = "mt6589"
      BY <1>1, <1>6, <2>2 DEF ReadRecord, Goto, Fits, Mt6589
    <3>2. ~ \E p \in Parts : p < at'
      BY <3>1, PartsAssumption DEF Parts
    <3>3. QED
      BY <3>1, <3>2 DEF Stored, Marked
  <2>3. QED
    BY <1>6, <2>1, <2>2 DEF ReadRecord
<1>7. CASE WriteRecord
  <2>1. ready' = ready /\ backend = "mt6589"
    BY <1>7 DEF WriteRecord, Mt6589
  <2>2. CASE WritePart({val})
    BY <2>1, <2>2, StoredPart
  <2>3. CASE Written /\ \E ok \in BOOLEAN : Return(ok)
    <3>1. Holds(val) /\ UNCHANGED <<backend, seen, ready>>
      BY <2>1, <2>3, WrittenHolds DEF Return
    <3>2. QED
      BY <2>3, <3>1, StoredDone
  <2>4. CASE Return(FALSE) /\ UNCHANGED seen
    BY <2>1, <2>4, StoredSame DEF Return
  <2>5. QED
    BY <1>7, <2>2, <2>3, <2>4 DEF WriteRecord, Short
<1>8. CASE Killed /\ NvramKilled
  <2>1. CASE backend \in InProcess
    BY <1>8, <2>1 DEF Killed, Stored
  <2>2. CASE backend \notin InProcess
    BY <1>8, <2>2, StoredSame DEF Killed, NvramKilled
  <2>3. QED
    BY <2>1, <2>2
<1>9. CASE PowerCut
  BY <1>9 DEF PowerCut, Stored
<1>10. CASE UNCHANGED vars
  BY <1>10, StoredSame DEF vars, mediumVars, nvramVars
<1>11. QED
  BY <1>2, <1>3, <1>4, <1>5, <1>6, <1>7, <1>8, <1>9, <1>10 DEF Next, NvramStep

-----------------------------------------------------------------------------
(* The backends that write through, and those that save before they return *)
(* TRUE; and the first part of a UUID that two drivers took in part.       *)
Through == {"hisi", "hisi3718", "gs702", "wm8880", "marvell3108"}

DiskInv ==
  /\ backend \in Through => disk = seen
  /\ told # NoUuid /\ ~cut /\ backend \in {"rtd1815", "infotm"} => disk = seen
  /\ pc = "sync" /\ ~cut /\ backend = "rtd1815" => disk = seen
  /\ told # NoUuid /\ backend \in {"gs702", "hisi3718"} => disk.cell[1] = {told}

(* A step that leaves the medium as it is.                                 *)
LEMMA DiskSame ==
  ASSUME DiskInv, UNCHANGED <<backend, seen, disk>>,
         told' = NoUuid \/ UNCHANGED <<told, cut>>,
         pc' # "sync" \/ UNCHANGED <<pc, cut>>
  PROVE  DiskInv'
  BY DEF DiskInv

LEMMA DiskKept ==
  ASSUME TypeOK, Fits, RestInv, Stored, DiskInv, [Next]_vars
  PROVE  DiskInv'
<1>1. pc # "idle" => told = NoUuid
  BY DEF Fits
<1>2. CASE Set \/ OpenFails
  BY <1>2, DiskSame DEF Set, OpenFails, Return
<1>3. CASE FilesStep
  <2>1. backend \in {"rtd1815", "dev_io", "marvell_bg2", "samsung"} /\ backend' = backend
    BY <1>3 DEF FilesStep, RtdOpen, RtdFlag, RtdWrite, RtdSave, RtdReturn, DevIoOpen, DevIoWrite,
                DevIoCheck, BgOpen, BgWrite, BgRemove, SamsungOpen, SamsungWrite, Writeback,
                Goto, Return, WritePart, Fits
  <2>2. CASE backend # "rtd1815"
    BY <2>1, <2>2 DEF DiskInv, Through
  <2>3. CASE backend = "rtd1815" /\ ~RtdSave /\ ~RtdReturn
    <3>1. told' = NoUuid /\ pc' # "sync"
      BY <1>1, <1>3, <2>3 DEF FilesStep, RtdOpen, RtdFlag, RtdWrite, DevIoOpen, DevIoWrite,
                  DevIoCheck, BgOpen, BgWrite, BgRemove, SamsungOpen, SamsungWrite, Writeback,
                  Goto, Return, WritePart, Written, Short, Fits
    <3>2. QED
      BY <2>1, <2>3, <3>1 DEF DiskInv, Through
  <2>4. CASE backend = "rtd1815" /\ RtdSave
    <3>1. ~cut' => disk' = seen'
      BY <2>4, Zenon DEF RtdSave
    <3>2. QED
      BY <2>1, <2>4, <3>1 DEF DiskInv, Through
  <2>5. CASE backend = "rtd1815" /\ RtdReturn
    <3>1. ~cut' => disk' = seen'
      BY <2>5 DEF RtdReturn, DiskInv
    <3>2. QED
      BY <2>1, <2>5, <3>1 DEF DiskInv, Through
  <2>6. QED
    BY <2>2, <2>3, <2>4, <2>5
<1>4. CASE HisiOpen \/ DriverOpen
  BY <1>1, <1>4, DiskSame DEF HisiOpen, DriverOpen, Goto
<1>5. CASE HisiWrite
  <2>1. backend = "hisi" /\ backend' = "hisi"
    BY <1>5 DEF HisiWrite, WritePart, Return
  <2>2. disk' = seen'
    BY <1>5, <2>1 DEF HisiWrite, Written, Short, DiskInv, Through
  <2>3. QED
    BY <2>1, <2>2 DEF DiskInv
<1>6. CASE DriverWrite
  <2>1. /\ backend \in {"gs702", "hisi3718"} /\ backend' = backend
        /\ pc = "write" /\ told = NoUuid
    BY <1>1, <1>6 DEF DriverWrite, WritePart, Return, Written, Short
  <2>2. disk' = seen'
    BY <1>6, <2>1 DEF DriverWrite, Written, Short, DiskInv, Through
  <2>3. told' # NoUuid => disk'.cell[1] = {told'}
    <3>1. CASE WritePart({val})
      BY <2>1, <3>1 DEF WritePart
    <3>2. CASE (Written /\ Return(TRUE)) \/ (Short /\ Return(at > 1))
      <4>1. SUFFICES ASSUME told' # NoUuid PROVE seen'.cell[1] = {told'}
        BY <2>2
      <4>2. at > 1
        <5>1. CASE Written
          BY <5>1, PartsAssumption DEF Written, TypeOK, MediumTypeOK
        <5>2. CASE Return(at > 1)
          BY <4>1, <5>2, Zenon DEF Return
        <5>3. QED
          BY <3>2, <5>1, <5>2
      <4>3. 1 \in Parts /\ 1 < at
        BY <4>2, PartsAssumption DEF Parts, TypeOK, MediumTypeOK
      <4>4. seen.cell[1] = {val}
        BY <2>1, <4>3 DEF Stored, Has
      <4>5. seen' = seen /\ told' = val
        BY <3>2, <4>1 DEF Written, Short, Return
      <4>6. QED
        BY <4>4, <4>5
    <3>3. QED
      BY <1>6, <3>1, <3>2 DEF DriverWrite
  <2>4. QED
    BY <2>1, <2>2, <2>3 DEF DiskInv
<1>7. CASE EnvPut
  BY <1>1, <1>7 DEF EnvPut, Goto, DiskInv, Through
<1>8. CASE EnvCommit
  <2>1. backend' = "infotm"
    BY <1>8 DEF EnvCommit, Return
  <2>2. ~cut' => disk' = seen'
    BY <1>8, Zenon DEF EnvCommit
  <2>3. QED
    BY <2>1, <2>2 DEF DiskInv, Through
<1>9. CASE SimpleStep
  <2>1. backend \in {"wm8880", "marvell3108", "memory_debug", "default"} /\ backend' = backend
    BY <1>9 DEF SimpleStep, VendorSet, ZoneSet, DefaultSet, Return
  <2>2. backend \in Through => disk' = seen'
    BY <1>9, <2>1 DEF SimpleStep, VendorSet, ZoneSet, DefaultSet, DiskInv, Through
  <2>3. QED
    BY <2>1, <2>2 DEF DiskInv
<1>10. CASE NvramStep
  <2>1. backend = "mt6589" /\ backend' = backend
    BY <1>10 DEF NvramStep, PollNotReady, PollReady, RetriesSpent, ReadRecord, WriteRecord,
                 DaemonReady, OtherWrites, RecordWriteback, Mt6589, mediumVars, Goto, Return,
                 WritePart
  <2>2. QED
    BY <2>1 DEF DiskInv, Through
<1>11. CASE Killed
  <2>1. CASE backend \in InProcess
    BY <1>11, <2>1 DEF Killed, InProcess, DiskInv, Through
  <2>2. CASE backend \notin InProcess
    BY <1>11, <2>2, DiskSame DEF Killed
  <2>3. QED
    BY <2>1, <2>2
<1>12. CASE PowerCut
  BY <1>12 DEF PowerCut, DiskInv
<1>13. CASE UNCHANGED vars
  BY <1>13, DiskSame DEF vars, mediumVars
<1>14. QED
  BY <1>2, <1>3, <1>4, <1>5, <1>6, <1>7, <1>8, <1>9, <1>10, <1>11, <1>12, <1>13
  DEF Next, Step, DriversStep

(* All of it together is inductive.                                        *)
RewriteInv == TypeOK /\ Fits /\ RestInv /\ Stored /\ DiskInv

THEOREM RewriteInvHolds == Spec => []RewriteInv
<1>1. Init => RewriteInv
  <2>1. Init => RestInv /\ Stored /\ DiskInv
    BY DEF Init, MediumInit, NvramInit, RestInv, Stored, DiskInv
  <2>2. QED
    BY <2>1, FirstInit DEF RewriteInv
<1>2. RewriteInv /\ [Next]_vars => RewriteInv'
  BY TypesKept, FitsKept, RestInvKept, StoredKept, DiskKept DEF RewriteInv
<1>3. QED
  BY <1>1, <1>2, PTL DEF Spec

(* A TRUE of emmc_gs702.c and of emmc_hisi3718cv100.c: the first part of   *)
(* the UUID at least is in the memory.                                     *)
THEOREM TrueStoresSome == Spec => []TrueMeansSome
<1>1. RewriteInv => TrueMeansSome
  BY DEF RewriteInv, DiskInv, TrueMeansSome
<1>2. QED
  BY <1>1, RewriteInvHolds, PTL

-----------------------------------------------------------------------------
(* What a get returns of a medium that holds one whole UUID.               *)
LEMMA WholeBytes ==
  ASSUME NEW m, NEW u \in Uuids, Whole(m, u)
  PROVE  Bytes(m) = {u} /\ m # Empty /\ \A p \in Parts : m.cell[p] # {}
<1>1. 1 \in Parts
  BY PartsAssumption DEF Parts
<1>2. \A p \in Parts : m.cell[p] = {u}
  BY DEF Whole
<1>3. \A w \in Uuids : Whole(m, w) => w = u
  BY <1>1, <1>2 DEF Whole
<1>4. {w \in Uuids : Whole(m, w)} = {u}
  BY <1>3
<1>5. m # Empty
  BY <1>1, <1>2, EmptyMedium
<1>6. QED
  BY <1>2, <1>4, <1>5 DEF Bytes

LEMMA GetsWhole ==
  ASSUME BackendsAssumption, backend \in Backends, NEW u \in Uuids, Holds(u), backend # "hisi"
  PROVE  Gets(seen) = {u}
<1>1. Whole(seen, u)
  BY DEF Holds, Has, Whole
<1>2. /\ Bytes(seen) = {u} /\ seen # Empty
      /\ \A p \in Parts : seen.cell[p] # {}
  BY <1>1, WholeBytes
<1>3. CASE backend = "rtd1815"
  <2>1. Gets(seen) = RtdGet(seen)
    BY <1>3, Zenon DEF Gets
  <2>2. QED
    BY <1>2, <1>3, <2>1 DEF RtdGet, Holds, Marked
<1>4. CASE backend = "dev_io"
  <2>1. Gets(seen) = DevIoGet(seen)
    BY <1>4, Zenon DEF Gets
  <2>2. seen.file
    BY <1>4 DEF Holds, Marked
  <2>3. QED
    BY <1>2, <2>1, <2>2 DEF DevIoGet
<1>5. CASE backend = "marvell_bg2"
  <2>1. Gets(seen) = BgGet(seen)
    BY <1>5, Zenon DEF Gets
  <2>2. QED
    BY <1>2, <1>5, <2>1 DEF BgGet, Holds, Marked
<1>6. CASE backend = "samsung"
  <2>1. Gets(seen) = SamsungGet(seen)
    BY <1>6, Zenon DEF Gets
  <2>2. QED
    BY <1>2, <2>1 DEF SamsungGet
<1>7. CASE backend \in {"hisi3718", "gs702"}
  <2>1. Gets(seen) = DriverGet(seen)
    BY <1>7, Zenon DEF Gets
  <2>2. QED
    BY <1>2, <2>1 DEF DriverGet
<1>8. CASE backend = "infotm"
  <2>1. Gets(seen) = EnvGet(seen)
    BY <1>8, Zenon DEF Gets
  <2>2. QED
    BY <1>2, <2>1 DEF EnvGet
<1>9. CASE backend = "mt6589"
  <2>1. Gets(seen) = NvramGet(seen)
    BY <1>9, Zenon DEF Gets
  <2>2. QED
    BY <1>2, <1>9, <2>1 DEF NvramGet, Holds
<1>10. CASE backend \in {"wm8880", "marvell3108"}
  <2>1. Gets(seen) = WmtGet(seen) \/ Gets(seen) = SerialGet(seen)
    BY <1>10, Zenon DEF Gets
  <2>2. QED
    BY <1>2, <2>1 DEF WmtGet, SerialGet
<1>11. CASE backend = "memory_debug"
  <2>1. Gets(seen) = ZoneGet(seen)
    BY <1>11, Zenon DEF Gets
  <2>2. QED
    BY <1>2, <2>1 DEF ZoneGet
<1>12. QED
  BY <1>3, <1>4, <1>5, <1>6, <1>7, <1>8, <1>9, <1>10, <1>11, BackendsAssumption DEF Holds

(* "return TRUE if successfully": the UUID is there to be read.            *)
THEOREM SetIsReadBack == Spec => []SetIsRead
<1>1. RewriteInv => SetIsRead
  <2> SUFFICES ASSUME RewriteInv, told # NoUuid, backend \in Careful \/ ~cut
               PROVE  Gets(seen) \subseteq IF backend = "hisi" THEN {told, NoUuid} ELSE {told}
    BY DEF SetIsRead
  <2>1. told \in Uuids /\ backend \in Backends /\ Holds(told)
    BY DEF RewriteInv, TypeOK, MediumTypeOK, Stored
  <2>2. CASE backend # "hisi"
    BY <2>1, <2>2, GetsWhole, BackendsAssumption
  <2>3. CASE backend = "hisi"
    <3>1. Gets(seen) = HisiGet(seen)
      BY <2>3, Zenon DEF Gets
    <3>2. 1 \in Parts /\ \A p \in Parts : told \in seen.cell[p]
      BY <2>1, <2>3, PartsAssumption DEF Holds, Has, Parts
    <3>3. \A u \in Uuids : seen.cell[1] = {u} => u = told
      BY <3>2
    <3>4. {u \in Uuids : seen.cell[1] = {u} /\ \A p \in Parts : seen.cell[p] \subseteq {u}}
            \subseteq {told}
      BY <3>3
    <3>5. "other" \notin Bytes(seen) => Bytes(seen) \subseteq {told}
      <4>1. {u \in Uuids : Whole(seen, u)} \subseteq {told}
        BY <3>2, <3>3 DEF Whole
      <4>2. QED
        BY <4>1 DEF Bytes
    <3>6. HisiGet(seen) \subseteq {told, NoUuid}
      BY <3>4, <3>5 DEF HisiGet
    <3>7. QED
      BY <2>3, <3>1, <3>6
  <2>4. QED
    BY <2>2, <2>3
<1>2. QED
  BY <1>1, RewriteInvHolds, PTL

(* A UUID that was set without a failure survives a power cut, where the   *)
(* backend saves it before it returns.                                     *)
THEOREM SetIsDurable == Spec => []Durable
<1>1. RewriteInv => Durable
  <2> SUFFICES ASSUME RewriteInv, told # NoUuid, ~cut, backend \notin PageCached
               PROVE  disk = seen
    BY DEF Durable
  <2>1. backend \in Backends /\ backend # "default"
    BY DEF RewriteInv, TypeOK, MediumTypeOK, Stored, Holds
  <2>2. backend \in Through \cup {"rtd1815", "infotm"}
    BY <2>1, BackendsAssumption DEF PageCached, Through
  <2>3. QED
    BY <2>2 DEF RewriteInv, DiskInv
<1>2. QED
  BY <1>1, RewriteInvHolds, PTL

-----------------------------------------------------------------------------
(* The refinement: thirteen backends, one register.                        *)

(* What a get may return, as a function of the three things it rests on.   *)
GetsOf(b, r, m) ==
  CASE b = "rtd1815" -> RtdGet(m)
    [] b = "dev_io" -> DevIoGet(m)
    [] b = "marvell_bg2" -> BgGet(m)
    [] b = "samsung" -> SamsungGet(m)
    [] b = "hisi" -> HisiGet(m)
    [] b \in {"hisi3718", "gs702"} -> DriverGet(m)
    [] b = "infotm" -> EnvGet(m)
    [] b = "mt6589" -> Bytes(m) \cup IF r THEN {} ELSE {NoUuid}
    [] b = "marvell3108" -> SerialGet(m)
    [] b = "wm8880" -> WmtGet(m)
    [] b = "memory_debug" -> ZoneGet(m)
    [] b = "default" -> {NoUuid}

LEMMA GetsAre ==
  /\ Gets(seen) = GetsOf(backend, ready, seen)
  /\ Gets(disk) = GetsOf(backend, ready, disk)
  /\ Gets(seen)' = GetsOf(backend', ready', seen')
  /\ Gets(disk)' = GetsOf(backend', ready', disk')
BY DEF Gets, GetsOf, NvramGet

(* Only the record behind the daemon asks whether it is Ready.             *)
LEMMA GetsReady ==
  /\ \A b, r, s, m : b # "mt6589" => GetsOf(b, r, m) = GetsOf(b, s, m)
  /\ \A m : /\ GetsOf("mt6589", TRUE, m) = Bytes(m)
           /\ GetsOf("mt6589", FALSE, m) = Bytes(m) \cup {NoUuid}
  /\ GetsOf("memory_debug", ready, Empty) = {NoUuid}
BY DEF GetsOf, ZoneGet

(* A get answers a UUID, NULL, or bytes that nobody set.                   *)
LEMMA GetsType ==
  ASSUME NEW b \in Backends, NEW r, NEW m
  PROVE  GetsOf(b, r, m) \in SUBSET (Uuids \cup {NoUuid, "other"})
<1>1. Bytes(m) \subseteq Uuids \cup {NoUuid, "other"}
  BY DEF Bytes
<1>2. {u \in Uuids : m.cell[1] = {u} /\ \A p \in Parts : m.cell[p] \subseteq {u}}
        \subseteq Uuids
  OBVIOUS
<1>3. QED
  BY <1>1, <1>2, BackendsAssumption
  DEF GetsOf, RtdGet, DevIoGet, BgGet, SamsungGet, HisiGet, DriverGet, EnvGet,
      SerialGet, WmtGet, ZoneGet

(* What a step does to the register: the beginning of a set, its middle,   *)
(* its end,                                                                *)
Begins ==
  /\ pc = "idle" /\ pc' # "idle"
  /\ told' = NoUuid
  /\ UNCHANGED <<backend, ready, seen, disk>>

Works ==
  /\ pc # "idle" /\ pc' # "idle"
  /\ disk' \in {disk, seen'}
  /\ UNCHANGED <<backend, ready, told>>

Ends ==
  /\ pc # "idle" /\ pc' = "idle"
  /\ disk' \in {disk, seen'}
  /\ UNCHANGED <<backend, ready>>

(* the work of the kernel and of the daemon,                               *)
Saves ==
  /\ disk' = seen
  /\ UNCHANGED <<backend, ready, seen, pc, cut, told>>

Wakes ==
  /\ backend = "mt6589" /\ ready = FALSE /\ ready' = TRUE
  /\ UNCHANGED <<backend, seen, disk, pc, cut, told>>

(* or none of it.                                                          *)
Rests == UNCHANGED <<backend, ready, seen, disk, pc, cut, told>>

Moves == Begins \/ Works \/ Ends \/ Saves \/ Wakes \/ Rests

LEMMA FilesMove ==
  ASSUME FilesStep, UNCHANGED nvramVars
  PROVE  Moves
<1> USE DEF Moves, Works, Ends, Goto, Return, nvramVars
<1>1. CASE RtdOpen \/ RtdFlag \/ RtdWrite \/ RtdSave \/ RtdReturn
  BY <1>1 DEF RtdOpen, RtdFlag, RtdWrite, RtdSave, RtdReturn, WritePart, Written, Short
<1>2. CASE DevIoOpen \/ DevIoWrite \/ DevIoCheck
  BY <1>2 DEF DevIoOpen, DevIoWrite, DevIoCheck, WritePart, Written, Short
<1>3. CASE BgOpen \/ BgWrite \/ BgRemove \/ SamsungOpen \/ SamsungWrite
  BY <1>3 DEF BgOpen, BgWrite, BgRemove, SamsungOpen, SamsungWrite, WritePart,
              Written, Short
<1>4. CASE Writeback
  BY <1>4 DEF Writeback, Saves
<1>5. QED
  BY <1>1, <1>2, <1>3, <1>4 DEF FilesStep

LEMMA OtherSetsMove ==
  ASSUME Set \/ OpenFails \/ DriversStep \/ SimpleStep, UNCHANGED nvramVars
  PROVE  Moves
<1> USE DEF Moves, Begins, Works, Ends, Goto, Return, nvramVars
<1>1. CASE Set \/ OpenFails
  BY <1>1 DEF Set, OpenFails
<1>2. CASE DriversStep
  BY <1>2 DEF DriversStep, HisiOpen, HisiWrite, DriverOpen, DriverWrite,
              EnvPut, EnvCommit, WritePart, Written, Short
<1>3. CASE SimpleStep
  BY <1>3 DEF SimpleStep, VendorSet, ZoneSet, DefaultSet
<1>4. QED
  BY <1>1, <1>2, <1>3

LEMMA NvramMove ==
  ASSUME NvramTypeOK, NvramStep
  PROVE  Moves
<1> USE DEF Moves, Works, Ends, Saves, Rests, Goto, Return, mediumVars
<1>1. CASE PollNotReady \/ PollReady \/ RetriesSpent \/ ReadRecord
  BY <1>1 DEF PollNotReady, PollReady, RetriesSpent, ReadRecord
<1>2. CASE WriteRecord
  BY <1>2 DEF WriteRecord, WritePart, Written, Short
<1>3. CASE DaemonReady
  BY <1>3 DEF DaemonReady, Wakes, Mt6589, NvramTypeOK
<1>4. CASE OtherWrites \/ RecordWriteback
  BY <1>4 DEF OtherWrites, RecordWriteback
<1>5. QED
  BY <1>1, <1>2, <1>3, <1>4 DEF NvramStep

(* Each of these is a step or a stutter of the register.  That TRUE stands *)
(* for what a get answers is SetIsRead.                                    *)
LEMMA MovesRefine ==
  ASSUME TypeOK, TypeOK', Fits, SetIsRead', Moves
  PROVE  [Register!Next]_(Register!registerVars)
<1>1. /\ Gets(seen)' \in SUBSET (Uuids \cup {NoUuid, "other"})
      /\ backend \in Backends
  BY GetsAre, GetsType DEF TypeOK, MediumTypeOK
<1>2. pc # "idle" => Trusted = NoUuid
  BY DEF Fits, Trusted
<1>3. CASE Begins
  <2>1. UNCHANGED <<Gets(seen), Gets(disk)>> /\ Trusted' = NoUuid
    BY <1>3, GetsAre DEF Begins, Trusted
  <2>2. QED
    BY <1>3, <2>1 DEF Begins, Register!Next, Register!Begin
<1>4. CASE Works
  <2>1. Gets(disk)' \in {Gets(disk), Gets(seen)'}
    BY <1>4, GetsAre DEF Works
  <2>2. Trusted' = Trusted
    BY <1>2, <1>4 DEF Works, Fits, Trusted
  <2>3. QED
    BY <1>1, <1>4, <2>1, <2>2
    DEF Works, Register!Next, Register!Work, Register!Answers
<1>5. CASE Ends
  <2>1. Gets(disk)' \in {Gets(disk), Gets(seen)'}
    BY <1>5, GetsAre DEF Ends
  <2>2. Trusted' \in Uuids \cup {NoUuid}
    BY DEF Trusted, TypeOK, MediumTypeOK
  <2>3. Trusted' # NoUuid => Gets(seen)' \subseteq {Trusted', NoUuid}
    BY DEF Trusted, SetIsRead
  <2>4. QED
    BY <1>1, <1>5, <2>1, <2>2, <2>3
    DEF Ends, Register!Next, Register!End, Register!Answers
<1>6. CASE Saves
  <2>1. Gets(disk)' = Gets(seen) /\ Gets(seen)' = Gets(seen) /\ Trusted' = Trusted
    BY <1>6, GetsAre DEF Saves, Trusted
  <2>2. QED
    BY <1>6, <2>1 DEF Saves, Register!Next, Register!Writeback
<1>7. CASE Wakes
  <2>1. /\ Gets(seen)' \cup {NoUuid} = Gets(seen)
        /\ Gets(disk)' \cup {NoUuid} = Gets(disk)
        /\ Trusted' = Trusted
    BY <1>7, GetsAre, GetsReady DEF Wakes, Trusted
  <2>2. QED
    BY <1>7, <2>1 DEF Wakes, Register!Next, Register!Ready
<1>8. CASE Rests
  <2>1. UNCHANGED <<Gets(seen), Gets(disk), Trusted>>
    BY <1>8, GetsAre DEF Rests, Trusted
  <2>2. QED
    BY <1>8, <2>1 DEF Rests, Register!registerVars
<1>9. QED
  BY <1>3, <1>4, <1>5, <1>6, <1>7, <1>8 DEF Moves

(* The process that holds the memory, and the power.                       *)
LEMMA EndsRefine ==
  ASSUME TypeOK, \/ Killed /\ NvramKilled
                 \/ PowerCut /\ NvramPowerCut
  PROVE  Register!Killed \/ Register!PowerCut
<1>1. CASE Killed /\ NvramKilled
  <2>1. UNCHANGED <<Gets(disk)>> /\ UNCHANGED <<backend, ready, cut>>
    BY <1>1, GetsAre DEF Killed, NvramKilled
  <2>2. CASE backend \in InProcess
    <3>1. Gets(seen)' = {NoUuid} /\ Trusted' = NoUuid
      BY <1>1, <2>1, <2>2, GetsAre, GetsReady DEF Killed, InProcess, Trusted
    <3>2. QED
      BY <1>1, <2>1, <3>1 DEF Killed, Register!Killed
  <2>3. CASE backend \notin InProcess
    <3>1. Gets(seen)' = Gets(seen) /\ Trusted' = Trusted
      BY <1>1, <2>1, <2>3, GetsAre DEF Killed, Trusted
    <3>2. QED
      BY <1>1, <2>1, <3>1 DEF Killed, Register!Killed
  <2>4. QED
    BY <2>2, <2>3
<1>2. CASE PowerCut /\ NvramPowerCut
  <2>1. Gets(seen)' = Gets(disk)' /\ Trusted' = NoUuid
    BY <1>2, GetsAre DEF PowerCut, Trusted
  <2>2. Gets(disk)' \in {Gets(disk), Gets(disk) \cup {NoUuid}}
    <3>1. ready \in BOOLEAN /\ ready' = FALSE /\ UNCHANGED <<backend, disk>>
      BY <1>2 DEF PowerCut, NvramPowerCut, TypeOK, NvramTypeOK
    <3>2. /\ Gets(disk) = GetsOf(backend, ready, disk)
          /\ Gets(disk)' = GetsOf(backend, FALSE, disk)
      BY <3>1, GetsAre
    <3>3. CASE backend # "mt6589"
      BY <3>2, <3>3, GetsReady
    <3>4. CASE backend = "mt6589"
      <4>1. CASE ready = TRUE
        BY <3>2, <3>4, <4>1, GetsReady
      <4>2. CASE ready = FALSE
        BY <3>2, <4>2
      <4>3. QED
        BY <3>1, <4>1, <4>2
    <3>5. QED
      BY <3>3, <3>4
  <2>3. QED
    BY <1>2, <2>1, <2>2 DEF PowerCut, Register!PowerCut
<1>3. QED
  BY <1>1, <1>2

(* Whichever of the thirteen backends the library is built with, whatever  *)
(* fails, is killed or loses power: it is a register, and TRUE stands.     *)
THEOREM KeepsRegister == Spec => RegisterSpec
<1>1. Init => Register!Init
  <2> SUFFICES ASSUME Init PROVE Register!Init
    OBVIOUS
  <2>1. Gets(seen) \in Register!Answers /\ Gets(disk) = Gets(seen)
    BY GetsAre, GetsType DEF Init, MediumInit, Register!Answers
  <2>2. QED
    BY <2>1 DEF Init, MediumInit, Register!Init, Trusted
<1>2. RewriteInv /\ RewriteInv' /\ SetIsRead' /\ [Next]_vars
        => [Register!Next]_(Register!registerVars)
  <2> SUFFICES ASSUME RewriteInv, RewriteInv', SetIsRead', [Next]_vars
               PROVE  [Register!Next]_(Register!registerVars)
    OBVIOUS
  <2>1. TypeOK /\ TypeOK' /\ Fits /\ NvramTypeOK
    BY DEF RewriteInv, TypeOK
  <2>2. UNCHANGED vars => Moves
    BY DEF vars, mediumVars, nvramVars, Moves, Rests
  <2>3. Step \/ NvramStep => Moves
    BY <2>1, FilesMove, OtherSetsMove, NvramMove DEF Step
  <2>4. QED
    BY <2>1, <2>2, <2>3, MovesRefine, EndsRefine DEF Next, Register!Next
<1>3. QED
  BY <1>1, <1>2, RewriteInvHolds, SetIsReadBack, PTL
  DEF Spec, RegisterSpec, Register!Spec
=============================================================================
