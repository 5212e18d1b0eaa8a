---------------------------- MODULE UuidRewrite ----------------------------
(***************************************************************************)
(* libyunosfwnative with a backend that may be set again.  One root        *)
(* process calls the library; it may be killed at any step, and the power  *)
(* may go.                                                                 *)
(***************************************************************************)
EXTENDS UuidFiles, UuidDrivers, UuidSimple, NvramUuid

ASSUME BackendsAssumption ==
  Backends \subseteq {"rtd1815", "dev_io", "marvell_bg2", "samsung",
                      "hisi", "hisi3718", "gs702", "infotm", "mt6589",
                      "wm8880", "marvell3108", "memory_debug", "default"}

vars == <<mediumVars, nvramVars>>

TypeOK == MediumTypeOK /\ NvramTypeOK

Init == MediumInit /\ NvramInit

Step ==
  /\ Set \/ OpenFails \/ FilesStep \/ DriversStep \/ SimpleStep
  /\ UNCHANGED nvramVars

Next ==
  \/ Step
  \/ NvramStep
  \/ Killed /\ NvramKilled
  \/ PowerCut /\ NvramPowerCut

Spec == Init /\ [][Next]_vars

(* UUID_getFormatEmmcUuid(): what it may return of a medium m.             *)
Gets(m) == CASE backend = "rtd1815" -> RtdGet(m)
             [] backend = "dev_io" -> DevIoGet(m)
             [] backend = "marvell_bg2" -> BgGet(m)
             [] backend = "samsung" -> SamsungGet(m)
             [] backend = "hisi" -> HisiGet(m)
             [] backend \in {"hisi3718", "gs702"} -> DriverGet(m)
             [] backend = "infotm" -> EnvGet(m)
             [] backend = "mt6589" -> NvramGet(m)
             [] backend = "marvell3108" -> SerialGet(m)
             [] backend = "wm8880" -> WmtGet(m)
             [] backend = "memory_debug" -> ZoneGet(m)
             [] backend = "default" -> {NoUuid}

-----------------------------------------------------------------------------
(* The backends that look at the result of every write that get relies on. *)
Careful == {"rtd1815", "marvell_bg2", "hisi", "mt6589",
            "wm8880", "marvell3108", "memory_debug", "default"}

(* uuid.h: "Set uuid into emmc, return TRUE if successfully".  After TRUE, *)
(* and until the next call that sets one, a get returns that UUID, or NULL *)
(* where the memory was burnt before: always if the backend looks at what  *)
(* its writes return, and otherwise if none of them fell short.            *)
SetIsRead ==
  told # NoUuid /\ (backend \in Careful \/ ~cut) =>
    Gets(seen) \subseteq IF backend = "hisi" THEN {told, NoUuid} ELSE {told}

(* A UUID of which TRUE was returned survives a power cut, if the backend  *)
(* saves it before it returns ("factory save", "env commit", drivers that  *)
(* write through) and nothing failed.                                      *)
PageCached == {"dev_io", "marvell_bg2", "samsung", "mt6589", "memory_debug"}

Durable ==
  told # NoUuid /\ ~cut /\ backend \notin PageCached =>
    Gets(disk) = Gets(seen)

(* emmc_gs702.c and emmc_hisi3718cv100.c say TRUE only if at least the     *)
(* first part of the UUID was stored.                                      *)
TrueMeansSome ==
  told # NoUuid /\ backend \in {"gs702", "hisi3718"} =>
    disk.cell[1] = {told}

(* emmc_dev_io.c: however many calls fail, are killed or are repeated, the *)
(* file never mixes two UUIDs, because each call truncates it first.       *)
NeverMixed ==
  backend = "dev_io" =>
    \A p, q \in Parts : \A u \in seen.cell[p], w \in seen.cell[q] : u = w

(* nvram_mt6589.c: the record is touched only when the NVRAM is Ready, and *)
(* writing all of it back loses a change that another program made to its  *)
(* own fields only if that came between the call's read and its write.     *)
RestKept ==
  /\ Mt6589 /\ pc \in {"read", "write"} => ready
  /\ rest["seen"] # wrote => raced

(* emmc_dev_io.c: "check uuid".  TRUE means that the file holds the UUID.  *)
CheckedIsStored ==
  told # NoUuid /\ backend = "dev_io" => Gets(seen) = {told}

-----------------------------------------------------------------------------
(* Refinement                                                              *)

(* The UUID of which TRUE was returned, where the code can know that it is *)
(* true.                                                                   *)
Trusted == IF backend \in Careful \/ ~cut THEN told ELSE NoUuid

Register == INSTANCE UuidRegister WITH
  Values <- Uuids,
  None <- NoUuid,
  busy <- (pc # "idle"),
  answer <- Gets(seen),
  saved <- Gets(disk),
  acked <- Trusted

(* All thirteen backends are one register: a get answers something else    *)
(* only during a set, after a power cut, and when the process that holds   *)
(* the memory or the daemon that guards it comes or goes.                  *)
RegisterSpec == Register!Spec
=============================================================================
