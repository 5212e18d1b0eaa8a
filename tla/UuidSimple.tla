---------------------------- MODULE UuidSimple -----------------------------
(***************************************************************************)
(* The backends without a step that comes between two others: one call of  *)
(* a vendor's library (emmc_wm8880.c, emmc_marvell3108.c), a buffer of the *)
(* process (emmc_memory_debug.c), and nothing at all (emmc_default.c).     *)
(***************************************************************************)
EXTENDS UuidMedium

WholeOf(m, u) == [m EXCEPT !.cell = [p \in Parts |-> {u}]]

(* A mutant: the result of the vendor's call is not looked at.             *)
VendorSetUnchecked ==
  /\ backend \in {"wm8880", "marvell3108"}
  /\ pc = "open"
  /\ \/ /\ backend = "marvell3108" => seen = Empty
        /\ seen' = WholeOf(seen, val)
        /\ disk' = seen'
     \/ /\ (backend = "marvell3108" /\ seen # Empty) \/ Fails("write")
        /\ UNCHANGED <<seen, disk>>
  /\ Return(TRUE)
  /\ UNCHANGED cut

(* wmt_setsyspara() and MV_DRM_GENERIC_BurnSN() (both external) store the  *)
(* UUID or return an error; a serial number is burnt only once.  Zero is   *)
(* TRUE.                                                                   *)
VendorSet ==
  /\ backend \in {"wm8880", "marvell3108"}
  /\ pc = "open"
  /\ \/ /\ backend = "marvell3108" => seen = Empty
        /\ seen' = WholeOf(seen, val)
        /\ disk' = seen'
        /\ Return(TRUE)
     \/ /\ (backend = "marvell3108" /\ seen # Empty) \/ Fails("write")
        /\ Return(FALSE)
        /\ UNCHANGED <<seen, disk>>
  /\ UNCHANGED cut

(* UUID_ZONE is cleared and filled, and uuid_writed is set.                *)
ZoneSet ==
  /\ backend = "memory_debug"
  /\ pc = "open"
  /\ seen' = WholeOf(Empty, val)
  /\ Return(TRUE)
  /\ UNCHANGED <<disk, cut>>

DefaultSet ==
  /\ backend = "default"
  /\ pc = "open"
  /\ Return(FALSE)
  /\ UNCHANGED <<seen, disk, cut>>

SimpleStep == VendorSet \/ ZoneSet \/ DefaultSet

-----------------------------------------------------------------------------
(* What UUID_getFormatEmmcUuid() returns of a medium m; NoUuid for NULL.   *)

(* emmc_marvell3108.c returns its buffer whatever the vendor's call says;  *)
(* wmt_getsyspara() finds no variable that was not set.                    *)
SerialGet(m) == Bytes(m)

WmtGet(m) == IF m = Empty THEN {NoUuid} ELSE Bytes(m)

ZoneGet(m) == IF m = Empty THEN {NoUuid} ELSE Bytes(m)
=============================================================================
