---------------------------- MODULE UuidDrivers ----------------------------
(***************************************************************************)
(* The backends that hand the UUID to a driver of the vendor: the OTP of   *)
(* HiSilicon with its CRC (emmc_hi3716m.c and its twin                     *)
(* emmc_hisi3716cv200.c), the raw flash of emmc_hisi3718cv100.c, the sysfs *)
(* node of emmc_gs702.c and the boot environment of emmc_infotm.c.         *)
(***************************************************************************)
EXTENDS UuidMedium

(* emmc_hi3716m.c: the 16 bytes of the key, then one by one the bytes of   *)
(* the private data; the CRC is among the last of them.  The memory is     *)
(* burnt, and nobody looks at what is there.                               *)
HisiOpen ==
  /\ backend = "hisi"
  /\ pc = "open"
  /\ Goto("write")
  /\ UNCHANGED <<seen, disk, cut>>

HisiWrite ==
  /\ backend = "hisi"
  /\ \/ at <= PARTS /\ WritePart(seen.cell[at] \cup {val}) /\ disk' = seen'
     \/ Written /\ Return(TRUE)
     \/ Short /\ Return(FALSE)

(* emmc_gs702.c and emmc_hisi3718cv100.c: one write, which the driver      *)
(* carries out at once.                                                    *)
DriverOpen ==
  /\ backend \in {"gs702", "hisi3718"}
  /\ pc = "open"
  /\ Goto("write")
  /\ UNCHANGED <<seen, disk, cut>>

(* A mutant: an error of the driver is not told from a short write.        *)
DriverWriteUnchecked ==
  /\ backend \in {"gs702", "hisi3718"}
  /\ \/ WritePart({val}) /\ disk' = seen'
     \/ (Written \/ Short) /\ Return(TRUE)

(* Only a result that is not positive is a failure.                        *)
DriverWrite ==
  /\ backend \in {"gs702", "hisi3718"}
  /\ \/ WritePart({val}) /\ disk' = seen'
     \/ Written /\ Return(TRUE)
     \/ Short /\ Return(at > 1)

(* emmc_infotm.c: "env put" changes the copy in memory, "env commit" the   *)
(* flash.  Neither write() is looked at.                                   *)
EnvPut ==
  /\ backend = "infotm"
  /\ pc = "open"
  /\ \/ seen' = [seen EXCEPT !.cell = [p \in Parts |-> {val}]] /\ UNCHANGED cut
     \/ Fails("write") /\ cut' = TRUE /\ UNCHANGED seen
  /\ Goto("save")
  /\ UNCHANGED disk

EnvCommit ==
  /\ backend = "infotm"
  /\ pc = "save"
  /\ \/ disk' = seen /\ UNCHANGED cut
     \/ Fails("write") /\ cut' = TRUE /\ UNCHANGED disk
  /\ Return(TRUE)
  /\ UNCHANGED seen

DriversStep ==
  \/ HisiOpen \/ HisiWrite
  \/ DriverOpen \/ DriverWrite
  \/ EnvPut \/ EnvCommit

-----------------------------------------------------------------------------
(* What UUID_getFormatEmmcUuid() returns of a medium m; NoUuid for NULL.   *)

(* A CRC over the key and the data finds a torn or twice burnt UUID and a  *)
(* blank memory.  Only a UUID that misses no more than parts of zeros at   *)
(* its end may pass (HisiOtp looks at the bytes).                          *)
HisiGet(m) ==
  LET torn == {u \in Uuids : m.cell[1] = {u} /\ \A p \in Parts : m.cell[p] \subseteq {u}}
  IN  IF "other" \in Bytes(m) THEN {NoUuid} \cup torn ELSE Bytes(m)

(* What the driver delivers is returned, whatever it is.                   *)
DriverGet(m) == Bytes(m)

(* A variable that is not set is found by its name in the answer.          *)
EnvGet(m) == IF m = Empty THEN {NoUuid} ELSE Bytes(m)
=============================================================================
