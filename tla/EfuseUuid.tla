----------------------------- MODULE EfuseUuid -----------------------------
(***************************************************************************)
(* emmc_amlogic.c: the UUID is a segment of /dev/efuse.  Each call opens   *)
(* the device anew.  efuse_write_usid() looks whether the segment is       *)
(* blank, burns it in one write(), and reads it back.                      *)
(***************************************************************************)
EXTENDS UuidChip

VARIABLE version    \* the version byte of the chip is burnt

(* UUID_setFormatEmmcUuid_imp() starts with the version.                   *)
EfuseSet ==
  /\ backend = "amlogic"
  /\ Call("read_version")
  /\ UNCHANGED version

(* efuse_read_version(): 1 if the byte is blank and -1 if it cannot be     *)
(* read, and in both cases it is burnt.                                    *)
EfuseReadVersion ==
  /\ pc = "read_version"
  /\ \/ Opens /\ version /\ Goto("check")
     \/ Opens /\ ~version /\ Goto("write_version")
     \/ (OpenFails \/ Fails("ioctl") \/ Fails("read")) /\ Goto("write_version")
  /\ UNCHANGED <<cell, fds, version>>

(* efuse_write_version(): what it returns is not looked at.                *)
EfuseWriteVersion ==
  /\ pc = "write_version"
  /\ \/ Opens /\ version' = TRUE
     \/ (OpenFails \/ Fails("ioctl") \/ Fails("write")) /\ UNCHANGED version
  /\ Goto("check")
  /\ UNCHANGED <<cell, fds>>

(* A mutant: the segment is not looked at.                                 *)
EfuseCheckSkipped ==
  /\ backend = "amlogic"
  /\ pc = "check"
  /\ Goto("reopen")
  /\ UNCHANGED <<cell, fds, version>>

(* efuse_written_check(): 0 if the segment is blank, and also if the       *)
(* device cannot be opened; 1 or -1 otherwise, and then the call fails.    *)
EfuseCheck ==
  /\ backend = "amlogic"
  /\ pc = "check"
  /\ \/ Opens /\ Blank /\ Goto("reopen")
     \/ Opens /\ ~Blank /\ Return(FALSE)
     \/ Opens /\ (Fails("ioctl") \/ Fails("read")) /\ Return(FALSE)
     \/ OpenFails /\ Goto("reopen")
  /\ UNCHANGED <<cell, fds, version>>

(* efuse_write_usid() opens the device itself and never closes it.         *)
EfuseReopen ==
  /\ pc = "reopen"
  /\ \/ Opens /\ fds' = fds + 1 /\ Goto("burn")
     \/ Opens /\ fds' = fds + 1 /\ Fails("ioctl") /\ Return(FALSE)
     \/ OpenFails /\ UNCHANGED fds /\ Goto("burn")
  /\ UNCHANGED <<cell, version>>

(* A mutant: the verification starts one part too early.                   *)
EfuseBurnEarly ==
  /\ backend = "amlogic"
  /\ pc = "burn"
  /\ at = 1 => Opens
  /\ BurnPart
  /\ pc' = IF at + 1 >= PARTS THEN "verify" ELSE "burn"
  /\ UNCHANGED version

(* efuse_write(): it opens the device, and a short write is a failure.     *)
EfuseBurn ==
  /\ backend = "amlogic"
  /\ pc = "burn"
  /\ at = 1 => Opens
  /\ BurnPart
  /\ pc' = IF at = PARTS THEN "verify" ELSE "burn"
  /\ UNCHANGED version

EfuseBurnFails ==
  /\ backend = "amlogic"
  /\ pc = "burn"
  /\ (at = 1 /\ (OpenFails \/ Fails("ioctl"))) \/ Fails("write")
  /\ Return(FALSE)
  /\ UNCHANGED <<cell, fds, version>>

(* efuse_read() and a comparison.  What cannot be read counts as right.    *)
EfuseVerify ==
  /\ pc = "verify"
  /\ \/ Opens /\ Return(Whole(val))
     \/ (OpenFails \/ Fails("ioctl") \/ Fails("read")) /\ Return(TRUE)
  /\ UNCHANGED <<cell, fds, version>>

(* UUID_getFormatEmmcUuid_imp(): efuse_read_usid() leaves a descriptor     *)
(* behind.                                                                 *)
EfuseGet ==
  /\ backend = "amlogic"
  /\ pc = "idle"
  /\ Opens
  /\ fds' = fds + 1
  /\ UNCHANGED <<backend, cell, pc, val, at, told, version>>

EfuseStep ==
  \/ EfuseSet
  \/ EfuseReadVersion
  \/ EfuseWriteVersion
  \/ EfuseCheck
  \/ EfuseReopen
  \/ EfuseBurn
  \/ EfuseBurnFails
  \/ EfuseVerify
  \/ EfuseGet
=============================================================================
