----------------------------- MODULE UuidFiles -----------------------------
(***************************************************************************)
(* The backends that keep the UUID in a file or on a block device.  The    *)
(* kernel shows every write() at once and writes it back in its own time.  *)
(***************************************************************************)
EXTENDS UuidMedium

(* A mutant: the second write() is not checked.                            *)
RtdWriteUnchecked ==
  /\ backend = "rtd1815"
  /\ \/ WritePart({val}) /\ UNCHANGED disk
     \/ (Written \/ Short) /\ Goto("save")

(* emmc_rtd1815.c: open() without O_TRUNC, UUID_FLAG, and the UUID.        *)
RtdOpen ==
  /\ backend = "rtd1815"
  /\ pc = "open"
  /\ seen' = [seen EXCEPT !.file = TRUE]
  /\ Goto("flag")
  /\ UNCHANGED <<disk, cut>>

RtdFlag ==
  /\ pc = "flag"
  /\ \/ seen' = [seen EXCEPT !.flag = TRUE] /\ Goto("write") /\ UNCHANGED cut
     \/ Fails("write") /\ cut' = TRUE /\ Return(FALSE) /\ UNCHANGED seen
  /\ UNCHANGED disk

RtdWrite ==
  /\ backend = "rtd1815"
  /\ \/ WritePart({val}) /\ UNCHANGED disk
     \/ Written /\ Goto("save")
     \/ Short /\ Return(FALSE)

(* A mutant: "factory save" is left out.                                   *)
RtdSaveForgotten ==
  /\ backend = "rtd1815"
  /\ pc = "save"
  /\ Goto("sync")
  /\ UNCHANGED <<seen, disk, cut>>

(* The file is in /tmp: system("factory save") brings it to the flash.     *)
(* What system() returns is not looked at.                                 *)
RtdSave ==
  /\ backend = "rtd1815"
  /\ pc = "save"
  /\ \/ disk' = seen /\ UNCHANGED cut
     \/ Fails("save") /\ cut' = TRUE /\ UNCHANGED disk
  /\ Goto("sync")
  /\ UNCHANGED seen

(* system("sync") finds nothing to do: "factory save" wrote through.       *)
RtdReturn ==
  /\ pc = "sync"
  /\ Return(TRUE)
  /\ UNCHANGED <<seen, disk, cut>>

(* A mutant: the file is opened without being truncated.                   *)
DevIoOpenKeeps ==
  /\ backend = "dev_io"
  /\ pc = "open"
  /\ seen' = [seen EXCEPT !.file = TRUE]
  /\ Goto("write")
  /\ UNCHANGED <<disk, cut>>

(* emmc_dev_io.c: fopen("wb") truncates, fwrite() fills a buffer, and      *)
(* fclose() writes it.  That fwrite() was short is found out, what fclose()*)
(* returns is not looked at.                                               *)
DevIoOpen ==
  /\ backend = "dev_io"
  /\ pc = "open"
  /\ seen' = [Empty EXCEPT !.file = TRUE]
  /\ Goto("write")
  /\ UNCHANGED <<disk, cut>>

DevIoWrite ==
  /\ backend = "dev_io"
  /\ \/ WritePart({val}) /\ UNCHANGED disk
     \/ (Written \/ Short) /\ Goto("check")
     \/ Short /\ Return(FALSE)

(* "check uuid": the file is read into a fresh buffer.  If it is short the *)
(* rest of the buffer is what malloc() found there, and nobody knows how   *)
(* the comparison ends.                                                    *)
DevIoCheck ==
  /\ pc = "check"
  /\ \/ Whole(seen, val) /\ Return(TRUE)
     \/ ~Whole(seen, val) /\ \E luck \in BOOLEAN : Return(luck)
     \/ Fails("open") /\ Return(FALSE)
  /\ UNCHANGED <<seen, disk, cut>>

(* emmc_marvell_bg2_nand.c: after a short write() the file is removed, if  *)
(* it can be: what remove() returns is not looked at.                      *)
BgOpen ==
  /\ backend = "marvell_bg2"
  /\ pc = "open"
  /\ seen' = [seen EXCEPT !.file = TRUE]
  /\ Goto("write")
  /\ UNCHANGED <<disk, cut>>

BgWrite ==
  /\ backend = "marvell_bg2"
  /\ \/ WritePart({val}) /\ UNCHANGED disk
     \/ Written /\ Return(TRUE)
     \/ Short /\ Goto("remove")

BgRemove ==
  /\ pc = "remove"
  /\ \/ seen' = Empty
     \/ Fails("remove") /\ UNCHANGED seen
  /\ Return(FALSE)
  /\ UNCHANGED <<disk, cut>>

(* emmc_samsung_exynos4x12.c: fputc() fills a buffer and fclose() writes   *)
(* it to the block device.  fsync() is given the FILE instead of its       *)
(* descriptor and does nothing; no result is looked at.                    *)
SamsungOpen ==
  /\ backend = "samsung"
  /\ pc = "open"
  /\ Goto("write")
  /\ UNCHANGED <<seen, disk, cut>>

SamsungWrite ==
  /\ backend = "samsung"
  /\ \/ WritePart({val}) /\ UNCHANGED disk
     \/ (Written \/ Short) /\ Return(TRUE)

(* The kernel writes the page back.                                        *)
Writeback ==
  /\ backend \in {"dev_io", "marvell_bg2", "samsung"}
  /\ disk # seen
  /\ disk' = seen
  /\ UNCHANGED <<backend, seen, pc, val, at, cut, told>>

FilesStep ==
  \/ RtdOpen \/ RtdFlag \/ RtdWrite \/ RtdSave \/ RtdReturn
  \/ DevIoOpen \/ DevIoWrite \/ DevIoCheck
  \/ BgOpen \/ BgWrite \/ BgRemove
  \/ SamsungOpen \/ SamsungWrite
  \/ Writeback

-----------------------------------------------------------------------------
(* What UUID_getFormatEmmcUuid() may return of a medium m; NoUuid for NULL.*)

(* If the file is empty, the flag is a local variable that nobody wrote.   *)
RtdGet(m) == IF m.file /\ m.flag THEN Bytes(m)
             ELSE IF m.file THEN {NoUuid, "other"}
             ELSE {NoUuid}

(* A short read leaves the end of the buffer as malloc() found it, with    *)
(* the missing parts of a UUID or with anything else.                      *)
DevIoGet(m) ==
  IF ~m.file THEN {NoUuid}
  ELSE IF \A p \in Parts : m.cell[p] # {} THEN Bytes(m)
  ELSE {"other"} \cup {u \in Uuids : \A p \in Parts : m.cell[p] \subseteq {u}}

(* A short read is an error.                                               *)
BgGet(m) == IF m.file /\ \A p \in Parts : m.cell[p] # {} THEN Bytes(m)
            ELSE {NoUuid}

(* A block device is never short.                                          *)
SamsungGet(m) == Bytes(m)
=============================================================================
