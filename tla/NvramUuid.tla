----------------------------- MODULE NvramUuid -----------------------------
(***************************************************************************)
(* nvram_mt6589.c: the UUID is one field of the PRODUCT_INFO record, whose *)
(* other fields belong to other programs.  nvramControl() waits for the    *)
(* property nvram_init, reads the record, and writes all of it back.       *)
(***************************************************************************)
EXTENDS UuidMedium

CONSTANTS MAX_RETRY_COUNT,  \* how often the property is polled
          CHANGES           \* bound: how often other programs write

ASSUME RetryAssumption == MAX_RETRY_COUNT \in Nat
ASSUME ChangesAssumption == CHANGES \in Nat

VARIABLES
  ready,  \* the property nvram_init is "Ready"
  tries,  \* how often this call has polled it in vain
  image,  \* the other fields, as barcode_struct holds them
  rest,   \* the other fields of the record, as read() and the disk have them
  wrote,  \* history: the last change that other programs made to them
  raced   \* history: that change came after the call had read the record

nvramVars == <<ready, tries, image, rest, wrote, raced>>

NvramTypeOK ==
  /\ ready \in BOOLEAN
  /\ tries \in 0 .. MAX_RETRY_COUNT
  /\ image \in 0 .. CHANGES
  /\ rest \in [{"seen", "disk"} -> 0 .. CHANGES]
  /\ wrote \in 0 .. CHANGES
  /\ raced \in BOOLEAN

NvramInit ==
  /\ ready = FALSE
  /\ tries = 0
  /\ image = 0
  /\ rest = [w \in {"seen", "disk"} |-> 0]
  /\ wrote = 0
  /\ raced = FALSE

Mt6589 == backend = "mt6589"

-----------------------------------------------------------------------------
(* The turns of the loop that waits; after the last one the call fails.    *)
PollNotReady ==
  /\ Mt6589 /\ pc = "open"
  /\ tries < MAX_RETRY_COUNT
  /\ ~ready
  /\ tries' = tries + 1
  /\ UNCHANGED <<mediumVars, ready, image, rest, wrote, raced>>

PollReady ==
  /\ Mt6589 /\ pc = "open"
  /\ tries < MAX_RETRY_COUNT
  /\ ready
  /\ tries' = 0
  /\ Goto("read")
  /\ UNCHANGED <<seen, disk, cut, ready, image, rest, wrote, raced>>

RetriesSpent ==
  /\ Mt6589 /\ pc = "open"
  /\ tries >= MAX_RETRY_COUNT
  /\ tries' = 0
  /\ Return(FALSE)
  /\ UNCHANGED <<seen, disk, cut, ready, image, rest, wrote, raced>>

(* A mutant: the record is not read before it is written.                  *)
ReadRecordSkipped ==
  /\ Mt6589 /\ pc = "read"
  /\ image' = 0
  /\ Goto("write")
  /\ UNCHANGED <<seen, disk, cut, ready, tries, rest, wrote, raced>>

(* NVM_GetFileDesc() and read(), which must deliver the whole record.      *)
ReadRecord ==
  /\ Mt6589 /\ pc = "read"
  /\ \/ image' = rest["seen"] /\ Goto("write")
     \/ /\ Fails("open") \/ Fails("read")
        /\ Return(FALSE)
        /\ UNCHANGED image
  /\ UNCHANGED <<seen, disk, cut, ready, tries, rest, wrote, raced>>

(* The second NVM_GetFileDesc(), and one write() of the record: the other  *)
(* fields come first.  A short write and a failed close are FALSE.         *)
WriteRecord ==
  /\ Mt6589
  /\ \/ /\ WritePart({val})
        /\ rest' = IF at = 1 THEN [rest EXCEPT !["seen"] = image] ELSE rest
        /\ UNCHANGED disk
     \/ Written /\ Return(TRUE) /\ UNCHANGED rest
     \/ Written /\ Fails("save") /\ Return(FALSE) /\ UNCHANGED rest
     \/ Short /\ Return(FALSE) /\ UNCHANGED rest
     \/ /\ pc = "write" /\ at = 1
        /\ Fails("open")
        /\ Return(FALSE)
        /\ UNCHANGED <<seen, disk, cut, rest>>
  /\ UNCHANGED <<ready, tries, image, wrote, raced>>

-----------------------------------------------------------------------------
(* The NVRAM daemon finishes its start, another program changes its fields *)
(* of the record, and the kernel writes the record back (all external).    *)
(* Assumed of other programs: they write their own fields, never a record  *)
(* that they read earlier, with the UUID of that time in it.               *)
DaemonReady ==
  /\ Mt6589 /\ ~ready
  /\ ready' = TRUE
  /\ UNCHANGED <<mediumVars, tries, image, rest, wrote, raced>>

OtherWrites ==
  /\ Mt6589 /\ ready
  /\ wrote < CHANGES
  /\ wrote' = wrote + 1
  /\ rest' = [rest EXCEPT !["seen"] = wrote + 1]
  /\ raced' = (pc = "write" /\ at = 1)
  /\ UNCHANGED <<mediumVars, ready, tries, image>>

RecordWriteback ==
  /\ Mt6589
  /\ disk # seen \/ rest["disk"] # rest["seen"]
  /\ disk' = seen
  /\ rest' = [rest EXCEPT !["disk"] = rest["seen"]]
  /\ UNCHANGED <<backend, seen, pc, val, at, cut, told,
                 ready, tries, image, wrote, raced>>

NvramStep ==
  \/ PollNotReady \/ PollReady \/ RetriesSpent
  \/ ReadRecord \/ WriteRecord
  \/ DaemonReady \/ OtherWrites \/ RecordWriteback

(* The process is killed; the power goes.                                  *)
NvramKilled ==
  /\ tries' = 0
  /\ image' = 0
  /\ UNCHANGED <<ready, rest, wrote, raced>>

NvramPowerCut ==
  /\ ready' = FALSE
  /\ tries' = 0
  /\ image' = 0
  /\ rest' = [rest EXCEPT !["seen"] = rest["disk"]]
  /\ wrote' = rest["disk"]
  /\ raced' = FALSE

(* What UUID_getFormatEmmcUuid() may return of a medium m: NULL as long as *)
(* the property is not set.                                                *)
NvramGet(m) == Bytes(m) \cup IF ready THEN {} ELSE {NoUuid}
=============================================================================
