----------------------------- MODULE UuidMedium -----------------------------
(***************************************************************************)
(* What the backends of libyunosfwnative share that may be set again: the  *)
(* medium that holds the UUID (external), and the call of                  *)
(* UUID_setFormatEmmcUuid() that is under way in the process of its        *)
(* caller.  A UUID is written in PARTS parts and is smaller than a page:   *)
(* the kernel writes it back to the disk as one.                           *)
(***************************************************************************)
EXTENDS Naturals, FiniteSets

CONSTANTS Backends,    \* the backends a library may be built with
          Uuids,       \* UUIDs that callers may set; no two share a part
          NoUuid,
          PARTS,       \* how many parts a UUID is written in
          MediumFaults \* the calls that may fail

ASSUME NoUuidAssumption == NoUuid \notin Uuids
ASSUME PartsAssumption == PARTS \in Nat \ {0}
ASSUME FaultsAssumption == MediumFaults \subseteq {"open", "read", "write", "save", "remove"}

VARIABLES
  backend,   \* the backend of this library
  seen,      \* the medium as open() and read() show it
  disk,      \* the medium as the next boot will find it
  pc,        \* the step that the call is at
  val,       \* the UUID it sets
  at,        \* the part it writes next
  cut,       \* history: a write of this call stopped short or failed
  told       \* history: the UUID of which the last call returned TRUE

mediumVars == <<backend, seen, disk, pc, val, at, cut, told>>

Parts == 1 .. PARTS

(* Whether there is a file, whether it starts with UUID_FLAG (rtd1815),    *)
(* and the UUIDs that each part was written with.                          *)
Media == [file : BOOLEAN, flag : BOOLEAN, cell : [Parts -> SUBSET Uuids]]

Empty == [file |-> FALSE, flag |-> FALSE, cell |-> [p \in Parts |-> {}]]

MediumTypeOK ==
  /\ backend \in Backends
  /\ seen \in Media
  /\ disk \in Media
  /\ pc \in {"idle", "open", "flag", "read", "write", "remove", "check", "save", "sync"}
  /\ val \in Uuids \cup {NoUuid}
  /\ at \in 1 .. PARTS + 1
  /\ cut \in BOOLEAN
  /\ told \in Uuids \cup {NoUuid}

MediumInit ==
  /\ backend \in Backends
  /\ seen = Empty
  /\ disk = Empty
  /\ pc = "idle"
  /\ val = NoUuid
  /\ at = 1
  /\ cut = FALSE
  /\ told = NoUuid

Fails(call) == call \in MediumFaults

Whole(m, u) == \A p \in Parts : m.cell[p] = {u}

(* The bytes that a read finds; "other" for what nobody set as a UUID.     *)
Bytes(m) == LET us == {u \in Uuids : Whole(m, u)}
            IN  IF us = {} THEN {"other"} ELSE us

-----------------------------------------------------------------------------
(* UUID_setFormatEmmcUuid() starts, goes on, and returns.                  *)
Set ==
  /\ pc = "idle"
  /\ pc' = "open"
  /\ val' \in Uuids
  /\ at' = 1
  /\ cut' = FALSE
  /\ told' = NoUuid
  /\ UNCHANGED <<backend, seen, disk>>

Goto(next) ==
  /\ pc' = next
  /\ UNCHANGED <<backend, val, at, told>>

Return(ok) ==
  /\ pc' = "idle"
  /\ val' = NoUuid
  /\ at' = 1
  /\ told' = IF ok THEN val ELSE NoUuid
  /\ UNCHANGED backend

(* The backends whose set begins with something else than an open().       *)
NoOpen == {"mt6589", "wm8880", "marvell3108", "memory_debug", "default"}

OpenFails ==
  /\ pc = "open"
  /\ backend \notin NoOpen
  /\ Fails("open")
  /\ Return(FALSE)
  /\ UNCHANGED <<seen, disk, cut>>

(* A mutant: the loop runs one part too far.                               *)
WritePartMore(new) ==
  /\ pc = "write"
  /\ at <= PARTS + 1
  /\ seen' = [seen EXCEPT !.cell[at] = new]
  /\ at' = at + 1
  /\ UNCHANGED <<backend, pc, val, cut, told>>

(* write() takes the next part ...                                         *)
WritePart(new) ==
  /\ pc = "write"
  /\ at <= PARTS
  /\ seen' = [seen EXCEPT !.cell[at] = new]
  /\ at' = at + 1
  /\ UNCHANGED <<backend, pc, val, cut, told>>

(* ... until all is written, or it stops short.                            *)
Written == pc = "write" /\ at > PARTS /\ UNCHANGED <<seen, disk, cut>>

Short ==
  /\ pc = "write"
  /\ at <= PARTS
  /\ Fails("write")
  /\ cut' = TRUE
  /\ UNCHANGED <<seen, disk>>

(* The process is killed: the kernel keeps what was written, and a buffer  *)
(* of the process is gone with what was promised of it.                    *)
InProcess == {"memory_debug"}

Killed ==
  /\ pc' = "idle"
  /\ val' = NoUuid
  /\ at' = 1
  /\ seen' = IF backend \in InProcess THEN Empty ELSE seen
  /\ told' = IF backend \in InProcess THEN NoUuid ELSE told
  /\ UNCHANGED <<backend, disk, cut>>

(* The power goes: the next boot finds what reached the disk.              *)
PowerCut ==
  /\ seen' = disk
  /\ pc' = "idle"
  /\ val' = NoUuid
  /\ at' = 1
  /\ cut' = FALSE
  /\ told' = NoUuid
  /\ UNCHANGED <<backend, disk>>
=============================================================================
