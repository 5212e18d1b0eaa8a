------------------------------ MODULE UuidChip ------------------------------
(***************************************************************************)
(* What the write-once backends of libyunosfwnative share: the fuses of    *)
(* the chip (external), and the call of UUID_setFormatEmmcUuid() that is   *)
(* under way in the process of its caller.  Android.mk compiles one        *)
(* backend into the library.  A UUID is burnt in PARTS parts: burning can  *)
(* set bits and never clears them, so a part that was burnt with two UUIDs *)
(* holds neither.                                                          *)
(***************************************************************************)
EXTENDS Naturals, FiniteSets

CONSTANTS Backends,     \* the backends a library may be built with
          Uuids,        \* UUIDs that callers may set; no two share a part
          NoUuid,
          PARTS,        \* how many parts a UUID is burnt in
          MAXFD,        \* file descriptors that a process may hold
          ChipFaults    \* the calls that may fail

ASSUME NoUuidAssumption == NoUuid \notin Uuids
ASSUME StoredAssumption == {"blank", "spoilt"} \cap Uuids = {}
ASSUME PartsAssumption == PARTS \in Nat \ {0}
ASSUME MaxFdAssumption == MAXFD \in Nat
ASSUME ChipFaultsAssumption ==
  ChipFaults \subseteq {"open", "ioctl", "read", "write", "init"}

VARIABLES
  backend,   \* the backend of this library
  cell,      \* cell[p]: the UUIDs part p was burnt with
  pc,        \* the step that the call is at
  val,       \* the UUID it sets
  at,        \* the part it burns next
  fds,       \* descriptors that the process has leaked
  told       \* history: the UUIDs of which a call returned TRUE

chipVars == <<backend, cell, pc, val, at, fds, told>>

Parts == 1 .. PARTS

ChipTypeOK ==
  /\ backend \in Backends
  /\ cell \in [Parts -> SUBSET Uuids]
  /\ pc \in {"idle", "read_version", "write_version", "is_empty", "check",
             "reopen", "burn", "verify"}
  /\ val \in Uuids \cup {NoUuid}
  /\ at \in 1 .. PARTS + 1
  /\ fds \in 0 .. MAXFD
  /\ told \subseteq Uuids

ChipInit ==
  /\ backend \in Backends
  /\ cell = [p \in Parts |-> {}]
  /\ pc = "idle"
  /\ val = NoUuid
  /\ at = 1
  /\ fds = 0
  /\ told = {}

Whole(u) == \A p \in Parts : cell[p] = {u}
Blank == \A p \in Parts : cell[p] = {}

Opens == fds < MAXFD
OpenFails == fds >= MAXFD \/ "open" \in ChipFaults
Fails(call) == call \in ChipFaults

-----------------------------------------------------------------------------
(* UUID_setFormatEmmcUuid(): the call is passed on to the backend.         *)
Call(first) ==
  /\ pc = "idle"
  /\ pc' = first
  /\ val' \in Uuids
  /\ at' = 1
  /\ UNCHANGED <<backend, cell, fds, told>>

Goto(next) ==
  /\ pc' = next
  /\ UNCHANGED <<backend, val, at, told>>

Return(ok) ==
  /\ pc' = "idle"
  /\ val' = NoUuid
  /\ at' = 1
  /\ told' = IF ok THEN told \cup {val} ELSE told
  /\ UNCHANGED backend

BurnPart ==
  /\ cell' = [cell EXCEPT ![at] = @ \cup {val}]
  /\ at' = at + 1
  /\ UNCHANGED <<backend, val, fds, told>>

(* The process is killed, or the power goes: the fuses stay as they are.   *)
Dies ==
  /\ pc' = "idle"
  /\ val' = NoUuid
  /\ at' = 1
  /\ fds' = 0
  /\ UNCHANGED <<backend, cell, told>>
=============================================================================
