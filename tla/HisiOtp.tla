------------------------------ MODULE HisiOtp ------------------------------
(***************************************************************************)
(* The bytes behind the backend "hisi" of UuidRewrite: emmc_hi3716m.c and  *)
(* its twin.  What UuidDrivers takes for granted, that the CRC tells a     *)
(* whole UUID from a blank, torn or twice burnt memory, is checked here on *)
(* the 32 bytes that are really burnt, one part being one call of the      *)
(* driver.                                                                 *)
(***************************************************************************)
EXTENDS UuidRewrite, Crc32

CONSTANT UuidBytes  \* the bytes of each UUID

KEY == 16           \* bytes of the customer key, the first part
DATA == 24          \* bytes under the CRC
SIZE == 32

ASSUME HisiPartsAssumption == PARTS = 1 + SIZE - KEY
ASSUME UuidBytesAssumption ==
  \A u \in Uuids : UuidBytes[u] \in Seq(Byte) /\ Len(UuidBytes[u]) <= DATA

Pad(s, n) == s \o [i \in 1 .. n - Len(s) |-> {}]

(* The four bytes of a word in the order memcpy() finds them.              *)
WordBytes(w) == [k \in 1 .. 4 |-> {i - 8 * (k - 1) : i \in w} \cap (0 .. 7)]

(* A mutant: the CRC is that of the UUID without the zeros that follow it. *)
RecordOverLength(u) ==
  Pad(Pad(UuidBytes[u], DATA) \o WordBytes(CalcCRC32(UuidBytes[u])), SIZE)

(* What UUID_setFormatEmmcUuid() burns for u.                              *)
Record(u) ==
  LET data == Pad(UuidBytes[u], DATA)
  IN  Pad(data \o WordBytes(CalcCRC32(data)), SIZE)

Records == {[uuid |-> u, bytes |-> Record(u)] : u \in Uuids}

(* Which call of the driver burns the byte at i; the memory keeps the      *)
(* bits of everything that was ever burnt (external).                      *)
PartOf(i) == IF i <= KEY THEN 1 ELSE 1 + i - KEY

Memory(m) ==
  [i \in 1 .. SIZE |->
     UNION {r.bytes[i] : r \in {s \in Records : s.uuid \in m.cell[PartOf(i)]}}]

(* UUID_getFormatEmmcUuid(): the data under a CRC that fits, or NULL.      *)
NoData == <<>>

OtpGet(m) ==
  LET u8buf == Memory(m)
      data == SubSeq(u8buf, 1, DATA)
  IN  IF SubSeq(u8buf, DATA + 1, DATA + 4) = WordBytes(CalcCRC32(data))
      THEN data
      ELSE NoData

-----------------------------------------------------------------------------
(* The table-driven CalcCRC32() is the CRC-32 of its definition, on every  *)
(* content the memory can have.                                            *)
CrcIsCrc32 ==
  LET data == SubSeq(Memory(seen), 1, DATA)
  IN  CalcCRC32(data) = Remainder(data)

(* Bit by bit, a get returns a UUID only where each of the 17 calls burnt  *)
(* that UUID and no other, or had nothing but zeros of it left to burn,    *)
(* and NULL for a memory that is blank, torn by a failed call, a kill or a *)
(* power cut, or burnt with two UUIDs.  This is what HisiGet() allows.     *)
Complete(m, r) ==
  \A i \in 1 .. SIZE :
    \/ m.cell[PartOf(i)] = {r.uuid}
    \/ m.cell[PartOf(i)] = {} /\ r.bytes[i] = {}

GetIsWholeOrNull ==
  LET us == {r.uuid : r \in {s \in Records : Complete(seen, s)}}
  IN  /\ OtpGet(seen) \in
           IF us = {} THEN {NoData} ELSE {Pad(UuidBytes[u], DATA) : u \in us}
      /\ (IF us = {} THEN {NoUuid} ELSE us) \subseteq HisiGet(seen)

(* TRUE is kept bit by bit: where a set returned TRUE and no other UUID    *)
(* was ever burnt, even in part, a get returns the bytes of that UUID and  *)
(* zeros up to the 24th.  Failed, killed and repeated sets of the same     *)
(* UUID do no harm.                                                        *)
TrueIsReadBack ==
  told # NoUuid /\ backend = "hisi" /\ (\A p \in Parts : seen.cell[p] \subseteq {told}) =>
    OtpGet(seen) = Pad(UuidBytes[told], DATA)
=============================================================================
