------------------------------- MODULE Crc32 -------------------------------
(***************************************************************************)
(* emmc_hi3716m_crc32.c and its twin emmc_hisi3716cv200_crc32.c: the CRC   *)
(* with a table of 256 entries.  A byte or a word is the set of its bits   *)
(* that are 1, bit 0 the least significant; exclusive or is the symmetric  *)
(* difference.                                                             *)
(***************************************************************************)
EXTENDS Naturals, Sequences

Byte == SUBSET (0 .. 7)
Ones == 0 .. 31

Xor(v, w) == (v \ w) \cup (w \ v)
ShiftRight(v, n) == {i - n : i \in {j \in v : j >= n}}

(* 0xEDB88320                                                              *)
P32 == {5, 8, 9, 15, 19, 20, 21, 23, 24, 26, 27, 29, 30, 31}

HalfStep(crc) ==
  IF 0 \in crc THEN Xor(ShiftRight(crc, 1), P32) ELSE ShiftRight(crc, 1)

(* A mutant: the loop over the bits ends one short.                        *)
table_entry_short(b) ==
  LET crc[j \in 0 .. 7] == IF j = 0 THEN b ELSE HalfStep(crc[j - 1])
  IN  crc[7]

(* init_crc32_tab(): CalcCRC32() fills crc_tab32 before its first use.     *)
table_entry(b) ==
  LET crc[j \in 0 .. 8] == IF j = 0 THEN b ELSE HalfStep(crc[j - 1])
  IN  crc[8]

crc_tab32 == [b \in Byte |-> table_entry(b)]

update_crc_32(crc, c) ==
  Xor(ShiftRight(crc, 8), crc_tab32[Xor(crc, c) \cap (0 .. 7)])

CalcCRC32(buf) ==
  LET crc32[i \in 0 .. Len(buf)] ==
        IF i = 0 THEN Ones ELSE update_crc_32(crc32[i - 1], buf[i])
  IN  Xor(crc32[Len(buf)], Ones)

-----------------------------------------------------------------------------
(* The reference: the remainder of a division by the CRC-32 polynomial     *)
(* 0x04C11DB7, bit by bit and without a table.  The message comes with the *)
(* least significant bit of each byte first; the register is complemented  *)
(* before and after, and its bits are read in reverse.                     *)
Polynomial == {0, 1, 2, 4, 5, 7, 8, 10, 11, 12, 16, 22, 23, 26}

Divide(register, bit) ==
  LET shifted == {i + 1 : i \in register \ {31}}
  IN  IF (31 \in register) # bit THEN Xor(shifted, Polynomial) ELSE shifted

DivideByte(register, byte) ==
  LET r[j \in 0 .. 8] ==
        IF j = 0 THEN register ELSE Divide(r[j - 1], (j - 1) \in byte)
  IN  r[8]

Remainder(buf) ==
  LET register[i \in 0 .. Len(buf)] ==
        IF i = 0 THEN Ones
        ELSE UNION {DivideByte(r, buf[i]) : r \in {register[i - 1]}}
  IN  {31 - i : i \in Xor(register[Len(buf)], Ones)}
=============================================================================
