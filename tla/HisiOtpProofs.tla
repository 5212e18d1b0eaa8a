--------------------------- MODULE HisiOtpProofs ----------------------------
(***************************************************************************)
(* The CRC with a table is the CRC-32 of its definition, for every message *)
(* of bytes, and what the HiSilicon backend burns is what it reads back,   *)
(* for every UUID.  The recursions are functions over an interval; what    *)
(* they compute is proved by induction in the form of a set of numbers     *)
(* that holds 0 and the successor of each of its members.                  *)
(***************************************************************************)
EXTENDS HisiOtp, UuidRewriteProofs, SequenceTheorems, WellFoundedInduction

-----------------------------------------------------------------------------
(* Induction, and recursions over 0 .. n.                                  *)

(* Induction: a set of numbers that holds 0 and every successor holds all  *)
(* of them, or else the least number outside would have a predecessor.     *)
LEMMA NatSetInduction ==
  ASSUME NEW T \in SUBSET Nat, 0 \in T, \A n \in T : n + 1 \in T
  PROVE  T = Nat
<1> DEFINE R == OpToRel(<, Nat)
           S == Nat \ T
<1>1. SUFFICES ASSUME S # {} PROVE FALSE
  OBVIOUS
<1>2. \E x \in S : \A y \in S : ~(<<y, x>> \in R)
  <2>1. IsWellFoundedOn(R, Nat)
    BY NatLessThanWellFounded, Zenon
  <2>2. S \subseteq Nat
    OBVIOUS
  <2> HIDE DEF R, S
  <2>3. QED
    BY <1>1, <2>1, <2>2, WFMin, Zenon
<1>3. PICK x \in S : \A y \in S : ~(<<y, x>> \in R)
  BY <1>2, Zenon
<1>4. \A y \in S : ~(y < x)
  BY <1>3, Zenon DEF OpToRel
<1>5. x - 1 \in T
  BY <1>4
<1>6. QED
  BY <1>5

(* A loop of n rounds over values of S has a run: there is a function      *)
(* whose value at i is g of the value at i - 1 and of i.                   *)
Recurses(S, first, n, g) ==
  \E f \in [0 .. n -> S] : f[0] = first /\ \A i \in 1 .. n : f[i] = g[<<f[i - 1], i>>]

LEMMA RecursionExists ==
  ASSUME NEW S, NEW first \in S, NEW n \in Nat, NEW g \in [S \X (1 .. n) -> S]
  PROVE  Recurses(S, first, n, g)
<1> DEFINE Upto(f, m) == f[0] = first /\ \A i \in 1 .. m : f[i] = g[<<f[i - 1], i>>]
           T == {m \in Nat : m <= n => \E f \in [0 .. m -> S] : Upto(f, m)}
<1>1. 0 \in T
  <2> DEFINE f == [i \in 0 .. 0 |-> first]
  <2>1. f \in [0 .. 0 -> S] /\ Upto(f, 0)
    OBVIOUS
  <2>2. QED
    BY <2>1
<1>2. ASSUME NEW m \in T PROVE m + 1 \in T
  <2>1. SUFFICES ASSUME m + 1 <= n PROVE \E f \in [0 .. m + 1 -> S] : Upto(f, m + 1)
    OBVIOUS
  <2>2. PICK f \in [0 .. m -> S] : Upto(f, m)
    BY <2>1
  <2> DEFINE h == [i \in 0 .. m + 1 |-> IF i <= m THEN f[i] ELSE g[<<f[m], m + 1>>]]
  <2>3. g[<<f[m], m + 1>>] \in S
    BY <2>1
  <2>4. h \in [0 .. m + 1 -> S]
    BY <2>3
  <2>5. ASSUME NEW i \in 1 .. m + 1 PROVE h[i] = g[<<h[i - 1], i>>]
    <3>1. CASE i <= m
      <4>1. i \in 1 .. m /\ i - 1 \in 0 .. m
        BY <3>1
      <4>2. h[i] = f[i] /\ h[i - 1] = f[i - 1]
        BY <4>1
      <4>3. QED
        BY <4>1, <4>2, <2>2
    <3>2. CASE i = m + 1
      <4>1. h[i] = g[<<f[m], m + 1>>] /\ h[i - 1] = f[m]
        BY <3>2
      <4>2. QED
        BY <4>1, <3>2
    <3>3. QED
      BY <3>1, <3>2
  <2>6. h[0] = first
    BY <2>2
  <2> HIDE DEF h
  <2>7. QED
    BY <2>4, <2>5, <2>6
<1> HIDE DEF T
<1>3. T = Nat
  <2>1. T \in SUBSET Nat
    BY DEF T
  <2>2. QED
    BY <1>1, <1>2, <2>1, NatSetInduction
<1>4. n \in T
  BY <1>3
<1>5. QED
  BY <1>4 DEF T, Recurses

(* Two functions with the same first value, that take the same step where  *)
(* they agree, are equal over the whole interval.                          *)
LEMMA RecursionAgrees ==
  ASSUME NEW n \in Nat, NEW f, NEW h, h[0] = f[0],
         \A i \in 1 .. n : h[i - 1] = f[i - 1] => h[i] = f[i]
  PROVE  \A i \in 0 .. n : h[i] = f[i]
<1> DEFINE T == {i \in Nat : i <= n => h[i] = f[i]}
<1>1. 0 \in T
  OBVIOUS
<1>2. ASSUME NEW i \in T PROVE i + 1 \in T
  <2>1. SUFFICES ASSUME i + 1 <= n PROVE h[i + 1] = f[i + 1]
    OBVIOUS
  <2>2. i + 1 \in 1 .. n /\ (i + 1) - 1 = i /\ h[i] = f[i]
    BY <2>1
  <2>3. QED
    BY <2>2
<1>3. T = Nat
  <2>1. T \in SUBSET Nat
    OBVIOUS
  <2> HIDE DEF T
  <2>2. QED
    BY <1>1, <1>2, <2>1, NatSetInduction
<1>4. QED
  BY <1>3

-----------------------------------------------------------------------------
(* Words as sets of bits.                                                  *)

Word == SUBSET Ones
Reversed(v) == {31 - i : i \in v}

(* The bits of an exclusive or.                                            *)
LEMMA XorBits ==
  ASSUME NEW v \in Word, NEW w \in Word
  PROVE  /\ Xor(v, w) \in Word
         /\ \A i \in Ones : i \in Xor(v, w) <=> ((i \in v) # (i \in w))
BY DEF Word, Xor

(* A shift to the right.                                                   *)
LEMMA ShiftBits ==
  ASSUME NEW v \in Word, NEW n \in Nat
  PROVE  /\ ShiftRight(v, n) \in Word
         /\ \A i \in Ones : i \in ShiftRight(v, n) <=> i + n \in v
<1>1. ShiftRight(v, n) \in Word
  BY DEF Word, ShiftRight, Ones
<1>2. ASSUME NEW i \in Ones PROVE i \in ShiftRight(v, n) <=> i + n \in v
  <2>1. ASSUME i \in ShiftRight(v, n) PROVE i + n \in v
    BY <2>1 DEF Word, ShiftRight, Ones
  <2>2. ASSUME i + n \in v PROVE i \in ShiftRight(v, n)
    <3>1. i + n >= n /\ i = (i + n) - n
      BY DEF Ones
    <3>2. QED
      BY <3>1, <2>2 DEF ShiftRight
  <2>3. QED
    BY <2>1, <2>2
<1>3. QED
  BY <1>1, <1>2

(* The bits in reverse.                                                    *)
LEMMA ReversedBits ==
  ASSUME NEW v \in Word
  PROVE  /\ Reversed(v) \in Word
         /\ \A i \in Ones : i \in Reversed(v) <=> 31 - i \in v
<1>1. Reversed(v) \in Word
  BY DEF Word, Reversed, Ones
<1>2. ASSUME NEW i \in Ones PROVE i \in Reversed(v) <=> 31 - i \in v
  <2>1. ASSUME i \in Reversed(v) PROVE 31 - i \in v
    BY <2>1 DEF Word, Reversed, Ones
  <2>2. ASSUME 31 - i \in v PROVE i \in Reversed(v)
    <3>1. i = 31 - (31 - i)
      BY DEF Ones
    <3>2. QED
      BY <3>1, <2>2 DEF Reversed
  <2>3. QED
    BY <2>1, <2>2
<1>3. QED
  BY <1>1, <1>2

(* Two words with the same bits are equal.                                 *)
LEMMA SameBits ==
  ASSUME NEW v \in Word, NEW w \in Word, \A i \in Ones : i \in v <=> i \in w
  PROVE  v = w
BY DEF Word

(* One round of the loop of init_crc32_tab().                              *)
LEMMA HalfStepBits ==
  ASSUME NEW v \in Word
  PROVE  /\ HalfStep(v) \in Word
         /\ \A i \in Ones : i \in HalfStep(v) <=> ((i + 1 \in v) # (0 \in v /\ i \in P32))
<1>1. P32 \in Word
  BY DEF P32, Word, Ones
<1>2. /\ ShiftRight(v, 1) \in Word
      /\ \A i \in Ones : i \in ShiftRight(v, 1) <=> i + 1 \in v
  BY ShiftBits
<1>3. QED
  BY <1>1, <1>2, XorBits DEF HalfStep

(* One bit of the division, as it looks from the other end.                *)
LEMMA DivideBits ==
  ASSUME NEW v \in Word, NEW bit \in BOOLEAN
  PROVE  /\ Divide(v, bit) \in Word
         /\ \A i \in Ones :
              31 - i \in Divide(v, bit) <=>
                ((i # 31 /\ 30 - i \in v) # (((31 \in v) # bit) /\ i \in P32))
<1> DEFINE shifted == {i + 1 : i \in v \ {31}}
<1>1. Polynomial \in Word
  BY DEF Polynomial, Word, Ones
<1>2. shifted \in Word
  BY DEF Word, Ones
<1>3. ASSUME NEW i \in Ones PROVE 31 - i \in shifted <=> i # 31 /\ 30 - i \in v
  <2>1. ASSUME 31 - i \in shifted PROVE i # 31 /\ 30 - i \in v
    BY <2>1 DEF Word, Ones
  <2>2. ASSUME i # 31, 30 - i \in v PROVE 31 - i \in shifted
    <3>1. 31 - i = (30 - i) + 1 /\ 30 - i # 31
      BY DEF Ones
    <3>2. QED
      BY <3>1, <2>2
  <2>3. QED
    BY <2>1, <2>2
<1>4. ASSUME NEW i \in Ones PROVE 31 - i \in Polynomial <=> i \in P32
  BY DEF Polynomial, P32, Ones
<1>5. \A i \in Ones : 31 - i \in Ones
  BY DEF Ones
<1>6. Divide(v, bit) = IF (31 \in v) # bit THEN Xor(shifted, Polynomial) ELSE shifted
  BY DEF Divide
<1> HIDE DEF shifted
<1>7. QED
  BY <1>1, <1>2, <1>3, <1>4, <1>5, <1>6, XorBits

(* After j bits of a byte: d is the register of the division, t what the   *)
(* table's loop has made of the low byte, m the part of the CRC that waits *)
(* above it, c the byte of the message.  Bit i of the CRC is bit 31 - i of *)
(* the register; the bits of m and c that are j above it are still to come. *)
Tracks(d, t, m, c, j) ==
  \A i \in Ones : 31 - i \in d <=> (((i \in t) # (i + j \in m)) # (i + j \in c))

(* One bit more of both.                                                   *)
LEMMA BitTracks ==
  ASSUME NEW d \in Word, NEW t \in Word, NEW m \in Word, NEW c \in Byte, NEW j \in 0 .. 7,
         m \cap (0 .. 7) = {}, Tracks(d, t, m, c, j)
  PROVE  Tracks(Divide(d, j \in c), HalfStep(t), m, c, j + 1)
<1>1. (31 \in d) # (j \in c) <=> 0 \in t
  <2>1. 31 \in d <=> (((0 \in t) # (j \in m)) # (j \in c))
    <3>1. 0 \in Ones /\ 31 - 0 = 31 /\ 0 + j = j
      BY DEF Ones
    <3>2. QED
      BY <3>1 DEF Tracks
  <2>2. j \notin m
    OBVIOUS
  <2>3. QED
    BY <2>1, <2>2
<1>2. SUFFICES ASSUME NEW i \in Ones
               PROVE  31 - i \in Divide(d, j \in c) <=>
                        (((i \in HalfStep(t)) # (i + (j + 1) \in m)) # (i + (j + 1) \in c))
  BY DEF Tracks
<1>3. 31 - i \in Divide(d, j \in c) <=>
        ((i # 31 /\ 30 - i \in d) # (0 \in t /\ i \in P32))
  <2>1. (j \in c) \in BOOLEAN
    OBVIOUS
  <2>2. QED
    BY <1>1, <2>1, DivideBits
<1>4. i \in HalfStep(t) <=> ((i + 1 \in t) # (0 \in t /\ i \in P32))
  BY HalfStepBits
<1>5. (i # 31 /\ 30 - i \in d) <=>
        (((i + 1 \in t) # (i + (j + 1) \in m)) # (i + (j + 1) \in c))
  <2>1. CASE i = 31
    <3>1. 32 \notin t /\ 32 + j \notin m /\ 32 + j \notin c
      BY DEF Word, Ones, Byte
    <3>2. QED
      BY <2>1, <3>1
  <2>2. CASE i # 31
    <3>1. i + 1 \in Ones /\ 31 - (i + 1) = 30 - i /\ (i + 1) + j = i + (j + 1)
      BY <2>2 DEF Ones
    <3>2. QED
      BY <2>2, <3>1 DEF Tracks
  <2>3. QED
    BY <2>1, <2>2
<1>6. QED
  BY <1>3, <1>4, <1>5

(* The loop of init_crc32_tab() over the bits of one entry, as a run.      *)
LEMMA TableSteps ==
  ASSUME NEW b \in Word
  PROVE  \E t \in [0 .. 8 -> Word] :
           /\ t[0] = b
           /\ \A j \in 1 .. 8 : t[j] = HalfStep(t[j - 1])
           /\ table_entry(b) = t[8]
<1> DEFINE g == [p \in Word \X (1 .. 8) |-> HalfStep(p[1])]
<1>1. g \in [Word \X (1 .. 8) -> Word]
  BY HalfStepBits
<1>2. Recurses(Word, b, 8, g)
  <2>1. 8 \in Nat /\ b \in Word
    OBVIOUS
  <2> HIDE DEF g
  <2>2. QED
    BY <1>1, <2>1, RecursionExists, Zenon
<1> PICK t \in [0 .. 8 -> Word] : t[0] = b /\ \A j \in 1 .. 8 : t[j] = g[<<t[j - 1], j>>]
  BY <1>2, Zenon DEF Recurses
<1>3. \A j \in 1 .. 8 : t[j] = HalfStep(t[j - 1])
  <2>1. ASSUME NEW j \in 1 .. 8 PROVE t[j] = HalfStep(t[j - 1])
    <3>1. j - 1 \in 0 .. 8
      OBVIOUS
    <3>2. <<t[j - 1], j>> \in Word \X (1 .. 8)
      BY <3>1
    <3>3. g[<<t[j - 1], j>>] = HalfStep(t[j - 1])
      BY <3>2
    <3>4. QED
      BY <3>3
  <2>2. QED
    BY <2>1
<1> DEFINE crc == CHOOSE crc : crc = [j \in 0 .. 8 |-> IF j = 0 THEN b ELSE HalfStep(crc[j - 1])]
<1>4. t = [j \in 0 .. 8 |-> IF j = 0 THEN b ELSE HalfStep(t[j - 1])]
  BY <1>3
<1>5. crc = [j \in 0 .. 8 |-> IF j = 0 THEN b ELSE HalfStep(crc[j - 1])]
  BY <1>4
<1>6. table_entry(b) = crc[8]
  BY DEF table_entry
<1> HIDE DEF crc
<1>7. \A j \in 0 .. 8 : crc[j] = t[j]
  <2>1. crc[0] = t[0]
    BY <1>5
  <2>2. \A j \in 1 .. 8 : crc[j - 1] = t[j - 1] => crc[j] = t[j]
    BY <1>5, <1>3
  <2>3. 8 \in Nat
    OBVIOUS
  <2>4. QED
    BY <2>1, <2>2, <2>3, RecursionAgrees
<1>8. QED
  BY <1>3, <1>6, <1>7

(* The division of one byte, as a run.                                     *)
LEMMA DivideSteps ==
  ASSUME NEW register \in Word, NEW byte \in Byte
  PROVE  \E d \in [0 .. 8 -> Word] :
           /\ d[0] = register
           /\ \A j \in 1 .. 8 : d[j] = Divide(d[j - 1], (j - 1) \in byte)
           /\ DivideByte(register, byte) = d[8]
<1> DEFINE g == [p \in Word \X (1 .. 8) |-> Divide(p[1], (p[2] - 1) \in byte)]
<1>1. g \in [Word \X (1 .. 8) -> Word]
  <2>1. ASSUME NEW p \in Word \X (1 .. 8) PROVE Divide(p[1], (p[2] - 1) \in byte) \in Word
    <3>1. p[1] \in Word /\ ((p[2] - 1) \in byte) \in BOOLEAN
      OBVIOUS
    <3>2. QED
      BY <3>1, DivideBits
  <2>2. QED
    BY <2>1
<1>2. Recurses(Word, register, 8, g)
  <2>1. 8 \in Nat /\ register \in Word
    OBVIOUS
  <2> HIDE DEF g
  <2>2. QED
    BY <1>1, <2>1, RecursionExists, Zenon
<1> PICK d \in [0 .. 8 -> Word] : d[0] = register /\ \A j \in 1 .. 8 : d[j] = g[<<d[j - 1], j>>]
  BY <1>2, Zenon DEF Recurses
<1>3. \A j \in 1 .. 8 : d[j] = Divide(d[j - 1], (j - 1) \in byte)
  <2>1. ASSUME NEW j \in 1 .. 8 PROVE d[j] = Divide(d[j - 1], (j - 1) \in byte)
    <3>1. j - 1 \in 0 .. 8
      OBVIOUS
    <3>2. <<d[j - 1], j>> \in Word \X (1 .. 8)
      BY <3>1
    <3>3. g[<<d[j - 1], j>>] = Divide(d[j - 1], (j - 1) \in byte)
      BY <3>2
    <3>4. QED
      BY <3>3
  <2>2. QED
    BY <2>1
<1> DEFINE r == CHOOSE r : r = [j \in 0 .. 8 |->
                  IF j = 0 THEN register ELSE Divide(r[j - 1], (j - 1) \in byte)]
<1>4. d = [j \in 0 .. 8 |-> IF j = 0 THEN register ELSE Divide(d[j - 1], (j - 1) \in byte)]
  BY <1>3
<1>5. r = [j \in 0 .. 8 |-> IF j = 0 THEN register ELSE Divide(r[j - 1], (j - 1) \in byte)]
  BY <1>4
<1>6. DivideByte(register, byte) = r[8]
  BY DEF DivideByte
<1> HIDE DEF r
<1>7. \A j \in 0 .. 8 : r[j] = d[j]
  <2>1. r[0] = d[0]
    BY <1>5
  <2>2. \A j \in 1 .. 8 : r[j - 1] = d[j - 1] => r[j] = d[j]
    BY <1>5, <1>3
  <2>3. 8 \in Nat
    OBVIOUS
  <2>4. QED
    BY <2>1, <2>2, <2>3, RecursionAgrees
<1>8. QED
  BY <1>3, <1>6, <1>7

(* One look into the table is the division of eight bits.                  *)
LEMMA ByteStep ==
  ASSUME NEW d \in Word, NEW w \in Word, NEW c \in Byte, w = Reversed(d)
  PROVE  /\ update_crc_32(w, c) \in Word
         /\ DivideByte(d, c) \in Word
         /\ update_crc_32(w, c) = Reversed(DivideByte(d, c))
<1> DEFINE b == Xor(w, c) \cap (0 .. 7)
           m == w \ (0 .. 7)
<1>1. c \in Word
  BY DEF Byte, Word, Ones
<1>2. Xor(w, c) \in Word /\ \A i \in Ones : i \in Xor(w, c) <=> ((i \in w) # (i \in c))
  BY <1>1, XorBits
<1>3. b \in Byte /\ b \in Word /\ m \in Word /\ m \cap (0 .. 7) = {}
  BY <1>2 DEF Byte, Word
<1>4. PICK t \in [0 .. 8 -> Word] :
           /\ t[0] = b
           /\ \A j \in 1 .. 8 : t[j] = HalfStep(t[j - 1])
           /\ table_entry(b) = t[8]
  BY <1>3, TableSteps
<1>5. PICK r \in [0 .. 8 -> Word] :
           /\ r[0] = d
           /\ \A j \in 1 .. 8 : r[j] = Divide(r[j - 1], (j - 1) \in c)
           /\ DivideByte(d, c) = r[8]
  BY DivideSteps
<1>6. \A i \in Ones : i \in w <=> 31 - i \in d
  BY ReversedBits
<1>7. Tracks(d, b, m, c, 0)
  <2>1. SUFFICES ASSUME NEW i \in Ones
                 PROVE  31 - i \in d <=> (((i \in b) # (i + 0 \in m)) # (i + 0 \in c))
    BY DEF Tracks
  <2>2. i + 0 = i
    BY DEF Ones
  <2>3. i \in 0 .. 7 => (i \in b <=> ((i \in w) # (i \in c))) /\ i \notin m
    BY <1>2
  <2>4. i \notin 0 .. 7 => i \notin b /\ i \notin c /\ (i \in m <=> i \in w)
    BY DEF Byte
  <2>5. QED
    BY <1>6, <2>2, <2>3, <2>4
<1> HIDE DEF b, m
<1>8. Tracks(r[8], t[8], m, c, 8)
  <2> DEFINE T == {j \in Nat : j <= 8 => Tracks(r[j], t[j], m, c, j)}
  <2>1. 0 \in T
    BY <1>4, <1>5, <1>7
  <2>2. ASSUME NEW j \in T PROVE j + 1 \in T
    <3>1. SUFFICES ASSUME j + 1 <= 8 PROVE Tracks(r[j + 1], t[j + 1], m, c, j + 1)
      OBVIOUS
    <3>2. j \in 0 .. 7 /\ j + 1 \in 1 .. 8 /\ (j + 1) - 1 = j
      BY <3>1
    <3>3. Tracks(r[j], t[j], m, c, j)
      BY <3>1
    <3>4. r[j] \in Word /\ t[j] \in Word
      BY <3>2
    <3>5. r[j + 1] = Divide(r[j], j \in c) /\ t[j + 1] = HalfStep(t[j])
      BY <1>4, <1>5, <3>2
    <3>6. Tracks(Divide(r[j], j \in c), HalfStep(t[j]), m, c, j + 1)
      BY <1>3, <3>2, <3>3, <3>4, BitTracks
    <3>7. QED
      BY <3>5, <3>6
  <2>3. T \in SUBSET Nat
    OBVIOUS
  <2>4. 8 \in Nat
    OBVIOUS
  <2>5. T = Nat
    <3> HIDE DEF T
    <3>1. QED
      BY <2>1, <2>2, <2>3, NatSetInduction
  <2>6. QED
    BY <2>4, <2>5
<1>9. update_crc_32(w, c) = Xor(ShiftRight(w, 8), t[8])
  <2>1. crc_tab32[b] = table_entry(b)
    BY <1>3 DEF crc_tab32
  <2>2. QED
    BY <2>1, <1>4 DEF update_crc_32, b
<1>10. t[8] \in Word /\ r[8] \in Word
  OBVIOUS
<1>11. /\ ShiftRight(w, 8) \in Word
       /\ \A i \in Ones : i \in ShiftRight(w, 8) <=> i + 8 \in w
  BY ShiftBits
<1>12. /\ update_crc_32(w, c) \in Word
       /\ \A i \in Ones : i \in update_crc_32(w, c) <=> ((i + 8 \in w) # (i \in t[8]))
  BY <1>9, <1>10, <1>11, XorBits
<1>13. ASSUME NEW i \in Ones
       PROVE  i \in update_crc_32(w, c) <=> i \in Reversed(r[8])
  <2>1. i + 8 \notin c /\ (i + 8 \in m <=> i + 8 \in w)
    BY DEF m, Byte, Ones
  <2>2. 31 - i \in r[8] <=> (((i \in t[8]) # (i + 8 \in m)) # (i + 8 \in c))
    BY <1>8 DEF Tracks
  <2>3. i \in Reversed(r[8]) <=> 31 - i \in r[8]
    BY <1>10, ReversedBits
  <2>4. QED
    BY <1>12, <2>1, <2>2, <2>3
<1>14. Reversed(r[8]) \in Word
  BY <1>10, ReversedBits
<1>15. QED
  BY <1>5, <1>10, <1>12, <1>13, <1>14, SameBits

(* The division takes a word to a word.                                    *)
LEMMA DivideByteIsWord ==
  ASSUME NEW d \in Word, NEW c \in Byte
  PROVE  DivideByte(d, c) \in Word
BY DivideSteps

(* So does the table.                                                      *)
LEMMA UpdateIsWord ==
  ASSUME NEW w \in Word, NEW c \in Byte
  PROVE  update_crc_32(w, c) \in Word
<1> DEFINE d == Reversed(w)
<1>1. d \in Word /\ Reversed(d) \in Word
  BY ReversedBits
<1>2. w = Reversed(d)
  <2>1. ASSUME NEW i \in Ones PROVE i \in w <=> i \in Reversed(d)
    <3>1. 31 - i \in Ones /\ 31 - (31 - i) = i
      BY DEF Ones
    <3>2. QED
      BY <1>1, <3>1, ReversedBits
  <2>2. QED
    BY <1>1, <2>1, SameBits
<1> HIDE DEF d
<1>3. QED
  BY <1>1, <1>2, ByteStep

(* The loop of CalcCRC32() over the bytes of a message, as a run.          *)
LEMMA CalcSteps ==
  ASSUME NEW buf \in Seq(Byte)
  PROVE  \E w \in [0 .. Len(buf) -> Word] :
           /\ w[0] = Ones
           /\ \A i \in 1 .. Len(buf) : w[i] = update_crc_32(w[i - 1], buf[i])
           /\ CalcCRC32(buf) = Xor(w[Len(buf)], Ones)
<1> DEFINE n == Len(buf)
           g == [p \in Word \X (1 .. n) |-> update_crc_32(p[1], buf[p[2]])]
<1>1. n \in Nat /\ Ones \in Word
  BY DEF Word
<1>2. g \in [Word \X (1 .. n) -> Word]
  <2>1. ASSUME NEW p \in Word \X (1 .. n) PROVE update_crc_32(p[1], buf[p[2]]) \in Word
    <3>1. p[1] \in Word /\ buf[p[2]] \in Byte
      OBVIOUS
    <3>2. QED
      BY <3>1, UpdateIsWord
  <2>2. QED
    BY <2>1
<1>3. Recurses(Word, Ones, n, g)
  <2> HIDE DEF g, n
  <2>1. QED
    BY <1>1, <1>2, RecursionExists, Zenon
<1> PICK w \in [0 .. n -> Word] : w[0] = Ones /\ \A i \in 1 .. n : w[i] = g[<<w[i - 1], i>>]
  BY <1>3, Zenon DEF Recurses
<1>4. \A i \in 1 .. n : w[i] = update_crc_32(w[i - 1], buf[i])
  <2>1. ASSUME NEW i \in 1 .. n PROVE w[i] = update_crc_32(w[i - 1], buf[i])
    <3>1. i - 1 \in 0 .. n
      OBVIOUS
    <3>2. <<w[i - 1], i>> \in Word \X (1 .. n)
      BY <3>1
    <3>3. g[<<w[i - 1], i>>] = update_crc_32(w[i - 1], buf[i])
      BY <3>2
    <3>4. QED
      BY <3>3
  <2>2. QED
    BY <2>1
<1> DEFINE crc32 == CHOOSE crc32 : crc32 = [i \in 0 .. n |->
                      IF i = 0 THEN Ones ELSE update_crc_32(crc32[i - 1], buf[i])]
<1>5. w = [i \in 0 .. n |-> IF i = 0 THEN Ones ELSE update_crc_32(w[i - 1], buf[i])]
  <2> HIDE DEF n, g
  <2>1. QED
    BY <1>1, <1>4
<1>6. crc32 = [i \in 0 .. n |-> IF i = 0 THEN Ones ELSE update_crc_32(crc32[i - 1], buf[i])]
  BY <1>5
<1>7. CalcCRC32(buf) = Xor(crc32[n], Ones)
  BY DEF CalcCRC32
<1> HIDE DEF crc32, g
<1>8. \A i \in 0 .. n : crc32[i] = w[i]
  <2>1. crc32[0] = w[0]
    BY <1>6, <1>1
  <2>2. \A i \in 1 .. n : crc32[i - 1] = w[i - 1] => crc32[i] = w[i]
    BY <1>6, <1>4, <1>1
  <2>3. QED
    BY <1>1, <2>1, <2>2, RecursionAgrees
<1>9. crc32[n] = w[n]
  BY <1>1, <1>8
<1>10. QED
  BY <1>4, <1>7, <1>9

(* The loop of the definition, as a run.                                   *)
LEMMA RemainderSteps ==
  ASSUME NEW buf \in Seq(Byte)
  PROVE  \E d \in [0 .. Len(buf) -> Word] :
           /\ d[0] = Ones
           /\ \A i \in 1 .. Len(buf) : d[i] = DivideByte(d[i - 1], buf[i])
           /\ Remainder(buf) = Reversed(Xor(d[Len(buf)], Ones))
<1> DEFINE n == Len(buf)
           g == [p \in Word \X (1 .. n) |-> DivideByte(p[1], buf[p[2]])]
           Once(v, c) == UNION {DivideByte(r, c) : r \in {v}}
<1>1. n \in Nat /\ Ones \in Word
  BY DEF Word
<1>2. g \in [Word \X (1 .. n) -> Word]
  <2>1. ASSUME NEW p \in Word \X (1 .. n) PROVE DivideByte(p[1], buf[p[2]]) \in Word
    <3>1. p[1] \in Word /\ buf[p[2]] \in Byte
      OBVIOUS
    <3>2. QED
      BY <3>1, DivideByteIsWord
  <2>2. QED
    BY <2>1
<1>3. Recurses(Word, Ones, n, g)
  <2> HIDE DEF g, n
  <2>1. QED
    BY <1>1, <1>2, RecursionExists, Zenon
<1> PICK d \in [0 .. n -> Word] : d[0] = Ones /\ \A i \in 1 .. n : d[i] = g[<<d[i - 1], i>>]
  BY <1>3, Zenon DEF Recurses
<1>4. \A i \in 1 .. n : d[i] = DivideByte(d[i - 1], buf[i])
  <2>1. ASSUME NEW i \in 1 .. n PROVE d[i] = DivideByte(d[i - 1], buf[i])
    <3>1. i - 1 \in 0 .. n
      OBVIOUS
    <3>2. <<d[i - 1], i>> \in Word \X (1 .. n)
      BY <3>1
    <3>3. g[<<d[i - 1], i>>] = DivideByte(d[i - 1], buf[i])
      BY <3>2
    <3>4. QED
      BY <3>3
  <2>2. QED
    BY <2>1
<1>5. \A v, c : Once(v, c) = DivideByte(v, c)
  <2>1. \A x : UNION {x} = x
    OBVIOUS
  <2>2. \A v, c : {DivideByte(r, c) : r \in {v}} = {DivideByte(v, c)}
    OBVIOUS
  <2>3. QED
    BY <2>1, <2>2
<1> DEFINE register == CHOOSE register : register = [i \in 0 .. n |->
                         IF i = 0 THEN Ones ELSE Once(register[i - 1], buf[i])]
<1>6. Remainder(buf) = Reversed(Xor(register[n], Ones))
  BY DEF Remainder, Reversed
<1> HIDE DEF Once
<1>7. d = [i \in 0 .. n |-> IF i = 0 THEN Ones ELSE Once(d[i - 1], buf[i])]
  <2> HIDE DEF n, g
  <2>1. \A i \in 1 .. n : d[i] = Once(d[i - 1], buf[i])
    BY <1>4, <1>5, Zenon
  <2>2. QED
    BY <1>1, <2>1
<1>8. register = [i \in 0 .. n |-> IF i = 0 THEN Ones ELSE Once(register[i - 1], buf[i])]
  BY <1>7
<1> HIDE DEF register, g
<1>9. \A i \in 0 .. n : register[i] = d[i]
  <2>1. register[0] = d[0]
    BY <1>8, <1>1
  <2>2. \A i \in 1 .. n : register[i - 1] = d[i - 1] => register[i] = d[i]
    BY <1>7, <1>8, <1>1
  <2>3. QED
    BY <1>1, <2>1, <2>2, RecursionAgrees
<1>10. register[n] = d[n]
  BY <1>1, <1>9
<1>11. QED
  BY <1>4, <1>6, <1>10

(* CalcCRC32() of emmc_hi3716m_crc32.c, with its table of 256 entries, is  *)
(* the CRC-32 of its definition for every message of bytes of any length.  *)
THEOREM CrcOfEveryMessage ==
  ASSUME NEW buf \in Seq(Byte)
  PROVE  CalcCRC32(buf) = Remainder(buf)
<1> DEFINE n == Len(buf)
<1>1. n \in Nat /\ Ones \in Word /\ Reversed(Ones) = Ones
  <2>1. Ones \in Word
    BY DEF Word
  <2>2. \A i \in Ones : i \in Reversed(Ones) <=> i \in Ones
    <3>1. \A i \in Ones : 31 - i \in Ones
      BY DEF Ones
    <3>2. QED
      BY <2>1, <3>1, ReversedBits
  <2>3. QED
    BY <2>1, <2>2, ReversedBits, SameBits
<1>2. PICK w \in [0 .. n -> Word] :
           /\ w[0] = Ones
           /\ \A i \in 1 .. n : w[i] = update_crc_32(w[i - 1], buf[i])
           /\ CalcCRC32(buf) = Xor(w[n], Ones)
  BY CalcSteps
<1>3. PICK d \in [0 .. n -> Word] :
           /\ d[0] = Ones
           /\ \A i \in 1 .. n : d[i] = DivideByte(d[i - 1], buf[i])
           /\ Remainder(buf) = Reversed(Xor(d[n], Ones))
  BY RemainderSteps
<1> DEFINE h == [i \in 0 .. n |-> Reversed(d[i])]
<1>4. \A i \in 0 .. n : h[i] = w[i]
  <2>1. h[0] = w[0]
    BY <1>1, <1>2, <1>3
  <2>2. ASSUME NEW i \in 1 .. n, h[i - 1] = w[i - 1] PROVE h[i] = w[i]
    <3>1. i - 1 \in 0 .. n /\ i \in 0 .. n
      OBVIOUS
    <3>2. w[i - 1] = Reversed(d[i - 1]) /\ h[i] = Reversed(d[i])
      BY <2>2, <3>1
    <3>3. w[i - 1] \in Word /\ d[i - 1] \in Word /\ buf[i] \in Byte
      BY <3>1
    <3>4. w[i] = update_crc_32(w[i - 1], buf[i]) /\ d[i] = DivideByte(d[i - 1], buf[i])
      BY <1>2, <1>3
    <3> HIDE DEF h, n
    <3>5. QED
      BY <3>2, <3>3, <3>4, ByteStep
  <2> HIDE DEF h
  <2>3. QED
    BY <1>1, <2>1, <2>2, RecursionAgrees
<1>5. w[n] = Reversed(d[n]) /\ d[n] \in Word /\ w[n] \in Word
  BY <1>1, <1>4
<1>6. Xor(Reversed(d[n]), Ones) = Reversed(Xor(d[n], Ones))
  <2> DEFINE v == d[n]
  <2>1. v \in Word
    BY <1>5
  <2> HIDE DEF v
  <2>2. /\ Xor(v, Ones) \in Word /\ Reversed(v) \in Word
        /\ Xor(Reversed(v), Ones) \in Word /\ Reversed(Xor(v, Ones)) \in Word
    BY <1>1, <2>1, XorBits, ReversedBits
  <2>3. \A i \in Ones : i \in Xor(Reversed(v), Ones) <=> i \in Reversed(Xor(v, Ones))
    <3>1. SUFFICES ASSUME NEW i \in Ones
                   PROVE  i \in Xor(Reversed(v), Ones) <=> i \in Reversed(Xor(v, Ones))
      OBVIOUS
    <3>2. 31 - i \in Ones
      BY DEF Ones
    <3>3. i \in Xor(Reversed(v), Ones) <=> 31 - i \notin v
      BY <1>1, <2>1, <2>2, XorBits, ReversedBits
    <3>4. i \in Reversed(Xor(v, Ones)) <=> 31 - i \notin v
      BY <1>1, <2>1, <2>2, <3>2, XorBits, ReversedBits
    <3>5. QED
      BY <3>3, <3>4
  <2>4. QED
    BY <2>2, <2>3, SameBits DEF v
<1>7. QED
  BY <1>2, <1>3, <1>5, <1>6

-----------------------------------------------------------------------------
(* The memory that UUID_setFormatEmmcUuid() burns.                         *)

(* An array is a sequence.                                                 *)
LEMMA ArrayIsSeq ==
  ASSUME NEW S, NEW n \in Nat, NEW f \in [1 .. n -> S]
  PROVE  f \in Seq(S) /\ Len(f) = n
OBVIOUS

(* memcpy() into a cleared buffer.                                         *)
LEMMA PadBytes ==
  ASSUME NEW s \in Seq(Byte), NEW n \in Nat, Len(s) <= n
  PROVE  /\ Pad(s, n) \in Seq(Byte) /\ Len(Pad(s, n)) = n
         /\ \A i \in 1 .. n : Pad(s, n)[i] = IF i <= Len(s) THEN s[i] ELSE {}
<1> DEFINE zeros == [i \in 1 .. n - Len(s) |-> {}]
<1>1. n - Len(s) \in Nat /\ Len(s) \in Nat
  OBVIOUS
<1>2. zeros \in Seq(Byte) /\ Len(zeros) = n - Len(s)
  <2>1. {} \in Byte
    BY DEF Byte
  <2>2. zeros \in [1 .. n - Len(s) -> Byte]
    BY <2>1
  <2>3. QED
    BY <1>1, <2>2, ArrayIsSeq
<1>3. \A i \in 1 .. n - Len(s) : zeros[i] = {}
  OBVIOUS
<1>4. Pad(s, n) = s \o zeros
  BY DEF Pad
<1> HIDE DEF zeros
<1>5. /\ s \o zeros \in Seq(Byte) /\ Len(s \o zeros) = Len(s) + Len(zeros)
      /\ \A i \in 1 .. Len(s) + Len(zeros) :
           (s \o zeros)[i] = IF i <= Len(s) THEN s[i] ELSE zeros[i - Len(s)]
  BY <1>2, ConcatProperties
<1>6. Len(s) + Len(zeros) = n
  BY <1>1, <1>2
<1>7. \A i \in 1 .. n : ~(i <= Len(s)) => i - Len(s) \in 1 .. n - Len(s)
  BY <1>1
<1>8. QED
  BY <1>3, <1>4, <1>5, <1>6, <1>7

(* The four bytes of a word.                                               *)
LEMMA WordIsBytes ==
  ASSUME NEW w
  PROVE  WordBytes(w) \in Seq(Byte) /\ Len(WordBytes(w)) = 4
<1>1. WordBytes(w) \in [1 .. 4 -> Byte]
  BY DEF WordBytes, Byte
<1>2. 4 \in Nat
  OBVIOUS
<1>3. QED
  BY <1>1, <1>2, ArrayIsSeq, Zenon

(* What is burnt for a UUID: its data, then the CRC of them, then zeros.   *)
LEMMA RecordBytes ==
  ASSUME NEW u \in Uuids
  PROVE  LET data == Pad(UuidBytes[u], DATA)
             crc  == WordBytes(CalcCRC32(data))
         IN  /\ data \in Seq(Byte) /\ Len(data) = DATA
             /\ Record(u) \in Seq(Byte) /\ Len(Record(u)) = SIZE
             /\ \A i \in 1 .. DATA : Record(u)[i] = data[i]
             /\ \A i \in 1 .. 4 : Record(u)[DATA + i] = crc[i]
<1> DEFINE uuid == UuidBytes[u]
           data == Pad(uuid, 24)
           crc  == WordBytes(CalcCRC32(data))
           both == data \o crc
<1>1. uuid \in Seq(Byte) /\ Len(uuid) <= 24 /\ 24 \in Nat
  BY UuidBytesAssumption DEF DATA
<1>2. Record(u) = Pad(both, 32)
  BY DEF Record, SIZE, DATA
<1> HIDE DEF uuid
<1>3. data \in Seq(Byte) /\ Len(data) = 24
  BY <1>1, PadBytes, Zenon
<1>4. crc \in Seq(Byte) /\ Len(crc) = 4
  BY WordIsBytes
<1> HIDE DEF data, crc
<1>5. /\ both \in Seq(Byte) /\ Len(both) = Len(data) + Len(crc)
      /\ \A i \in 1 .. Len(data) + Len(crc) :
           both[i] = IF i <= Len(data) THEN data[i] ELSE crc[i - Len(data)]
  BY <1>3, <1>4, ConcatProperties
<1> HIDE DEF both
<1>6. /\ Len(both) = 28 /\ 32 \in Nat /\ Len(both) <= 32
      /\ \A i \in 1 .. 28 : both[i] = IF i <= 24 THEN data[i] ELSE crc[i - 24]
  BY <1>3, <1>4, <1>5
<1>7. /\ Record(u) \in Seq(Byte) /\ Len(Record(u)) = 32
      /\ \A i \in 1 .. 32 : Record(u)[i] = IF i <= Len(both) THEN both[i] ELSE {}
  <2>1. both \in Seq(Byte) /\ Len(both) <= 32 /\ 32 \in Nat
    BY <1>5, <1>6
  <2>2. /\ Pad(both, 32) \in Seq(Byte) /\ Len(Pad(both, 32)) = 32
        /\ \A i \in 1 .. 32 : Pad(both, 32)[i] = IF i <= Len(both) THEN both[i] ELSE {}
    BY <2>1, PadBytes, Zenon
  <2>3. QED
    BY <1>2, <2>2, Zenon
<1>8. \A i \in 1 .. 24 : Record(u)[i] = data[i]
  <2>1. ASSUME NEW i \in 1 .. 24 PROVE Record(u)[i] = data[i]
    <3>1. i \in 1 .. 32 /\ i \in 1 .. 28 /\ i <= 28 /\ i <= 24
      OBVIOUS
    <3>2. QED
      BY <1>6, <1>7, <3>1
  <2>2. QED
    BY <2>1
<1>9. \A i \in 1 .. 4 : Record(u)[24 + i] = crc[i]
  <2>1. SUFFICES ASSUME NEW i \in 1 .. 4 PROVE Record(u)[24 + i] = crc[i]
    OBVIOUS
  <2> DEFINE k == 24 + i
  <2>2. k \in 1 .. 32 /\ k \in 1 .. 28 /\ ~(k <= 24) /\ k - 24 = i /\ k <= 28
    OBVIOUS
  <2> HIDE DEF k
  <2>3. Record(u)[k] = crc[i]
    BY <1>6, <1>7, <2>2
  <2>4. QED
    BY <2>3 DEF k
<1>10. QED
  BY <1>3, <1>7, <1>8, <1>9 DEF DATA, SIZE, uuid, data, crc

(* What is read of the memory, whatever was burnt into it, is bytes.       *)
LEMMA MemoryBytes ==
  ASSUME NEW m
  PROVE  /\ Memory(m) \in Seq(Byte) /\ Len(Memory(m)) = SIZE
         /\ SubSeq(Memory(m), 1, DATA) \in Seq(Byte)
         /\ Len(SubSeq(Memory(m), 1, DATA)) = DATA
         /\ \A i \in 1 .. DATA : SubSeq(Memory(m), 1, DATA)[i] = Memory(m)[i]
         /\ SubSeq(Memory(m), DATA + 1, DATA + 4) \in Seq(Byte)
         /\ Len(SubSeq(Memory(m), DATA + 1, DATA + 4)) = 4
         /\ \A i \in 1 .. 4 : SubSeq(Memory(m), DATA + 1, DATA + 4)[i] = Memory(m)[DATA + i]
<1>1. ASSUME NEW i \in 1 .. 32
      PROVE  UNION {r.bytes[i] : r \in {s \in Records : s.uuid \in m.cell[PartOf(i)]}} \in Byte
  <2>1. \A r \in Records : r.bytes[i] \in Byte
    <3>1. SUFFICES ASSUME NEW u \in Uuids PROVE Record(u)[i] \in Byte
      BY DEF Records
    <3>2. Record(u) \in Seq(Byte) /\ Len(Record(u)) = 32
      BY RecordBytes DEF SIZE
    <3>3. QED
      BY <3>2, ElementOfSeq
  <2>2. QED
    BY <2>1 DEF Byte
<1>2. Memory(m) \in [1 .. 32 -> Byte]
  BY <1>1 DEF Memory, SIZE
<1> DEFINE mem == Memory(m)
<1>3. mem \in Seq(Byte) /\ Len(mem) = 32
  <2>1. 32 \in Nat
    OBVIOUS
  <2>2. QED
    BY <1>2, <2>1, ArrayIsSeq, Zenon
<1> HIDE DEF mem
<1>4. /\ SubSeq(mem, 1, 24) \in Seq(Byte) /\ Len(SubSeq(mem, 1, 24)) = 24
      /\ \A i \in 1 .. 24 : SubSeq(mem, 1, 24)[i] = mem[i]
  <2>1. \A i \in 1 .. 24 : mem[i] \in Byte
    BY <1>2 DEF mem
  <2>2. /\ SubSeq(mem, 1, 24) \in Seq(Byte)
        /\ Len(SubSeq(mem, 1, 24)) = IF 1 <= 24 THEN 24 - 1 + 1 ELSE 0
        /\ \A i \in 1 .. 24 - 1 + 1 : SubSeq(mem, 1, 24)[i] = mem[1 + i - 1]
    BY <2>1, SubSeqProperties
  <2>3. QED
    BY <2>2
<1>5. /\ SubSeq(mem, 25, 28) \in Seq(Byte) /\ Len(SubSeq(mem, 25, 28)) = 4
      /\ \A i \in 1 .. 4 : SubSeq(mem, 25, 28)[i] = mem[24 + i]
  <2>1. \A i \in 25 .. 28 : mem[i] \in Byte
    BY <1>2 DEF mem
  <2>2. /\ SubSeq(mem, 25, 28) \in Seq(Byte)
        /\ Len(SubSeq(mem, 25, 28)) = IF 25 <= 28 THEN 28 - 25 + 1 ELSE 0
        /\ \A i \in 1 .. 28 - 25 + 1 : SubSeq(mem, 25, 28)[i] = mem[25 + i - 1]
    BY <2>1, SubSeqProperties
  <2>3. QED
    BY <2>2
<1>6. QED
  BY <1>3, <1>4, <1>5 DEF DATA, SIZE, mem

(* In every state, whatever the memory holds: the CRC that get computes is *)
(* the CRC-32 of its definition.                                           *)
THEOREM CrcOfMemory == Spec => []CrcIsCrc32
<1>1. CrcIsCrc32
  BY MemoryBytes, CrcOfEveryMessage DEF CrcIsCrc32
<1>2. QED
  BY <1>1, PTL

(* Where a UUID was burnt alone, or has nothing to burn, its byte is read. *)
LEMMA CompleteMemory ==
  ASSUME NEW m, NEW u \in Uuids, NEW i \in 1 .. SIZE,
         \/ m.cell[PartOf(i)] = {u}
         \/ m.cell[PartOf(i)] = {} /\ Record(u)[i] = {}
  PROVE  Memory(m)[i] = Record(u)[i]
<1> DEFINE burnt == {s \in Records : s.uuid \in m.cell[PartOf(i)]}
<1>1. Memory(m)[i] = UNION {r.bytes[i] : r \in burnt}
  BY DEF Memory
<1>2. CASE m.cell[PartOf(i)] = {u}
  <2>1. burnt = {[uuid |-> u, bytes |-> Record(u)]}
    BY <1>2 DEF Records
  <2> HIDE DEF burnt
  <2>2. {r.bytes[i] : r \in burnt} = {Record(u)[i]}
    BY <2>1
  <2>3. \A x : UNION {x} = x
    OBVIOUS
  <2>4. QED
    BY <1>1, <2>2, <2>3
<1>3. CASE m.cell[PartOf(i)] = {} /\ Record(u)[i] = {}
  <2>1. burnt = {}
    BY <1>3
  <2> HIDE DEF burnt
  <2>2. QED
    BY <1>1, <1>3, <2>1
<1>4. QED
  BY <1>2, <1>3

(* A memory that every call burnt with one UUID and no other is read back  *)
(* as that UUID: its CRC fits.  It is the half of GetIsWholeOrNull that    *)
(* does not depend on which memories collide under the CRC.                *)
THEOREM CompleteIsRead ==
  ASSUME NEW m, NEW r \in Records, Complete(m, r)
  PROVE  OtpGet(m) = Pad(UuidBytes[r.uuid], DATA)
<1>1. PICK u \in Uuids : r = [uuid |-> u, bytes |-> Record(u)]
  BY DEF Records
<1> DEFINE data == Pad(UuidBytes[u], DATA)
           crc  == WordBytes(CalcCRC32(data))
           got  == SubSeq(Memory(m), 1, DATA)
           sum  == SubSeq(Memory(m), DATA + 1, DATA + 4)
<1>2. \A i \in 1 .. SIZE : Memory(m)[i] = Record(u)[i]
  BY <1>1, CompleteMemory DEF Complete
<1>3. /\ data \in Seq(Byte) /\ Len(data) = DATA
      /\ \A i \in 1 .. DATA : Record(u)[i] = data[i]
      /\ \A i \in 1 .. 4 : Record(u)[DATA + i] = crc[i]
  BY RecordBytes
<1>4. crc \in Seq(Byte) /\ Len(crc) = 4
  BY WordIsBytes
<1>5. /\ got \in Seq(Byte) /\ Len(got) = DATA
      /\ \A i \in 1 .. DATA : got[i] = Memory(m)[i]
      /\ sum \in Seq(Byte) /\ Len(sum) = 4
      /\ \A i \in 1 .. 4 : sum[i] = Memory(m)[DATA + i]
  BY MemoryBytes
<1>6. OtpGet(m) = IF sum = WordBytes(CalcCRC32(got)) THEN got ELSE NoData
  BY DEF OtpGet
<1> HIDE DEF data, crc, got, sum
<1>10. DATA = 24 /\ SIZE = 32
  BY DEF DATA, SIZE
<1>7. got = data
  <2>1. \A i \in 1 .. DATA : got[i] = data[i]
    <3>1. \A i \in 1 .. DATA : i \in 1 .. SIZE
      BY <1>10
    <3>2. QED
      BY <1>2, <1>3, <1>5, <3>1
  <2>2. QED
    BY <1>3, <1>5, <2>1, SeqEqual
<1>8. sum = crc
  <2>1. \A i \in 1 .. 4 : sum[i] = crc[i]
    <3>1. \A i \in 1 .. 4 : DATA + i \in 1 .. SIZE
      BY <1>10
    <3>2. QED
      BY <1>2, <1>3, <1>5, <3>1
  <2>2. QED
    BY <1>4, <1>5, <2>1, SeqEqual
<1>9. QED
  BY <1>1, <1>6, <1>7, <1>8 DEF data, crc

(* A TRUE of the HiSilicon backend, in every reachable state: if no other  *)
(* UUID was ever burnt, a get returns that UUID bit by bit.                *)
THEOREM TrueReadBack == Spec => []TrueIsReadBack
<1>1. RewriteInv => TrueIsReadBack
  <2> SUFFICES ASSUME RewriteInv, told # NoUuid, backend = "hisi",
                      \A p \in Parts : seen.cell[p] \subseteq {told}
               PROVE  OtpGet(seen) = Pad(UuidBytes[told], DATA)
    BY DEF TrueIsReadBack
  <2> DEFINE r == [uuid |-> told, bytes |-> Record(told)]
  <2>1. told \in Uuids /\ Holds(told)
    BY DEF RewriteInv, TypeOK, MediumTypeOK, Stored, Careful
  <2>2. \A p \in Parts : seen.cell[p] = {told}
    BY <2>1 DEF Holds, Has
  <2>3. \A i \in 1 .. SIZE : PartOf(i) \in Parts
    BY HisiPartsAssumption DEF PartOf, Parts, SIZE, KEY
  <2>4. r \in Records /\ r.uuid = told
    BY <2>1 DEF Records
  <2>5. Complete(seen, r)
    BY <2>2, <2>3 DEF Complete
  <2> HIDE DEF r
  <2>6. QED
    BY <2>4, <2>5, CompleteIsRead
<1>2. QED
  BY <1>1, RewriteInvHolds, PTL
=============================================================================
