----------------------------- MODULE MCHisiOtp -----------------------------
(***************************************************************************)
(* A small instance of HisiOtp for TLC: a UUID that fills the 24 bytes     *)
(* under the CRC, and one that does not.                                   *)
(***************************************************************************)
EXTENDS HisiOtp

CONSTANTS a, b

(* "123456789012345678901234" and "UUID-7".                                *)
BitsOf(n) == {i \in 0 .. 7 : (n \div 2^i) % 2 = 1}

MCUuidBytes ==
  [u \in Uuids |->
     IF u = a THEN [i \in 1 .. 24 |-> BitsOf(48 + (i % 10))]
     ELSE <<BitsOf(85), BitsOf(85), BitsOf(73), BitsOf(68), BitsOf(45), BitsOf(55)>>]
=============================================================================
