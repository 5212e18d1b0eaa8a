----------------------------- MODULE OnceStore -----------------------------
(***************************************************************************)
(* What uuid.h promises of a chip that UUID_isOtpRom() calls an OTP: it    *)
(* takes one UUID, for ever.  A caller is told TRUE only of the UUID the   *)
(* chip holds.  An attempt that fails may spoil a blank chip, and then no  *)
(* UUID is ever reported.                                                  *)
(***************************************************************************)
CONSTANT Values

VARIABLES stored,     \* a UUID, or what became of the chip
          reported    \* the UUIDs of which a caller was told TRUE

storeVars == <<stored, reported>>

Init ==
  /\ stored = "blank"
  /\ reported = {}

Store ==
  /\ stored = "blank"
  /\ stored' \in Values
  /\ UNCHANGED reported

Spoil ==
  /\ stored = "blank"
  /\ stored' = "spoilt"
  /\ UNCHANGED reported

Report(u) ==
  /\ stored = u
  /\ reported' = reported \cup {u}
  /\ UNCHANGED stored

Next == Store \/ Spoil \/ \E u \in Values : Report(u)

Spec == Init /\ [][Next]_storeVars
=============================================================================
