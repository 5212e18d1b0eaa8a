------------------------------ MODULE UuidOnce ------------------------------
(***************************************************************************)
(* libyunosfwnative on a chip that is written once: uuid_stub_imp.c passes *)
(* the calls of one root process on to emmc_amlogic.c or emmc_msd6a801.c,  *)
(* and the process may be killed, or the power go, at any step.            *)
(***************************************************************************)
EXTENDS EfuseUuid, MstarUuid

ASSUME BackendsAssumption == Backends \subseteq {"amlogic", "mstar"}

vars == <<chipVars, version, OTP_init>>

TypeOK == ChipTypeOK /\ version \in BOOLEAN /\ OTP_init \in BOOLEAN

Init == ChipInit /\ version \in BOOLEAN /\ OTP_init = FALSE

Efuse == EfuseStep /\ UNCHANGED OTP_init
Mstar == MstarStep /\ UNCHANGED version

Killed ==
  /\ Dies
  /\ OTP_init' = FALSE
  /\ UNCHANGED version

Next == Efuse \/ Mstar \/ Killed

Spec == Init /\ [][Next]_vars

-----------------------------------------------------------------------------
(* open() fails only when the process has used up its descriptors; it      *)
(* matters to emmc_amlogic.c alone, which opens its device in every step.  *)
StableOpens == "amlogic" \in Backends => "open" \notin ChipFaults

(* efuse_write_usid() says "written already or something error" when it    *)
(* refuses: if there is any doubt, a chip is not burnt a second time.      *)
NeverReburnt == \A p \in Parts : Cardinality(cell[p]) <= 1

(* TRUE is only returned of a UUID that was burnt into every part, perhaps *)
(* on top of another: a loop that stopped early or a write() that fell     *)
(* short is never taken for success.                                       *)
TrueIsBurnt == \A u \in told : \A p \in Parts : u \in cell[p]

(* A call has burnt a part of its UUID on a blank chip, and goes on.       *)
Burning ==
  /\ pc = "burn"
  /\ \A p \in Parts : cell[p] = IF p < at THEN {val} ELSE {}

(* What the chip holds, as OnceStore counts it.                            *)
Stored ==
  IF \E u \in Uuids : Whole(u) THEN CHOOSE u \in Uuids : Whole(u)
  ELSE IF Blank \/ Burning THEN "blank"
  ELSE "spoilt"

Store == INSTANCE OnceStore WITH
  Values <- Uuids,
  stored <- Stored,
  reported <- told

(* A chip holds the first UUID that was set, whole or not at all, through  *)
(* every failure and every later call; TRUE is said only of that UUID.     *)
StoreSpec == Store!Spec
=============================================================================
