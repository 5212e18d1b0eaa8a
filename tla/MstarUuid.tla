----------------------------- MODULE MstarUuid -----------------------------
(***************************************************************************)
(* emmc_msd6a801.c: the UUID is in OTP memory that is mapped into the      *)
(* process.  UUID_setFormatEmmcUuid_imp() writes it byte by byte, if the   *)
(* memory is blank.                                                        *)
(***************************************************************************)
EXTENDS UuidChip

VARIABLE OTP_init    \* UUID_init() has succeeded in this process

MstarSet ==
  /\ backend = "mstar"
  /\ Call("is_empty")
  /\ UNCHANGED OTP_init

(* The first UUID_IsEmpty(): its result is not used, but the get in it     *)
(* initialises the mapping.                                                *)
MstarInit ==
  /\ pc = "is_empty"
  /\ OTP_init' = TRUE
  /\ Goto("check")
  /\ UNCHANGED <<cell, fds>>

(* UUID_init() fails: UUID_IsEmpty() reads through the null pointer that   *)
(* the get returned, and the process dies.                                 *)
MstarInitFails ==
  /\ pc = "is_empty"
  /\ ~OTP_init
  /\ Fails("init")
  /\ Dies
  /\ UNCHANGED OTP_init

(* The second UUID_IsEmpty().                                              *)
MstarCheck ==
  /\ backend = "mstar"
  /\ pc = "check"
  /\ IF Blank THEN Goto("burn") ELSE Return(FALSE)
  /\ UNCHANGED <<cell, fds, OTP_init>>

(* A mutant: the word is not advanced, so the last part is never burnt.    *)
MstarBurnShort ==
  /\ backend = "mstar"
  /\ pc = "burn"
  /\ IF at < PARTS
     THEN BurnPart /\ pc' = "burn"
     ELSE Return(TRUE) /\ UNCHANGED <<cell, fds>>
  /\ UNCHANGED OTP_init

(* A mutant: the loop runs to i <= len.                                    *)
MstarBurnLong ==
  /\ backend = "mstar"
  /\ pc = "burn"
  /\ IF at <= PARTS + 1
     THEN BurnPart /\ pc' = "burn"
     ELSE Return(TRUE) /\ UNCHANGED <<cell, fds>>
  /\ UNCHANGED OTP_init

(* The loop over the bytes, and return TRUE: nothing is read back.         *)
MstarBurn ==
  /\ backend = "mstar"
  /\ pc = "burn"
  /\ IF at <= PARTS
     THEN BurnPart /\ pc' = "burn"
     ELSE Return(TRUE) /\ UNCHANGED <<cell, fds>>
  /\ UNCHANGED OTP_init

(* UUID_getFormatEmmcUuid_imp() initialises the mapping, too.              *)
MstarGet ==
  /\ backend = "mstar"
  /\ pc = "idle"
  /\ ~OTP_init
  /\ OTP_init' = TRUE
  /\ UNCHANGED chipVars

MstarStep ==
  \/ MstarSet
  \/ MstarInit
  \/ MstarInitFails
  \/ MstarCheck
  \/ MstarBurn
  \/ MstarGet
=============================================================================
