----------------------------- MODULE MCUuidOnce -----------------------------
(***************************************************************************)
(* Small instances of UuidOnce for TLC.                                    *)
(***************************************************************************)
EXTENDS UuidOnce

CONSTANTS a, b, c
=============================================================================
