--------------------------- MODULE MCUuidRewrite ---------------------------
(***************************************************************************)
(* Small instances of UuidRewrite for TLC.                                 *)
(***************************************************************************)
EXTENDS UuidRewrite

CONSTANTS a, b, c
=============================================================================
