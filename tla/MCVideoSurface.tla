--------------------------- MODULE MCVideoSurface ---------------------------
(***************************************************************************)
(* A small instance of VideoSurface for TLC.                               *)
(***************************************************************************)
EXTENDS VideoSurface

CONSTANTS v1, v2
=============================================================================
