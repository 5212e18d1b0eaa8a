------------------------------ MODULE MCSelfDo ------------------------------
(***************************************************************************)
(* Small instances of SelfDo for TLC.  A configuration picks its clients   *)
(* out of u1, u2, u3 and t1, t2, t3.                                       *)
(***************************************************************************)
EXTENDS SelfDo

CONSTANTS u1, u2, u3, t1, t2, t3

(* u1 sends the longest command of the app and the others its shortest; t1 *)
(* sends a message that fits the server's buffer, t2 one that does not.    *)
MCPayload ==
  [c \in Clients |-> IF c = u1 THEN 58
                     ELSE IF c = t1 THEN 20
                     ELSE IF c = t2 THEN 76
                     ELSE 15]
=============================================================================
