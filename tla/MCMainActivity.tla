--------------------------- MODULE MCMainActivity ---------------------------
(***************************************************************************)
(* A small instance of MainActivity for TLC: a command writes nothing, as  *)
(* much as a pipe holds, or one unit more to one of its streams.           *)
(***************************************************************************)
EXTENDS MainActivity

CONSTANTS j1, m1, m2

MCLoads == {Quiet, [out |-> PIPE + 1, err |-> 0], [out |-> 0, err |-> PIPE + 1]}
=============================================================================
