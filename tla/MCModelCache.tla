---------------------------- MODULE MCModelCache ----------------------------
(***************************************************************************)
(* Two processes race for two assets, each of them twice, so that one      *)
(* waits, finds the other's work, repeats a failed call or a crashed one;  *)
(* the power fails once.                                                   *)
(***************************************************************************)
EXTENDS ModelCache

CONSTANTS p1, p2
MCProc == {p1, p2}
=============================================================================
