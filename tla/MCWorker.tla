------------------------------ MODULE MCWorker ------------------------------
(***************************************************************************)
(* A small worker for TLC: two ids over three frames, so that an id is     *)
(* used twice, cancelled while it waits, runs or is over, and a SHUTDOWN   *)
(* comes at any point; two audio callbacks of up to two blocks; one write  *)
(* that fails and a second one, which fails the ERROR frame after it.      *)
(***************************************************************************)
EXTENDS Worker

CONSTANTS i1, i2
MCId == {i1, i2}
=============================================================================
