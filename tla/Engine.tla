------------------------------- MODULE Engine -------------------------------
(***************************************************************************)
(* The contract between `Session::synthesize` and its caller               *)
(* (crates/spqx-core/src/synthesis.rs), whatever engine runs behind it.    *)
(*                                                                         *)
(* The engine hands over batches of audio, each of which the caller        *)
(* accepts or refuses, and may ask at any time whether the request is      *)
(* cancelled.  After a refusal or a yes it makes no further call and       *)
(* reports Cancelled; it reports Cancelled for no other reason.            *)
(***************************************************************************)
EXTENDS Naturals

VARIABLES audioCalls,  \* how often audio was handed over
          halted,      \* a callback told the engine to stop
          result       \* "none" while it runs

evars == <<audioCalls, halted, result>>

EInit == audioCalls = 0 /\ halted = FALSE /\ result = "none"

Poll == /\ result = "none" /\ ~halted
        /\ halted' = TRUE
        /\ UNCHANGED <<audioCalls, result>>

Audio == /\ result = "none" /\ ~halted
         /\ audioCalls' = audioCalls + 1
         /\ halted' \in BOOLEAN
         /\ UNCHANGED result

Return == /\ result = "none"
          /\ result' \in IF halted THEN {"cancelled"} ELSE {"eos", "cap", "failed"}
          /\ UNCHANGED <<audioCalls, halted>>

\* A session is asked again: nothing is left of the request before.
Again == result # "none" /\ audioCalls' = 0 /\ halted' = FALSE /\ result' = "none"

ENext == Poll \/ Audio \/ Return \/ Again

ESpec == EInit /\ [][ENext]_evars
=============================================================================
