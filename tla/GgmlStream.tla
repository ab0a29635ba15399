----------------------------- MODULE GgmlStream -----------------------------
(***************************************************************************)
(* The portable engine: `GgmlEngine::synthesize` and the two C callbacks   *)
(* of crates/spqx-core/src/ggml.rs, around one blocking call into the      *)
(* pinned libqwen.                                                         *)
(*                                                                         *)
(* The library is external and is modelled from what the code expects of   *)
(* it: it runs the callbacks one at a time, asks `cancel` at any time,     *)
(* hands over batches of frames, stops calling once a callback told it to, *)
(* ends by itself at end of speech or at the frame cap, and returns 0, -5  *)
(* when it was cancelled, or another error at any point.  It may also hand *)
(* over a bad buffer, and it may end without any audio.                    *)
(*                                                                         *)
(* A frame is HOP samples, and is counted as one.  The caller's callbacks  *)
(* may panic; catch_unwind turns that into a failure.                      *)
(***************************************************************************)
EXTENDS Naturals

CONSTANTS MaxFrames,  \* bound: largest frame cap
          MaxBatch    \* bound: frames of one batch

ASSUME GgmlAssumption == MaxFrames \in Nat \ {0} /\ MaxBatch \in Nat \ {0}

VARIABLES max,      \* the frame cap of the request
          lib,      \* the library: "running", "asked to stop", "ended"
          status,   \* what the library returned
          spoke,    \* history: the model reached end of speech
          samples,  \* state.samples, in frames
          stopped,  \* state.stopped
          failed,   \* state.failed
          offers,   \* history: batches given to the audio callback
          result    \* what synthesize returned

vars == <<max, lib, status, spoke, samples, stopped, failed, offers, result>>

Init == /\ max \in 1..MaxFrames
        /\ lib = "running" /\ status = "none" /\ spoke = FALSE
        /\ samples = 0 /\ stopped = FALSE /\ failed = FALSE
        /\ offers = 0
        /\ result = "none"

CanCall == lib = "running" /\ samples < max

\* The library asks whether to go on; a no changes nothing.
CancelSaysYes ==
  /\ CanCall
  /\ stopped' = TRUE
  /\ lib' = "asked to stop"
  /\ UNCHANGED <<max, status, spoke, samples, failed, offers, result>>

CancelPanics ==
  /\ CanCall
  /\ failed' = TRUE
  /\ lib' = "asked to stop"
  /\ UNCHANGED <<max, status, spoke, samples, stopped, offers, result>>

\* A null or oversized buffer, or one with a value that is not finite.
BadChunk ==
  /\ CanCall
  /\ failed' = TRUE
  /\ lib' = "asked to stop"
  /\ UNCHANGED <<max, status, spoke, samples, stopped, offers, result>>

\* A definition named Bug... is never used: put in the place of the one after it,
\* it shows which property would notice that mistake.
BugRemembered(told) == stopped
Remembered(told) == stopped \/ told

Counted(n) == samples + n

\* The samples are counted before the caller decides.
Chunk(n) ==
  /\ CanCall /\ samples + n <= max
  /\ samples' = Counted(n)
  /\ offers' = offers + 1
  /\ \/ /\ lib' = "running"                                  \* accepted
        /\ UNCHANGED <<stopped, failed>>
     \/ /\ lib' = "asked to stop" /\ stopped' = Remembered(TRUE)
        /\ UNCHANGED failed
     \/ /\ lib' = "asked to stop" /\ failed' = TRUE           \* panicked
        /\ UNCHANGED stopped
  /\ UNCHANGED <<max, status, spoke, result>>

\* The library ends: by itself, because it was told to, or with an error.
EndOfSpeech ==
  /\ lib = "running"
  /\ spoke' = TRUE
  /\ lib' = "ended" /\ status' = "ok"
  /\ UNCHANGED <<max, samples, stopped, failed, offers, result>>

HitCap ==
  /\ lib = "running" /\ samples = max
  /\ lib' = "ended" /\ status' = "ok"
  /\ UNCHANGED <<max, spoke, samples, stopped, failed, offers, result>>

Obey ==
  /\ lib = "asked to stop"
  /\ lib' = "ended" /\ status' \in {"ok", "cancelled", "error"}
  /\ UNCHANGED <<max, spoke, samples, stopped, failed, offers, result>>

Break ==
  /\ lib = "running"
  /\ lib' = "ended" /\ status' = "error"
  /\ UNCHANGED <<max, spoke, samples, stopped, failed, offers, result>>

BugReachedCap == samples > max
ReachedCap == samples >= max

\* The checks after the call, in their order.  Reaching the cap counts as cut off
\* even when the speech ended in that very frame.
Outcome == IF failed THEN "failed"
           ELSE IF status = "cancelled" \/ stopped THEN "cancelled"
           ELSE IF status = "error" THEN "failed"
           ELSE IF samples = 0 THEN "failed"
           ELSE IF ReachedCap THEN "cap"
           ELSE "eos"

Classify ==
  /\ lib = "ended" /\ result = "none"
  /\ result' = Outcome
  /\ UNCHANGED <<max, lib, status, spoke, samples, stopped, failed, offers>>

\* The next request starts with a callback state of its own.
Again ==
  /\ result # "none"
  /\ max' \in 1..MaxFrames
  /\ lib' = "running" /\ status' = "none" /\ spoke' = FALSE
  /\ samples' = 0 /\ stopped' = FALSE /\ failed' = FALSE
  /\ offers' = 0
  /\ result' = "none"

Finished == result # "none" /\ UNCHANGED vars

Next == \/ CancelSaysYes \/ CancelPanics \/ BadChunk
        \/ \E n \in 1..MaxBatch : Chunk(n)
        \/ EndOfSpeech \/ HitCap \/ Obey \/ Break
        \/ Classify \/ Again \/ Finished

Spec == Init /\ [][Next]_vars
-----------------------------------------------------------------------------
\* Every variable has its type, and the engine never counts past the cap.
TypeOK ==
  /\ max \in 1..MaxFrames /\ samples \in 0..max /\ offers \in 0..samples
  /\ lib \in {"running", "asked to stop", "ended"}
  /\ status \in {"none", "ok", "cancelled", "error"}
  /\ spoke \in BOOLEAN /\ stopped \in BOOLEAN /\ failed \in BOOLEAN
  /\ result \in {"none", "eos", "cap", "cancelled", "failed"}

\* Speech that was cut off, by the cap, by an error or by a bad buffer, is never
\* reported as complete, although the library returns the same 0 for an end of
\* speech and for the cap; nor is a synthesis that made no sound.
SuccessIsWhole ==
  result = "eos" => spoke /\ status = "ok" /\ ~failed /\ samples > 0

\* The engine is one as its callers expect it: a caller that refused audio or
\* said yes hears Cancelled whatever the library returned, and nobody else does.
Contract == INSTANCE Engine
              WITH audioCalls <- offers, halted <- stopped
ImplementsEngine == Contract!ESpec
=============================================================================
