---------------------------- MODULE NativeStream ----------------------------
(***************************************************************************)
(* The native engine's generation loop and the callback around it:         *)
(* `generate_codes_streaming_with_penalty` and                             *)
(* `generate_with_icl_session_streaming` of crates/spqx-core/src/          *)
(* inference.rs, with the `deliver` closure of synthesis.rs.               *)
(*                                                                         *)
(* The loop collects codec frames into a batch; a full batch goes through  *)
(* the callback, which decodes it with a vocoder that keeps state between  *)
(* batches and hands the audio to the caller.  A batch that was refused    *)
(* stays where it is, and the code after the loop passes it to the         *)
(* callback once more: only the callback's own flag keeps it from being    *)
(* decoded and offered twice.  Whoever wants everything at once asks for   *)
(* one batch that is never full.                                           *)
(*                                                                         *)
(* A codec frame is its number.  The transformer, the sampler and the      *)
(* vocoder's arithmetic are left out: whether the next frame is            *)
(* end-of-speech is a choice.                                              *)
(***************************************************************************)
EXTENDS Integers, Sequences

CONSTANTS FramesPerToken,  \* 6 in the code
          FloorFrames,     \* 75 in the code
          MaxCap,          \* bound: largest frame cap a caller asks for
          MaxChunk,        \* bound: largest batch a caller asks for
          MaxTokens        \* bound: longest text

ASSUME NativeAssumption ==
  /\ FramesPerToken \in Nat /\ FloorFrames \in Nat \ {0}
  /\ MaxCap \in Nat /\ MaxChunk \in Nat /\ MaxTokens \in Nat

\* More frames than there ever are: usize::MAX.
NoChunks == MaxCap + 1

\* What the loop is called with; the vocoder may be missing, because a failure
\* to load it is only a warning.  Not every caller limits the frames by the text.
Request == [cap : 1..MaxCap, chunk : 0..MaxChunk \cup {NoChunks}, tokens : 0..MaxTokens,
            limited : BOOLEAN, vocoder : BOOLEAN]

VARIABLES req,      \* the parameters; they do not change
          pc,       \* "decode", "chunk", "tail", "return" or "returned"
          step,     \* frames generated so far
          pending,  \* the batch
          keep,     \* should_continue: the caller wants more
          decoded,  \* history: the frames that went through the vocoder
          offered,  \* history: the frames handed to the caller
          offers,   \* history: how many batches those were
          stop      \* how the loop ended; "cap" until it is known better

vars == <<req, pc, step, pending, keep, decoded, offered, offers, stop>>

MinOf(a, b) == IF a <= b THEN a ELSE b
MaxOf(a, b) == IF a >= b THEN a ELSE b

\* Runaway insurance: a generation that misses its end stops within seconds.
EffectiveMax ==
  IF req.limited THEN MinOf(req.cap, MaxOf(req.tokens * FramesPerToken, FloorFrames)) ELSE req.cap
BatchSize == MaxOf(req.chunk, 1)

Init == /\ req \in Request
        /\ pc = "decode" /\ step = 0
        /\ pending = <<>> /\ keep = TRUE
        /\ decoded = <<>> /\ offered = <<>> /\ offers = 0
        /\ stop = "cap"

\* A definition named Bug... is never used: put in the place of the one after it,
\* it shows which property would notice that mistake.

\* Stop::after_callback: a refusal wins over an end that was already seen.
BugAfterCallback(old, kept) == old
AfterCallback(old, kept) == IF kept THEN old ELSE "cancelled"

BugSilenced == pending = <<>>
Silenced == ~keep \/ pending = <<>>

\* The callback on the batch.
Deliver ==
  IF Silenced \/ ~req.vocoder
  THEN UNCHANGED <<keep, decoded, offered, offers>>
  ELSE /\ decoded' = decoded \o pending
       /\ \/ /\ keep' = FALSE                      \* cancelled() said yes
             /\ UNCHANGED <<offered, offers>>
          \/ /\ offered' = offered \o pending      \* the caller decides
             /\ offers' = offers + 1
             /\ keep' \in BOOLEAN

Generate ==
  /\ pc = "decode" /\ step < EffectiveMax
  /\ step' = step + 1
  /\ pending' = Append(pending, step + 1)
  /\ pc' = IF Len(pending') >= BatchSize THEN "chunk" ELSE "decode"
  /\ UNCHANGED <<req, keep, decoded, offered, offers, stop>>

EndOfSpeech ==
  /\ pc = "decode" /\ step < EffectiveMax
  /\ stop' = "eos"
  /\ pc' = "tail"
  /\ UNCHANGED <<req, step, pending, keep, decoded, offered, offers>>

HitCap ==
  /\ pc = "decode" /\ step = EffectiveMax
  /\ pc' = "tail"
  /\ UNCHANGED <<req, step, pending, keep, decoded, offered, offers, stop>>

BugClearedBatch == pending
ClearedBatch == <<>>

ChunkReady ==
  /\ pc = "chunk"
  /\ Deliver
  /\ IF keep' THEN pending' = ClearedBatch /\ pc' = "decode" /\ UNCHANGED stop
              ELSE stop' = "cancelled" /\ pc' = "tail" /\ UNCHANGED pending
  /\ UNCHANGED <<req, step>>

\* After the loop: what is left in the batch, also when it was just refused.
FinalBatch ==
  /\ pc = "tail"
  /\ IF pending = <<>> THEN UNCHANGED <<keep, decoded, offered, offers, stop>>
                       ELSE Deliver /\ stop' = AfterCallback(stop, keep')
  /\ pc' = "return"
  /\ UNCHANGED <<req, step, pending>>

Return ==
  /\ pc = "return"
  /\ pc' = "returned"
  /\ UNCHANGED <<req, step, pending, keep, decoded, offered, offers, stop>>

Finished == pc = "returned" /\ UNCHANGED vars

Next == Generate \/ EndOfSpeech \/ HitCap \/ ChunkReady \/ FinalBatch \/ Return
        \/ Finished

Spec == Init /\ [][Next]_vars
-----------------------------------------------------------------------------
\* Every variable has its type.
TypeOK ==
  /\ req \in Request
  /\ pc \in {"decode", "chunk", "tail", "return", "returned"}
  /\ step \in 0..EffectiveMax
  /\ pending \in Seq(1..EffectiveMax) /\ Len(pending) <= BatchSize
  /\ keep \in BOOLEAN
  /\ decoded \in Seq(1..EffectiveMax) /\ offered \in Seq(1..EffectiveMax)
  /\ offers \in 0..Len(offered)
  /\ stop \in {"eos", "cap", "cancelled"}

UpTo(n) == [i \in 1..n |-> i]

\* The streaming vocoder sees each frame once and in order, the refused ones
\* included: its state would otherwise decode a frame in the wrong context.
DecodedOnceInOrder == decoded = UpTo(Len(decoded))

\* Nothing that was generated is missing from the audio of a synthesis that
\* ends by itself, neither a last short batch nor one that the cap cut off.
CompleteUnlessCancelled ==
  pc = "returned" /\ stop # "cancelled" /\ req.vocoder => offered = UpTo(step)

\* Both: no frame is lost, doubled or moved between the loop and the listener.
EachFrameOnce == DecodedOnceInOrder /\ CompleteUnlessCancelled

\* The loop is an engine as its callers expect one.  A refusal of the last batch
\* after the end of speech was seen is a cancellation too.
Contract == INSTANCE Engine
              WITH audioCalls <- offers, halted <- ~keep,
                   result <- IF pc = "returned" THEN stop ELSE "none"
ImplementsEngine == Contract!ESpec
=============================================================================
