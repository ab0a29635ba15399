----------------------------- MODULE PcmStreamer -----------------------------
(***************************************************************************)
(* The samples of one utterance on their way to the wire: `PcmStreamer` of *)
(* crates/spqx-core/src/worker.rs, with the judgement of handle_speak and  *)
(* degenerate_reason that follows it.                                      *)
(*                                                                         *)
(* Audio comes in chunks of any length.  Quiet chunks before the first     *)
(* audible sample are dropped; the rest goes out in blocks of one size,    *)
(* what does not fill a block waits for the next chunk, and the last block *)
(* is padded.  The most recent output is remembered, and if it ends in     *)
(* too much non-speech the utterance is reported as failed.                *)
(*                                                                         *)
(* A sample is its level: below the threshold that starts an utterance,    *)
(* above it, or above the level that counts as speech at the end.  Times   *)
(* are in samples.  Resampling and the click gate change what comes in,    *)
(* not what happens to it, and are left out but for their errors; so is    *)
(* SPQX_NO_GATE, a debugging aid.                                          *)
(***************************************************************************)
EXTENDS Naturals, SequencesExt

CONSTANTS Blocksize,    \* samples of an audio frame
          Preroll,      \* kept before the first audible sample: 80 ms
          TailCap,      \* samples remembered: 30 s
          Measure,      \* samples judged at once at the end: 5 ms
          MaxTrailing,  \* tolerated non-speech at the end: 3 s
          MaxChunk,     \* bound: samples of one chunk
          MaxSamples    \* bound: samples of the utterance

ASSUME PcmAssumption ==
  /\ Blocksize \in Nat \ {0} /\ Measure \in Nat \ {0}
  /\ Preroll \in Nat /\ MaxTrailing \in Nat
  /\ TailCap \in Nat /\ TailCap >= MaxTrailing + 2 * Measure
  /\ MaxChunk \in Nat /\ MaxSamples \in Nat

VARIABLES heard,         \* history: all samples the engine handed over
          start,         \* history: where in `heard` the output starts, or 0
          leftover,      \* the samples of the block that is not full yet
          written,       \* the samples on the wire
          audioSamples,  \* samples counted as output, without the padding
          tail,          \* the most recent output
          status         \* "streaming", "finished", then how it ended

vars == <<heard, start, leftover, written, audioSamples, tail, status>>

Level == {"quiet", "soft", "loud"}

Init == /\ heard = <<>> /\ start = 0
        /\ leftover = <<>> /\ written = <<>>
        /\ audioSamples = 0 /\ tail = <<>>
        /\ status = "streaming"

LastOf(s, n) == SubSeq(s, IF Len(s) > n THEN Len(s) - n + 1 ELSE 1, Len(s))

\* A definition named Bug... is never used: put in the place of the one after it,
\* it shows which property would notice that mistake.
BugRemembered(more) == IF Len(tail) + Len(more) <= TailCap THEN tail \o more ELSE tail
Remembered(more) == LastOf(tail \o more, TailCap)

\* The blocks go out one by one.  One that fails is counted and remembered, and
\* ends the request; what was left over is gone with it.
BugRest(pcm, n) == <<>>
Rest(pcm, n) == SubSeq(pcm, n + 1, Len(pcm))

WriteBlocks(pcm) ==
  LET blocks == Len(pcm) \div Blocksize
      Sent(k) == SubSeq(pcm, 1, k * Blocksize)
  IN \/ /\ written' = written \o Sent(blocks)
        /\ audioSamples' = audioSamples + blocks * Blocksize
        /\ tail' = Remembered(Sent(blocks))
        /\ leftover' = Rest(pcm, blocks * Blocksize)
        /\ UNCHANGED status
     \/ \E k \in 1..blocks :
          /\ written' = written \o Sent(k - 1)
          /\ audioSamples' = audioSamples + k * Blocksize
          /\ tail' = Remembered(Sent(k))
          /\ leftover' = <<>>
          /\ status' = "failed"

Audible(chunk) == {i \in DOMAIN chunk : chunk[i] # "quiet"}
Onset(chunk) == CHOOSE i \in Audible(chunk) : \A j \in Audible(chunk) : i <= j

\* Where a chunk with the first audible sample is cut: the preroll reaches back
\* to the start of the chunk, but not into the one before.
Cut(chunk) == IF Onset(chunk) > Preroll THEN Onset(chunk) - Preroll ELSE 1

Push(chunk) ==
  /\ status = "streaming"
  /\ heard' = heard \o chunk
  /\ \/ /\ start = 0 /\ Audible(chunk) = {}
        /\ UNCHANGED <<start, leftover, written, audioSamples, tail, status>>
     \/ /\ start = 0 /\ Audible(chunk) # {}
        /\ start' = Len(heard) + Cut(chunk)
        /\ WriteBlocks(SubSeq(chunk, Cut(chunk), Len(chunk)))
     \/ /\ start # 0
        /\ WriteBlocks(leftover \o chunk)
        /\ UNCHANGED start

\* The chunk could not be resampled.
PushFails ==
  /\ status = "streaming"
  /\ status' = "failed"
  /\ UNCHANGED <<heard, start, leftover, written, audioSamples, tail>>

\* The request was cancelled, or the engine failed: nothing is flushed.
Drop ==
  /\ status = "streaming"
  /\ status' \in {"cancelled", "failed"}
  /\ UNCHANGED <<heard, start, leftover, written, audioSamples, tail>>

Padding(n) == [i \in 1..n |-> "quiet"]

Finish ==
  /\ status = "streaming"
  /\ LET block == leftover \o Padding(Blocksize - Len(leftover))
     IN \/ /\ leftover = <<>>
           /\ status' = "finished"
           /\ UNCHANGED <<written, audioSamples, tail>>
        \/ /\ leftover # <<>>
           /\ audioSamples' = audioSamples + Len(leftover)
           /\ tail' = Remembered(block)
           /\ \/ written' = written \o block /\ status' = "finished"
              \/ UNCHANGED written /\ status' = "failed"
  /\ leftover' = <<>>
  /\ UNCHANGED <<heard, start>>

\* Samples of non-speech at the end, in whole blocks of Measure from the start:
\* the last block with speech in it ends the search.
TrailingNonspeech(s) ==
  LET loud == {i \in DOMAIN s : s[i] = "loud"}
      last == CHOOSE i \in loud : \A j \in loud : i >= j
      blockEnd == ((last - 1) \div Measure + 1) * Measure
  IN IF loud = {} THEN Len(s)
     ELSE IF blockEnd >= Len(s) THEN 0 ELSE Len(s) - blockEnd

Degenerate == TrailingNonspeech(tail) > MaxTrailing

\* The engine stopped at end of speech or at the cap.
Judge(stop) ==
  /\ status = "finished"
  /\ status' = IF stop = "cap" THEN "truncated"
                ELSE IF Degenerate THEN "collapsed" ELSE "done"
  /\ UNCHANGED <<heard, start, leftover, written, audioSamples, tail>>

Over == status \notin {"streaming", "finished"} /\ UNCHANGED vars

Next == \/ \E chunk \in SeqOf(Level, MaxChunk) :
             Len(chunk) > 0 /\ Len(heard) + Len(chunk) <= MaxSamples /\ Push(chunk)
        \/ PushFails \/ Drop \/ Finish
        \/ \E stop \in {"eos", "cap"} : Judge(stop)
        \/ Over

Spec == Init /\ [][Next]_vars
-----------------------------------------------------------------------------
Ended == status \in {"finished", "done", "truncated", "collapsed"}

\* Every variable has its type, a waiting block is never full, and the tail is
\* bounded however long the utterance runs.
TypeOK ==
  /\ heard \in Seq(Level) /\ start \in 0..Len(heard)
  /\ leftover \in Seq(Level) /\ Len(leftover) < Blocksize
  /\ written \in Seq(Level) /\ Len(written) % Blocksize = 0
  /\ audioSamples \in Nat
  /\ tail \in Seq(Level) /\ Len(tail) <= TailCap
  /\ status \in {"streaming", "finished", "failed", "cancelled",
                "done", "truncated", "collapsed"}

\* What the engine handed over from the start point on.
Wanted == IF start = 0 THEN <<>> ELSE SubSeq(heard, start, Len(heard))

\* No sample is lost, doubled or reordered at a border between chunks or blocks:
\* the wire and the waiting block are what came in since the start, and after
\* the end the wire is that and less than a block of silence.  What came in before
\* the start was silence.
NothingLost ==
  /\ \A i \in 1..Len(heard) : heard[i] # "quiet" => start # 0 /\ start <= i
  /\ status = "streaming" => written \o leftover = Wanted
  /\ Ended => \E n \in 0..Blocksize - 1 : written = Wanted \o Padding(n)
  /\ status \in {"streaming"} \/ Ended => audioSamples + Len(leftover) = Len(Wanted)

\* The verdict is read off the capped tail, in blocks that do not line up with
\* the output.  It is still the verdict on the whole output, up to one block of
\* Measure, also for an utterance much longer than the tail.
VerdictIsSound ==
  /\ status = "done" => TrailingNonspeech(written) < MaxTrailing + Measure
  /\ status = "collapsed" => TrailingNonspeech(written) + Measure > MaxTrailing

\* The comment in push: the cut before the first audible sample leaves a
\* generous preroll, because trimming into it drops the first consonant.
PrerollKept ==
  start # 0 => start + Preroll <= (start - 1) + Onset(SubSeq(heard, start, Len(heard)))
               \/ start = 1

\* The comment in handle_speak: a collapsed utterance must not be treated as a
\* complete one.  One that has no speech at all has collapsed.
SilenceIsReported ==
  status = "done" =>
    \/ \E i \in 1..Len(heard) : heard[i] = "loud"
    \/ Len(heard) < MaxTrailing + Measure
=============================================================================
