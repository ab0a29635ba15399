---------------------------- MODULE AudioFormats ----------------------------
(***************************************************************************)
(* What becomes of the samples of an answer before they are sent           *)
(* (crates/spqx-core/src/api/encode.rs, routes.rs `apply_speed`): played   *)
(* faster or slower, brought to the rate of the format, cut into frames.   *)
(*                                                                         *)
(* A sample is the set of the samples of the engine that it is mixed of;   *)
(* silence is made of none.  Loudness, and how a codec packs what it is    *)
(* given, are left out.  Places are exact here, where the code has floats. *)
(***************************************************************************)
EXTENDS Naturals, SequencesExt

CONSTANTS RATE,       \* of the engine, 24000 in the code
          MP3_RATE,   \* 44100 in the code
          OPUS_RATE,  \* 48000 in the code
          OPUS_FRAME, \* 960 in the code
          Speeds,     \* numerators and denominators, of 0.25 to 4.0 in the code
          MaxSound    \* bound: samples of a piece

ASSUME FormatAssumption ==
  /\ {RATE, MP3_RATE, OPUS_RATE, OPUS_FRAME} \subseteq Nat \ {0}
  /\ RATE <= MP3_RATE /\ RATE <= OPUS_RATE
  /\ \A speed \in Speeds : speed[1] \in Nat \ {0} /\ speed[2] \in Nat \ {0}
  /\ MaxSound \in Nat

\* Linear interpolation: num samples where there were den.
Interpolated(x, num, den) ==
  [i \in 1..((Len(x) * num) \div den) |->
     LET at == ((i - 1) * den) \div num + 1
     IN  x[at] \cup (IF at < Len(x) /\ ((i - 1) * den) % num # 0 THEN x[at + 1] ELSE {})]

\* A speed within a hundredth of one is one.
IsOne(speed) ==
  100 * (IF speed[1] > speed[2] THEN speed[1] - speed[2] ELSE speed[2] - speed[1]) < speed[2]
ApplySpeed(x, speed) == IF IsOne(speed) THEN x ELSE Interpolated(x, speed[2], speed[1])

ResampleLinear(x, rate) == IF rate = RATE THEN x ELSE Interpolated(x, rate, RATE)

\* One frame behind the other; the last is filled with silence.
OpusFrames(x) ==
  LET frames == (Len(x) + OPUS_FRAME - 1) \div OPUS_FRAME
  IN  [i \in 1..(frames * OPUS_FRAME) |-> IF i <= Len(x) THEN x[i] ELSE {}]

Formats == {"wav", "pcm", "mp3", "flac", "ogg", "opus"}

EncodePlain(x) == x
EncodeMp3(x) == ResampleLinear(x, MP3_RATE)
EncodeOggOpus(x) == OpusFrames(ResampleLinear(x, OPUS_RATE))
EncodeAudio(x, format) ==
  CASE format \in {"wav", "pcm", "flac"} -> EncodePlain(x)
    [] format = "mp3" -> EncodeMp3(x)
    [] format \in {"ogg", "opus"} -> EncodeOggOpus(x)

\* The pieces of a whole answer are joined and then sped up; those of a stream are
\* sped up one by one.
SpeechFull(pieces, speed, format) == EncodeAudio(ApplySpeed(FlattenSeq(pieces), speed), format)
SpeechStream(pieces, speed) == FlattenSeq([p \in DOMAIN pieces |-> ApplySpeed(pieces[p], speed)])
-----------------------------------------------------------------------------
\* What one sample is made of is no later than what another is made of.
Precedes(x, y) ==
  /\ \A a \in x : \E b \in y : a <= b
  /\ \A b \in y : \E a \in x : a <= b

\* In every format the engine's samples follow each other as they were made, and at
\* no more than normal speed each of them is heard, the last one too; a stream is
\* shorter than the whole answer by less than a sample for each piece.
SoundIsKept ==
  \A m, n \in 0..MaxSound, speed \in Speeds :
    LET pieces == << [i \in 1..m |-> {i}], [i \in 1..n |-> {m + i}] >>
        stream == SpeechStream(pieces, speed)
        whole == SpeechFull(pieces, speed, "pcm")
        slow == speed[1] <= speed[2]
    IN  /\ Len(whole) - Len(stream) \in 0..1
        /\ slow => UNION Range(stream) = 1..(m + n)
        /\ \A format \in Formats :
             LET out == SpeechFull(pieces, speed, format)
             IN  /\ slow => UNION Range(out) = 1..(m + n)
                 /\ \A i \in 2..Len(out) : out[i] # {} =>
                      out[i - 1] # {} /\ Precedes(out[i - 1], out[i])
=============================================================================
