-------------------------- MODULE StreamingVocoder --------------------------
(***************************************************************************)
(* What the vocoder remembers between the batches of one synthesis         *)
(* (crates/spqx-core/src/vocoder.rs `decode_streaming`), and what it       *)
(* computes without: `decode`.                                             *)
(*                                                                         *)
(* A sample is the number of its place in the stream, 0 is padding, and    *)
(* what a layer makes of samples is the record of which ones it used and   *)
(* where.  Every stage is here once for each shape: the plain convolutions,*)
(* the pre-transformer, an upsampling with its ConvNeXt block, a decoder   *)
(* block with its residual unit.  Each is fed with the frames; in the code *)
(* they are chained, and each gets the batches of the one before it,       *)
(* several samples for a frame.  Whatever treats each sample by itself     *)
(* (snake, norms, projections, quantizer) is left out.                     *)
(***************************************************************************)
EXTENDS KvCache, FiniteSets, Bags

CONSTANTS Convs,     \* shapes of CausalConv1d: [k: kernel, d: dilation]
          Blocks,    \* of decoder blocks: [k, s: of their CausalTransConv1d, conv: of their unit]
          Upsamples  \* of upsampling stages: [k, s: likewise, conv: of their ConvNeXt block]

ASSUME VocoderAssumption ==
  /\ \A c \in Convs \cup {u.conv : u \in Blocks \cup Upsamples} :
       c.k \in Nat \ {0} /\ c.d \in Nat \ {0}
  /\ \A u \in Blocks \cup Upsamples : u.s \in Nat \ {0} /\ u.k \in Nat /\ u.k >= u.s

\* The upsampling kernels are as long as their strides: `decode_streaming` keeps no
\* overflow for these stages, and no code compares the two.
ASSUME UpsampleAssumption == \A u \in Upsamples : u.k = u.s

VARIABLES voc,     \* VocoderStreamingState
          audio,   \* history: what each layer gave, all batches in a row
          borders  \* history: how many samples there were before each batch

vvars == <<voc, audio, borders>>

Zeros(n) == [i \in 1..n |-> 0]
LastOf(n, s) == SubSeq(s, Len(s) - n + 1, Len(s))
ButLast(n, s) == SubSeq(s, 1, Len(s) - n)
UpToNumber(n) == [i \in 1..n |-> i]
-----------------------------------------------------------------------------
(* Causal convolution (stride 1).  Nothing remembered is <<>>.             *)

Padding(c) == (c.k - 1) * c.d
Conv(c, padded) ==
  [t \in 1..(Len(padded) - Padding(c)) |-> [j \in 1..c.k |-> padded[t + (j - 1) * c.d]]]

ConvForward(c, x) == Conv(c, Zeros(Padding(c)) \o x)

Padded(c, x, buffer) == (IF buffer = <<>> THEN Zeros(Padding(c)) ELSE buffer) \o x

\* A definition named Bug... is never used: put in the place of the one after it,
\* it shows which property would notice that mistake.
BugBuffered(c, padded) == SubSeq(padded, 1, Padding(c))
Buffered(c, padded) == LastOf(Padding(c), padded)

ConvStep(c, x, buffer) ==
  LET padded == Padded(c, x, buffer)
  IN  [out |-> Conv(c, padded), keeps |-> Buffered(c, padded)]
-----------------------------------------------------------------------------
(* Causal transposed convolution: a sample of output is the bag of its     *)
(* terms, <<sample, tap>> or the bias.                                     *)

Bias == <<0, 0>>
RightPad(u) == u.k - u.s

RawForward(u, x) ==
  [o \in 1..((Len(x) - 1) * u.s + u.k) |->
     SetToBag({Bias} \cup {<<x[i], o - (i - 1) * u.s>> :
                             i \in {n \in 1..Len(x) : o - (n - 1) * u.s \in 1..u.k}})]

TransForward(u, x) == ButLast(RightPad(u), RawForward(u, x))

\* A batch is longer than what is added to it, as a kernel is than its overlap.
Merged(u, x, overflow) ==
  [o \in DOMAIN RawForward(u, x) |->
     IF o <= Len(overflow) THEN RawForward(u, x)[o] (+) overflow[o] ELSE RawForward(u, x)[o]]
-----------------------------------------------------------------------------
(* What the stages are put together of.                                    *)

Plus(x, y) == [i \in DOMAIN x |-> <<x[i], y[i]>>]

\* ConvNeXtBlock: a convolution and what it is added to.
ConvNeXtForward(c, x) == Plus(x, ConvForward(c, x))
ConvNeXtStep(c, x, buffer) ==
  LET hidden == ConvStep(c, x, buffer)
  IN  [out |-> Plus(x, hidden.out), keeps |-> hidden.keeps]

\* DecoderResidualUnit: two of them, the second looking nowhere.
POINT == [k |-> 1, d |-> 1]
UnitForward(c, x) == Plus(x, ConvForward(POINT, ConvForward(c, x)))
UnitStep(c, x, buffers) ==
  LET first == ConvStep(c, x, buffers[1])
      second == ConvStep(POINT, first.out, buffers[2])
  IN  [out |-> Plus(x, second.out), keeps |-> <<first.keeps, second.keeps>>]

\* DecoderBlock: a transposed convolution, and a unit (in the code, three in a row).
BlockForward(u, x) == UnitForward(u.conv, TransForward(u, x))
BlockStep(u, x, state) ==
  LET merged == Merged(u, x, state.overflow)
      unit == UnitStep(u.conv, ButLast(RightPad(u), merged), state.unit)
  IN  [out |-> unit.out, keeps |-> [overflow |-> LastOf(RightPad(u), merged), unit |-> unit.keeps]]

\* An upsampling stage: the transposed convolution remembers nothing.
UpsampleForward(u, x) == ConvNeXtForward(u.conv, TransForward(u, x))
UpsampleStep(u, x, buffer) == ConvNeXtStep(u.conv, TransForward(u, x), buffer)

\* Keys are turned by their places, counted from what the cache holds.
Keys(x, offset) == [i \in 1..Len(x) |-> [of |-> x[i], at |-> offset + i]]
AttentionForward(keys) == Attend(keys, Len(keys))
AttentionWithCache(keys, cache) ==
  LET updated == Update(cache, keys)
  IN  [out |-> Attend(Fetched(updated), Len(keys)), keeps |-> updated]

\* What it attends to is added to what came in.
LayerForward(x) == Plus(x, AttentionForward(Keys(x, 0)))
LayerWithCache(x, cache) ==
  LET attended == AttentionWithCache(Keys(x, cache.offset), cache)
  IN  [out |-> Plus(x, attended.out), keeps |-> attended.keeps]

\* The pre-transformer, of one layer; each has a cache of its own.
TransformerForward(x) == LayerForward(x)
TransformerStep(x, cache) == LayerWithCache(x, cache)
-----------------------------------------------------------------------------
(* The vocoder.                                                            *)

Fresh == [convs |-> [c \in Convs |-> <<>>],
          upsamples |-> [u \in Upsamples |-> <<>>],
          blocks |-> [u \in Blocks |-> [overflow |-> <<>>, unit |-> << <<>>, <<>> >>]],
          transformer |-> NoKeys]
Silent == [convs |-> [c \in Convs |-> <<>>], upsamples |-> [u \in Upsamples |-> <<>>],
           blocks |-> [u \in Blocks |-> <<>>], transformer |-> <<>>]

Whole(x) ==
  [convs |-> [c \in Convs |-> ConvForward(c, x)],
   upsamples |-> [u \in Upsamples |-> UpsampleForward(u, x)],
   blocks |-> [u \in Blocks |-> BlockForward(u, x)],
   transformer |-> TransformerForward(x)]

\* Each stage steps with what it keeps.
Streamed(v, x) ==
  [convs |-> [c \in Convs |-> ConvStep(c, x, v.convs[c])],
   upsamples |-> [u \in Upsamples |-> UpsampleStep(u, x, v.upsamples[u])],
   blocks |-> [u \in Blocks |-> BlockStep(u, x, v.blocks[u])],
   transformer |-> TransformerStep(x, v.transformer)]

Remembering(v, x) ==
  LET step == Streamed(v, x)
  IN  [convs |-> [c \in Convs |-> step.convs[c].keeps],
       upsamples |-> [u \in Upsamples |-> step.upsamples[u].keeps],
       blocks |-> [u \in Blocks |-> step.blocks[u].keeps],
       transformer |-> step.transformer.keeps]

\* A synthesis begins with a fresh state, or with one that has decoded frames of
\* the reference whose audio nobody hears.
VocoderInit(warm) ==
  /\ voc = IF warm = 0 THEN Fresh ELSE Remembering(Fresh, UpToNumber(warm))
  /\ audio = Silent
  /\ borders = {}

Joined(a, step) ==
  [convs |-> [c \in Convs |-> a.convs[c] \o step.convs[c].out],
   upsamples |-> [u \in Upsamples |-> a.upsamples[u] \o step.upsamples[u].out],
   blocks |-> [u \in Blocks |-> a.blocks[u] \o step.blocks[u].out],
   transformer |-> a.transformer \o step.transformer.out]

Decode(x) ==
  /\ audio' = Joined(audio, Streamed(voc, x))
  /\ voc' = Remembering(voc, x)
  /\ borders' = borders \cup {voc.transformer.offset}
-----------------------------------------------------------------------------
(* All batches in a row are what one decoding of everything would give.    *)

From(n, s) == SubSeq(s, n + 1, Len(s))

\* What is carried over a border contains the bias already.
WithCarriedBias(u, whole) ==
  [o \in DOMAIN whole |->
     LET crossed == {b \in borders \ {0} : o - b * u.s \in 1..RightPad(u)}
     IN  whole[o] (+) [e \in IF crossed = {} THEN {} ELSE {Bias} |-> Cardinality(crossed)]]
BlockWithCarriedBias(u, x) == UnitForward(u.conv, WithCarriedBias(u, TransForward(u, x)))

AsWhole(warm, n) ==
  LET x == UpToNumber(warm + n)
      whole == Whole(x) IN
  n > 0 =>
    /\ \A c \in Convs : audio.convs[c] = From(warm, whole.convs[c])
    /\ \A u \in Blocks : audio.blocks[u] = From(warm * u.s, BlockWithCarriedBias(u, x))
    /\ \A u \in Upsamples : audio.upsamples[u] = From(warm * u.s, whole.upsamples[u])
    /\ audio.transformer = From(warm, whole.transformer)
=============================================================================
