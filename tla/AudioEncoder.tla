---------------------------- MODULE AudioEncoder ----------------------------
(***************************************************************************)
(* How a reference becomes frames of codes: `AudioEncoder::encode` of      *)
(* crates/spqx-core/src/audio_encoder.rs.                                  *)
(*                                                                         *)
(* A sample of any layer is the set of the places of the recording that it *)
(* hears; padding hears nothing.  The channels, the weights and what each  *)
(* layer does to a sample by itself are left out.  The whole recording is  *)
(* encoded at once, so nothing is remembered.                              *)
(***************************************************************************)
EXTENDS Naturals, Sequences

CONSTANTS STRIDES,          \* of the downsampling convolutions, <<4, 5, 6, 8>> in the code
          DOWNSAMPLE,       \* kernel and stride of the last, <<4, 2>> in the code
          MaxRecordingLength  \* bound: samples of a recording

ASSUME EncoderAssumption ==
  /\ STRIDES \in Seq(Nat \ {0})
  /\ DOWNSAMPLE[2] \in Nat \ {0} /\ DOWNSAMPLE[1] \in Nat /\ DOWNSAMPLE[1] >= DOWNSAMPLE[2]
  /\ MaxRecordingLength \in Nat

Copies(x, n) == [i \in 1..n |-> x]

Strided(k, s, padded) ==
  [t \in 1..((Len(padded) - k) \div s + 1) |-> UNION {padded[(t - 1) * s + j] : j \in 1..k}]

\* What is added on the right, so that the last samples fill a step.
ExtraPadding(n, k, s) ==
  LET padding_total == k - s
      beyond == IF n + padding_total > k THEN n + padding_total - k ELSE 0
      ideal_len == ((beyond + s - 1) \div s) * s + k - padding_total
  IN  IF ideal_len > n THEN ideal_len - n ELSE 0

CausalForward(k, s, x) ==
  Strided(k, s, Copies({}, k - s) \o x \o Copies({}, ExtraPadding(Len(x), k, s)))

\* Kernels of three and of one, added to what came in.
ResBlockForward(x) ==
  LET hidden == Strided(1, 1, Strided(3, 1, Copies({}, 2) \o x))
  IN  [i \in DOMAIN x |-> x[i] \cup hidden[i]]

\* A kernel of seven, then for each stride a block and a convolution twice as wide,
\* and a kernel of three.
ConvEncoder(x) ==
  LET after[i \in 0..Len(STRIDES)] ==
        IF i = 0 THEN CausalForward(7, 1, x)
        ELSE CausalForward(2 * STRIDES[i], STRIDES[i], ResBlockForward(after[i - 1]))
  IN  CausalForward(3, 1, after[Len(STRIDES)])

\* Each place attends to itself and to all before it.
TransformerEncoder(x) == [i \in DOMAIN x |-> UNION {x[j] : j \in 1..i}]

\* Here the padding repeats the first sample, and the last.
Downsample(x) ==
  LET k == DOWNSAMPLE[1]
      s == DOWNSAMPLE[2]
  IN  Strided(k, s, Copies(x[1], k - s) \o x \o Copies(x[Len(x)], ExtraPadding(Len(x), k, s)))

\* A quantizer takes one code after another off what it is given: one for what is
\* said, and fifteen for how it sounds, both from the same place.
RvqEncode(levels, h) ==
  [t \in DOMAIN h |-> [level \in 1..levels |-> [of |-> h[t], less |-> level - 1]]]
Quantize(h) == [t \in DOMAIN h |-> RvqEncode(1, h)[t] \o RvqEncode(15, h)[t]]

Encode(samples) == Quantize(Downsample(TransformerEncoder(ConvEncoder(samples))))
-----------------------------------------------------------------------------
\* Samples that a frame advances by, 1920 in the code.
HOP == LET product[i \in 0..Len(STRIDES)] == IF i = 0 THEN 1 ELSE STRIDES[i] * product[i - 1]
       IN  product[Len(STRIDES)] * DOWNSAMPLE[2]

\* A recording of any length has one frame for each HOP of samples and one for the
\* rest, and each code of a frame is of all up to its end and of nothing behind: no
\* sample of the reference is lost to the steps of the convolutions, at either end.
ReferenceIsHeard ==
  \A n \in 1..MaxRecordingLength :
    LET frames == Encode([i \in 1..n |-> {i}])
    IN  /\ Len(frames) = (n + HOP - 1) \div HOP
        /\ \A t \in DOMAIN frames : \A q \in 1..16 :
             frames[t][q].of = 1..(IF t * HOP < n THEN t * HOP ELSE n)
=============================================================================
