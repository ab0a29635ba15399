--------------------------- MODULE MCNativeStream ---------------------------
(***************************************************************************)
(* Every cap up to seven frames, every batch up to four (zero included)    *)
(* and every text up to four tokens, with and without a vocoder: full      *)
(* batches, a short last one, none, and a refusal of each.  The vocoder    *)
(* has a kernel with and without dilation and one that looks nowhere, an   *)
(* overlap as long as the stride and a shorter one, and a KV cache that    *)
(* grows by less, as much and more than a batch.  The reference's warm     *)
(* frames are fewer than its frames.  The talker's cache grows at the      *)
(* prompt and at every second frame, and runs off the rotation table.  The *)
(* reference's recording is as short as a sample and as long as three      *)
(* frames and a bit, with odd and even strides.  The sampler has two codes *)
(* of speech and the end between two special ones, a top-k that cuts       *)
(* nothing, something, and nearly everything.                              *)
(***************************************************************************)
EXTENDS NativePipeline
MCConvs == {[k |-> 1, d |-> 1], [k |-> 3, d |-> 1], [k |-> 2, d |-> 3]}
MCBlocks == {[k |-> 4, s |-> 2, conv |-> [k |-> 2, d |-> 2]],
             [k |-> 3, s |-> 2, conv |-> [k |-> 2, d |-> 1]]}
MCUpsamples == {[k |-> 2, s |-> 2, conv |-> [k |-> 2, d |-> 1]]}
MCStrides == <<2, 3>>
MCDownsample == <<4, 2>>
MCNEG == -6000
MCLevels == {-6, 6, 12}
=============================================================================
