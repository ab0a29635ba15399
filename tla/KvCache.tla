------------------------------- MODULE KvCache ------------------------------
(***************************************************************************)
(* The key/value cache of a transformer and what one query makes of it     *)
(* (crates/spqx-core/src/layers.rs `KVCache`, `RotaryEmbedding`,           *)
(* `Attention::forward_with_cache`).                                       *)
(*                                                                         *)
(* A key is what it was made of and the place it was turned to; what       *)
(* attention gives is the set of what the query saw, each so far back.     *)
(* The numbers, the heads and the layers stacked on each other are left    *)
(* out: every layer has a cache of its own, and all are treated alike.     *)
(***************************************************************************)
EXTENDS Integers, Sequences

CONSTANTS STEP,  \* places a cache grows by, 256 in the code
          TABLE  \* places whose rotation is tabulated: max_position_embeddings

ASSUME CacheAssumption == STEP \in Nat \ {0} /\ TABLE \in Nat

NoKeys == [store |-> <<>>, offset |-> 0]

\* A definition named Bug... is never used: put in the place of the one after it,
\* it shows which property would notice that mistake.
BugCleared(cache) == cache
Cleared(cache) == NoKeys

\* The store has room for whole steps; only what is new counts for its growth.
Grown(cache, added) ==
  IF cache.offset + added > Len(cache.store)
  THEN cache.store \o [i \in 1..(((added + STEP - 1) \div STEP) * STEP) |-> NoKeys]
  ELSE cache.store

Update(cache, keys) ==
  LET grown == Grown(cache, Len(keys))
  IN  [store |-> [i \in DOMAIN grown |->
                    IF i - cache.offset \in DOMAIN keys THEN keys[i - cache.offset] ELSE grown[i]],
       offset |-> cache.offset + Len(keys)]
Fetched(cache) == SubSeq(cache.store, 1, cache.offset)

\* The cache of the portable backend has no room to spare.
Concatenated(keys, added) == keys \o added

\* Behind the end of the table the rotation is computed.
Rotated(x, offset) ==
  LET tabulated == [i \in 1..TABLE |-> i]
      places == IF offset + Len(x) <= TABLE
                THEN SubSeq(tabulated, offset + 1, offset + Len(x))
                ELSE [i \in 1..Len(x) |-> offset + i]
  IN  [i \in 1..Len(x) |-> [of |-> x[i], at |-> places[i]]]

\* The mask is causal; a single query has none.
Attend(keys, n) ==
  LET offset == Len(keys) - n IN
  [r \in 1..n |-> {[of |-> keys[c].of, back |-> offset + r - keys[c].at] :
                     c \in {i \in DOMAIN keys : n > 1 => i <= offset + r}}]

\* One pass of x through a transformer with such a cache.
Forward(cache, x) ==
  LET updated == Update(cache, Rotated(x, cache.offset))
  IN  [cache |-> updated, out |-> Attend(Fetched(updated), Len(x))]
=============================================================================
