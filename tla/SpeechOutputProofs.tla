------------------------- MODULE SpeechOutputProofs -------------------------
(***************************************************************************)
(* Proofs about what becomes of speech and of its text on the way out.     *)
(*                                                                         *)
(* PcmStreamer.tla, for utterances, chunks and blocks of any size: no      *)
(* sample is lost between the engine and the wire, and the verdict read    *)
(* off the tail is that on the whole output.                               *)
(*                                                                         *)
(* SpeechApi.tla, for texts and limits of any length: the chunker loses    *)
(* nothing of a text, says nothing twice and keeps its order, and an       *)
(* answer that ends as done sends what it cut.  AudioFormats.tla, for any  *)
(* rates, speeds and sizes: no sample is lost in what is sent.             *)
(*                                                                         *)
(* The lemmas come first: on sequences, on division, and the existence of  *)
(* a first and a last audible sample, which the code finds by searching.   *)
(***************************************************************************)
EXTENDS PcmStreamer, SpeechApi, FiniteSetTheorems, SequenceTheorems, TLAPS

(* Numbers.                                                                *)

LEMMA Quotient ==
  ASSUME NEW x \in Nat, NEW m \in Nat \ {0}
  PROVE  /\ x \div m \in Nat
         /\ (x \div m) * m \in Nat /\ (x \div m) * m <= x
         /\ x < (x \div m) * m + m
<1>1. x \div m \in Int /\ (x \div m) * m <= x /\ x < (x \div m) * m + m
  OBVIOUS
<1>2. x \div m >= 0
  OBVIOUS
<1> QED BY <1>1, <1>2

LEMMA Multiple ==
  ASSUME NEW k \in Nat, NEW m \in Nat \ {0}
  PROVE  k * m \in Nat /\ (k * m) % m = 0
OBVIOUS

LEMMA Smallest ==
  ASSUME NEW T \in SUBSET Nat, T # {}
  PROVE  \E x \in T : \A y \in T : x <= y
<1> DEFINE U == {0..x : x \in T}
<1>1. U \subseteq FiniteSubsetsOf(Nat) /\ U # {}
  <2>1. \A x \in T : 0..x \in SUBSET Nat
    OBVIOUS
  <2>2. \A x \in T : IsFiniteSet(0..x)
    BY FS_Interval
  <2> QED BY <2>1, <2>2 DEF FiniteSubsetsOf
<1> HIDE DEF U
<1>2. PICK m \in U : \A y \in U : ~(<<y, m>> \in StrictSubsetOrdering(Nat))
  BY <1>1, FS_StrictSubsetOrderingWellFounded, WFMin
<1>3. PICK x \in T : m = 0..x
  BY DEF U
<1>4. ASSUME NEW y \in T, ~(x <= y) PROVE FALSE
  <2>1. 0..y \in U
    BY DEF U
  <2>2. 0..y \subseteq 0..x /\ 0..y # 0..x
    <3>1. x \in 0..x /\ x \notin 0..y
      BY <1>4
    <3>2. 0..y \subseteq 0..x
      BY <1>4
    <3> QED BY <3>1, <3>2
  <2>3. <<0..y, 0..x>> \in StrictSubsetOrdering(Nat)
    BY <2>2 DEF StrictSubsetOrdering
  <2> QED BY <2>1, <2>3, <1>2, <1>3
<1> QED BY <1>4

LEMMA Largest ==
  ASSUME NEW n \in Nat, NEW T \in SUBSET (0..n), T # {}
  PROVE  \E x \in T : \A y \in T : x >= y
<1> DEFINE D == {n - x : x \in T}
<1>1. D \in SUBSET Nat /\ D # {}
  <2>1. \A x \in T : n - x \in Nat
    OBVIOUS
  <2> QED BY <2>1
<1> HIDE DEF D
<1>2. PICK d \in D : \A e \in D : d <= e
  BY <1>1, Smallest
<1>3. PICK x \in T : d = n - x
  BY DEF D
<1>4. \A y \in T : n - y \in D
  BY DEF D
<1> QED BY <1>2, <1>3, <1>4

(* Sequences.                                                              *)

LEMMA Split ==
  ASSUME NEW S, NEW s \in Seq(S), NEW n \in 0..Len(s)
  PROVE  /\ SubSeq(s, 1, n) \in Seq(S) /\ Len(SubSeq(s, 1, n)) = n
         /\ SubSeq(s, n + 1, Len(s)) \in Seq(S) /\ Len(SubSeq(s, n + 1, Len(s))) = Len(s) - n
         /\ SubSeq(s, 1, n) \o SubSeq(s, n + 1, Len(s)) = s
<1>1. Len(s) \in Nat /\ \A i \in 1..Len(s) : s[i] \in S
  BY LenProperties, ElementOfSeq
<1>2. SubSeq(s, 1, n) \in Seq(S) /\ Len(SubSeq(s, 1, n)) = n
  <2>1. \A i \in 1..n : s[i] \in S
    BY <1>1
  <2> QED BY <1>1, <2>1, SubSeqProperties
<1>3. SubSeq(s, n + 1, Len(s)) \in Seq(S) /\ Len(SubSeq(s, n + 1, Len(s))) = Len(s) - n
  <2>1. \A i \in n + 1..Len(s) : s[i] \in S
    BY <1>1
  <2> QED BY <1>1, <2>1, SubSeqProperties
<1>4. SubSeq(s, 1, n) \o SubSeq(s, n + 1, Len(s)) = SubSeq(s, 1, Len(s))
  <2>1. 1 \in 1..Len(s) + 1 /\ n \in 1 - 1..Len(s) /\ Len(s) \in n..Len(s)
    BY <1>1
  <2> QED BY <2>1, ConcatAdjacentSubSeq
<1> QED BY <1>2, <1>3, <1>4, SubSeqFull

\* The end of what ends a sequence, with more behind it, is the end of both.
LEMMA LastOfProperties ==
  ASSUME NEW S, NEW s \in Seq(S), NEW n \in Nat
  PROVE  /\ LastOf(s, n) \in Seq(S)
         /\ Len(LastOf(s, n)) = IF Len(s) > n THEN n ELSE Len(s)
         /\ \A i \in 1..Len(LastOf(s, n)) :
              LastOf(s, n)[i] = s[Len(s) - Len(LastOf(s, n)) + i]
<1> DEFINE first == IF Len(s) > n THEN Len(s) - n + 1 ELSE 1
<1>1. Len(s) \in Nat /\ \A i \in 1..Len(s) : s[i] \in S
  BY LenProperties, ElementOfSeq
<1>2. first \in Int /\ \A i \in first..Len(s) : s[i] \in S
  BY <1>1
<1>3. LastOf(s, n) = SubSeq(s, first, Len(s))
  BY DEF LastOf
<1> HIDE DEF first
<1>4. /\ LastOf(s, n) \in Seq(S)
      /\ Len(LastOf(s, n)) = IF first <= Len(s) THEN Len(s) - first + 1 ELSE 0
      /\ \A i \in 1..Len(s) - first + 1 : LastOf(s, n)[i] = s[first + i - 1]
  BY <1>1, <1>2, <1>3, SubSeqProperties
<1>5. first \in Nat \ {0} /\ first = IF Len(s) > n THEN Len(s) - n + 1 ELSE 1
  BY <1>1 DEF first
<1>6. Len(LastOf(s, n)) = IF Len(s) > n THEN n ELSE Len(s)
  <2>1. /\ Len(s) \in Nat
        /\ Len(LastOf(s, n)) = IF first <= Len(s) THEN Len(s) - first + 1 ELSE 0
    BY <1>1, <1>4, Zenon
  <2>2. CASE Len(s) > n
    BY <1>5, <2>1, <2>2
  <2>3. CASE ~(Len(s) > n)
    BY <1>5, <2>1, <2>3
  <2> QED BY <2>2, <2>3
<1>7. ASSUME NEW i \in 1..Len(LastOf(s, n))
      PROVE  LastOf(s, n)[i] = s[Len(s) - Len(LastOf(s, n)) + i]
  <2>1. i \in 1..Len(s) - first + 1 /\ first + i - 1 = Len(s) - Len(LastOf(s, n)) + i
    BY <1>1, <1>5, <1>6
  <2> QED BY <1>4, <2>1
<1> QED BY <1>4, <1>6, <1>7

LEMMA LastOfLastOf ==
  ASSUME NEW S, NEW s \in Seq(S), NEW t \in Seq(S), NEW n \in Nat
  PROVE  LastOf(LastOf(s, n) \o t, n) = LastOf(s \o t, n)
<1> DEFINE u == LastOf(s, n)
           v == u \o t
           w == s \o t
           a == LastOf(v, n)
           b == LastOf(w, n)
<1>1. /\ u \in Seq(S)
      /\ Len(u) = IF Len(s) > n THEN n ELSE Len(s)
      /\ \A i \in 1..Len(u) : u[i] = s[Len(s) - Len(u) + i]
  BY LastOfProperties
<1> HIDE DEF u
<1>2. /\ v \in Seq(S) /\ Len(v) = Len(u) + Len(t)
      /\ \A i \in 1..Len(u) + Len(t) : v[i] = IF i <= Len(u) THEN u[i] ELSE t[i - Len(u)]
  BY <1>1, ConcatProperties
<1>3. /\ w \in Seq(S) /\ Len(w) = Len(s) + Len(t)
      /\ \A i \in 1..Len(s) + Len(t) : w[i] = IF i <= Len(s) THEN s[i] ELSE t[i - Len(s)]
  BY ConcatProperties
<1> HIDE DEF v, w
<1>4. /\ a \in Seq(S)
      /\ Len(a) = IF Len(v) > n THEN n ELSE Len(v)
      /\ \A i \in 1..Len(a) : a[i] = v[Len(v) - Len(a) + i]
  BY <1>2, LastOfProperties
<1>5. /\ b \in Seq(S)
      /\ Len(b) = IF Len(w) > n THEN n ELSE Len(w)
      /\ \A i \in 1..Len(b) : b[i] = w[Len(w) - Len(b) + i]
  BY <1>3, LastOfProperties
<1> HIDE DEF a, b
<1>6. /\ Len(s) \in Nat /\ Len(t) \in Nat /\ Len(u) \in Nat /\ Len(a) \in Nat
      /\ Len(v) = Len(u) + Len(t) /\ Len(w) = Len(s) + Len(t)
      /\ Len(u) <= Len(s) /\ Len(a) <= Len(v) /\ Len(a) = Len(b)
  <2>1. /\ Len(u) = IF Len(s) > n THEN n ELSE Len(s)
        /\ Len(a) = IF Len(v) > n THEN n ELSE Len(v)
        /\ Len(b) = IF Len(w) > n THEN n ELSE Len(w)
        /\ Len(v) = Len(u) + Len(t) /\ Len(w) = Len(s) + Len(t)
    BY <1>1, <1>2, <1>3, <1>4, <1>5, Zenon
  <2>2. Len(s) \in Nat /\ Len(t) \in Nat /\ Len(u) \in Nat
    BY <1>1, LenProperties
  <2> QED BY <2>1, <2>2
<1>7. ASSUME NEW i \in 1..Len(a) PROVE a[i] = b[i]
  <2> DEFINE x == Len(v) - Len(a) + i
             y == Len(w) - Len(b) + i
  <2>1. x \in 1..Len(u) + Len(t) /\ y \in 1..Len(s) + Len(t) /\ y = Len(s) - Len(u) + x
    BY <1>6
  <2>2. a[i] = v[x] /\ b[i] = w[y]
    BY <1>4, <1>5, <1>6, Zenon
  <2> HIDE DEF x, y
  <2>3. v[x] = IF x <= Len(u) THEN u[x] ELSE t[x - Len(u)]
    BY <1>2, <2>1, Zenon
  <2>4. w[y] = IF y <= Len(s) THEN s[y] ELSE t[y - Len(s)]
    BY <1>3, <2>1, Zenon
  <2>5. CASE x <= Len(u)
    <3>1. x \in 1..Len(u) /\ y <= Len(s)
      BY <1>6, <2>1, <2>5
    <3>2. u[x] = s[y]
      BY <1>1, <2>1, <3>1, Zenon
    <3> QED BY <2>2, <2>3, <2>4, <2>5, <3>1, <3>2
  <2>6. CASE ~(x <= Len(u))
    <3>1. ~(y <= Len(s)) /\ y - Len(s) = x - Len(u)
      BY <1>6, <2>1, <2>6
    <3> QED BY <2>2, <2>3, <2>4, <2>6, <3>1
  <2> QED BY <2>5, <2>6
<1>8. a = b
  BY <1>4, <1>5, <1>6, <1>7, SeqEqual
<1> QED BY <1>8 DEF a, b, u, v, w

LEMMA SuffixGrows ==
  ASSUME NEW S, NEW s \in Seq(S), NEW t \in Seq(S), NEW k \in 1..Len(s)
  PROVE  SubSeq(s \o t, k, Len(s \o t)) = SubSeq(s, k, Len(s)) \o t
<1> DEFINE w == s \o t
<1>1. /\ Len(s) \in Nat /\ Len(t) \in Nat
      /\ w \in Seq(S) /\ Len(w) = Len(s) + Len(t)
  BY ConcatProperties, LenProperties
<1>2. SubSeq(w, k, Len(s)) = SubSeq(s, k, Len(s))
  <2>1. Len(s) \in 1..Len(s)
    BY <1>1
  <2> QED BY <2>1, SubSeqOfConcat1
<1>3. SubSeq(w, Len(s) + 1, Len(w)) = t
  <2>1. CASE Len(t) = 0
    <3>1. t = <<>>
      BY <2>1, EmptySeq
    <3>2. Len(s) + 1 \in Int /\ Len(w) \in Int /\ Len(w) < Len(s) + 1
      BY <1>1, <2>1
    <3> HIDE DEF w
    <3> QED BY <3>1, <3>2, SubSeqEmpty
  <2>2. CASE Len(t) # 0
    <3>1. /\ Len(s) + 1 \in Len(s) + 1..Len(s) + Len(t)
          /\ Len(s) + Len(t) \in Len(s) + 1..Len(s) + Len(t)
          /\ Len(s) + 1 - Len(s) = 1 /\ Len(s) + Len(t) - Len(s) = Len(t)
      BY <1>1, <2>2
    <3>2. SubSeq(w, Len(s) + 1, Len(s) + Len(t)) = SubSeq(t, 1, Len(t))
      BY <3>1, SubSeqOfConcat2
    <3> QED BY <1>1, <3>2, SubSeqFull
  <2> QED BY <2>1, <2>2
<1>4. SubSeq(w, k, Len(s)) \o SubSeq(w, Len(s) + 1, Len(w)) = SubSeq(w, k, Len(w))
  <2>1. /\ k \in 1..Len(w) + 1 /\ Len(s) \in k - 1..Len(w) /\ Len(w) \in Len(s)..Len(w)
    BY <1>1
  <2> HIDE DEF w
  <2> QED BY <1>1, <2>1, ConcatAdjacentSubSeq
<1> QED BY <1>2, <1>3, <1>4

LEMMA SuffixInSecond ==
  ASSUME NEW S, NEW s \in Seq(S), NEW t \in Seq(S), NEW k \in 1..Len(t)
  PROVE  SubSeq(s \o t, Len(s) + k, Len(s \o t)) = SubSeq(t, k, Len(t))
<1>1. Len(s) \in Nat /\ Len(t) \in Nat /\ Len(s \o t) = Len(s) + Len(t)
  BY ConcatProperties, LenProperties
<1>2. /\ Len(s) + k \in Len(s) + 1..Len(s) + Len(t)
      /\ Len(s) + Len(t) \in Len(s) + 1..Len(s) + Len(t)
      /\ Len(s) + k - Len(s) = k /\ Len(s) + Len(t) - Len(s) = Len(t)
  BY <1>1
<1> QED BY <1>1, <1>2, SubSeqOfConcat2

LEMMA PaddingIsQuiet ==
  ASSUME NEW n \in Nat
  PROVE  Padding(n) \in Seq(Level) /\ Len(Padding(n)) = n
BY DEF Padding, Level
-----------------------------------------------------------------------------
(* The invariant.                                                          *)

TypeInv ==
  /\ heard \in Seq(Level) /\ start \in Nat
  /\ leftover \in Seq(Level) /\ written \in Seq(Level) /\ tail \in Seq(Level)
  /\ audioSamples \in Nat
  /\ status \in {"streaming", "finished", "failed", "cancelled",
                 "done", "truncated", "collapsed"}

\* The wire has whole blocks, and less than one is waiting.
BlockInv ==
  /\ Len(leftover) < Blocksize
  /\ \E k \in Nat : Len(written) = k * Blocksize

\* The output starts at or before the first audible sample, or not yet.
StartInv ==
  /\ start <= Len(heard)
  /\ \A i \in 1..Len(heard) : heard[i] # "quiet" => start # 0 /\ start <= i
  /\ start = 0 => written = <<>> /\ leftover = <<>>

\* Between the handlers, the wire and the waiting block are all of the output;
\* at its end nothing waits and less than a block of silence was added.
FlowInv ==
  /\ status = "streaming" => /\ written \o leftover = Wanted
                             /\ audioSamples = Len(written)
  /\ Ended => /\ leftover = <<>>
              /\ \E n \in 0..Blocksize - 1 : written = Wanted \o Padding(n)
              /\ audioSamples = Len(Wanted)

\* What is remembered is the end of what was written.
TailInv ==
  /\ Len(tail) <= TailCap
  /\ status = "streaming" \/ Ended => tail = LastOf(written, TailCap)

\* The verdict was read off the tail.
JudgeInv ==
  /\ status = "done" => ~Degenerate
  /\ status = "collapsed" => Degenerate

IInv == TypeInv /\ BlockInv /\ StartInv /\ FlowInv /\ TailInv /\ JudgeInv

LEMMA InitInv == Init => IInv
<1> SUFFICES ASSUME Init PROVE IInv
  OBVIOUS
<1> USE DEF Init
<1>1. <<>> \in Seq(Level) /\ Len(<<>>) = 0
  BY EmptySeq
<1>2. TypeInv
  BY <1>1 DEF TypeInv
<1>3. BlockInv
  <2>1. 0 * Blocksize = 0
    BY PcmAssumption
  <2> QED BY <1>1, <2>1, PcmAssumption DEF BlockInv
<1>4. StartInv
  BY <1>1 DEF StartInv
<1>5. FlowInv
  <2>1. <<>> \o <<>> = <<>>
    BY <1>1, ConcatEmptySeq
  <2> QED BY <1>1, <2>1 DEF FlowInv, Wanted, Ended
<1>6. TailInv
  <2>1. TailCap \in Nat
    BY PcmAssumption
  <2>2. /\ LastOf(<<>>, TailCap) \in Seq(Level)
        /\ Len(LastOf(<<>>, TailCap)) = IF 0 > TailCap THEN TailCap ELSE 0
    BY <1>1, <2>1, LastOfProperties
  <2>3. LastOf(<<>>, TailCap) = <<>>
    BY <2>1, <2>2, EmptySeq
  <2> QED BY <1>1, <2>1, <2>3 DEF TailInv
<1>7. JudgeInv
  BY DEF JudgeInv
<1> QED BY <1>2, <1>3, <1>4, <1>5, <1>6, <1>7 DEF IInv

\* What writing does with the samples it is given: if no block fails, they are on
\* the wire and in the waiting block.
LEMMA WritingKeeps ==
  ASSUME TypeInv, BlockInv, NEW pcm \in Seq(Level), WriteBlocks(pcm),
         tail = LastOf(written, TailCap)
  PROVE  /\ leftover' \in Seq(Level) /\ written' \in Seq(Level) /\ tail' \in Seq(Level)
         /\ audioSamples' \in Nat /\ BlockInv' /\ Len(tail') <= TailCap
         /\ \/ /\ status' = status /\ written' \o leftover' = written \o pcm
               /\ audioSamples' = audioSamples + (Len(written') - Len(written))
               /\ tail' = LastOf(written', TailCap)
            \/ status' = "failed"
<1> DEFINE blocks == Len(pcm) \div Blocksize
           Sent(k) == SubSeq(pcm, 1, k * Blocksize)
<1>1. Len(pcm) \in Nat /\ Blocksize \in Nat \ {0} /\ TailCap \in Nat
  BY PcmAssumption, LenProperties
<1>2. /\ blocks \in Nat /\ blocks * Blocksize \in 0..Len(pcm)
      /\ Len(pcm) - blocks * Blocksize < Blocksize
  <2>1. /\ blocks \in Nat /\ blocks * Blocksize \in Nat
        /\ blocks * Blocksize <= Len(pcm) /\ Len(pcm) < blocks * Blocksize + Blocksize
    BY <1>1, Quotient
  <2> HIDE DEF blocks
  <2> QED BY <1>1, <2>1
<1> HIDE DEF blocks
<1>3. ASSUME NEW k \in 0..blocks PROVE k * Blocksize \in 0..Len(pcm)
  <2>1. k * Blocksize \in Nat /\ k * Blocksize <= blocks * Blocksize
    BY <1>1, <1>2
  <2> QED BY <1>1, <1>2, <2>1
<1>4. ASSUME NEW k \in 0..blocks
      PROVE  Sent(k) \in Seq(Level) /\ Len(Sent(k)) = k * Blocksize
  BY <1>3, Split
<1>5. ASSUME NEW more \in Seq(Level)
      PROVE  /\ Remembered(more) \in Seq(Level) /\ Len(Remembered(more)) <= TailCap
             /\ Remembered(more) = LastOf(written \o more, TailCap)
  <2> DEFINE all == written \o more
             last == LastOf(all, TailCap)
  <2>1. Remembered(more) = last
    BY <1>1, LastOfLastOf DEF Remembered, TypeInv
  <2>2. all \in Seq(Level)
    BY ConcatProperties DEF TypeInv
  <2>3. Len(all) \in Nat
    BY <2>2, LenProperties
  <2> HIDE DEF all
  <2>4. last \in Seq(Level) /\ Len(last) = IF Len(all) > TailCap THEN TailCap ELSE Len(all)
    BY <1>1, <2>2, LastOfProperties
  <2> HIDE DEF last
  <2>5. Len(last) <= TailCap
    BY <1>1, <2>3, <2>4
  <2>6. last = LastOf(written \o more, TailCap)
    BY DEF last, all
  <2> QED BY <2>1, <2>4, <2>5, <2>6, Zenon
<1>6. ASSUME NEW k \in 0..blocks
      PROVE  /\ written \o Sent(k) \in Seq(Level)
             /\ Len(written \o Sent(k)) = Len(written) + k * Blocksize
             /\ \E m \in Nat : Len(written \o Sent(k)) = m * Blocksize
  <2>1. /\ written \o Sent(k) \in Seq(Level)
        /\ Len(written \o Sent(k)) = Len(written) + k * Blocksize
    BY <1>4, ConcatProperties DEF TypeInv
  <2>2. PICK m \in Nat : Len(written) = m * Blocksize
    BY DEF BlockInv
  <2>3. m * Blocksize + k * Blocksize = (m + k) * Blocksize /\ m + k \in Nat
    BY <1>1, <1>2
  <2> QED BY <2>1, <2>2, <2>3
<1>7. CASE /\ written' = written \o Sent(blocks)
           /\ audioSamples' = audioSamples + blocks * Blocksize
           /\ tail' = Remembered(Sent(blocks))
           /\ leftover' = Rest(pcm, blocks * Blocksize)
           /\ UNCHANGED status
  <2>1. blocks \in 0..blocks
    BY <1>2
  <2>2. /\ leftover' \in Seq(Level) /\ Len(leftover') < Blocksize
        /\ Sent(blocks) \o leftover' = pcm
    BY <1>2, <1>7, Split DEF Rest
  <2>3. written' \in Seq(Level) /\ BlockInv'
    BY <1>6, <1>7, <2>1, <2>2 DEF BlockInv
  <2>4. /\ tail' \in Seq(Level) /\ Len(tail') <= TailCap
        /\ tail' = LastOf(written', TailCap)
    BY <1>4, <1>5, <1>7, <2>1
  <2>5. written' \o leftover' = written \o pcm
    <3> DEFINE taken == Sent(blocks)
    <3>1. taken \in Seq(Level) /\ written' = written \o taken /\ taken \o leftover' = pcm
      BY <1>4, <1>7, <2>1, <2>2
    <3> HIDE DEF taken
    <3>2. (written \o taken) \o leftover' = written \o (taken \o leftover')
      <4>1. \A a, b, c \in Seq(Level) : (a \o b) \o c = a \o (b \o c)
        BY ConcatAssociative
      <4>2. written \in Seq(Level) /\ leftover' \in Seq(Level) /\ taken \in Seq(Level)
        BY <2>2, <3>1 DEF TypeInv
      <4> QED BY ONLY <4>1, <4>2
    <3> QED BY <3>1, <3>2
  <2>6. Len(written') - Len(written) = blocks * Blocksize
    <3>1. Len(written') = Len(written) + blocks * Blocksize /\ Len(written) \in Nat
      BY <1>6, <1>7, <2>1, LenProperties DEF TypeInv
    <3> QED BY <1>2, <3>1
  <2>7. audioSamples' \in Nat
    BY <1>2, <1>7 DEF TypeInv
  <2> QED BY <1>7, <2>2, <2>3, <2>4, <2>5, <2>6, <2>7
<1>8. ASSUME NEW k \in 1..blocks,
             /\ written' = written \o Sent(k - 1)
             /\ audioSamples' = audioSamples + k * Blocksize
             /\ tail' = Remembered(Sent(k))
             /\ leftover' = <<>>
             /\ status' = "failed"
      PROVE  /\ leftover' \in Seq(Level) /\ written' \in Seq(Level) /\ tail' \in Seq(Level)
             /\ audioSamples' \in Nat /\ BlockInv' /\ Len(tail') <= TailCap
  <2>1. k \in 0..blocks /\ k - 1 \in 0..blocks
    BY <1>2
  <2>2. leftover' \in Seq(Level) /\ Len(leftover') = 0
    BY <1>8, EmptySeq
  <2>3. written' \in Seq(Level) /\ BlockInv'
    <3>1. written' \in Seq(Level) /\ \E m \in Nat : Len(written') = m * Blocksize
      BY <1>6, <1>8, <2>1
    <3>2. Len(leftover') < Blocksize
      BY <1>1, <2>2
    <3> QED BY <3>1, <3>2 DEF BlockInv
  <2>4. tail' \in Seq(Level) /\ Len(tail') <= TailCap
    BY <1>4, <1>5, <1>8, <2>1
  <2>5. audioSamples' \in Nat
    <3>1. k * Blocksize \in Nat
      BY <1>3, <1>8
    <3>2. audioSamples \in Nat
      BY DEF TypeInv
    <3> QED BY <1>8, <3>1, <3>2
  <2> QED BY <2>2, <2>3, <2>4, <2>5
<1> QED BY <1>7, <1>8 DEF WriteBlocks, blocks

LEMMA OnsetIsFirst ==
  ASSUME NEW chunk \in Seq(Level), Audible(chunk) # {}
  PROVE  /\ Cut(chunk) \in 1..Len(chunk)
         /\ \A i \in 1..Len(chunk) : chunk[i] # "quiet" => Cut(chunk) <= i
<1>1. Len(chunk) \in Nat /\ DOMAIN chunk = 1..Len(chunk)
  BY LenProperties
<1>2. Audible(chunk) \in SUBSET Nat /\ Audible(chunk) \in SUBSET (1..Len(chunk))
  BY <1>1 DEF Audible
<1>3. \E i \in Audible(chunk) : \A j \in Audible(chunk) : i <= j
  BY <1>2, Smallest
<1>4. Onset(chunk) \in Audible(chunk) /\ \A j \in Audible(chunk) : Onset(chunk) <= j
  BY <1>3 DEF Onset
<1>5. Onset(chunk) \in 1..Len(chunk)
  BY <1>2, <1>4
<1>6. Cut(chunk) \in 1..Len(chunk) /\ Cut(chunk) <= Onset(chunk)
  BY <1>1, <1>5, PcmAssumption DEF Cut
<1>7. ASSUME NEW i \in 1..Len(chunk), chunk[i] # "quiet" PROVE Cut(chunk) <= i
  <2>1. Onset(chunk) <= i
    BY <1>1, <1>4, <1>7 DEF Audible
  <2> QED BY <1>5, <1>6, <2>1
<1> QED BY <1>6, <1>7

\* A chunk that is taken, in each of the three ways.
LEMMA PushInv ==
  ASSUME IInv, NEW chunk \in Seq(Level), Push(chunk) PROVE IInv'
<1> USE DEF IInv
<1>1. /\ status = "streaming" /\ heard' = heard \o chunk
      /\ Len(heard) \in Nat /\ Len(chunk) \in Nat /\ Len(heard') = Len(heard) + Len(chunk)
      /\ heard' \in Seq(Level)
      /\ \A i \in 1..Len(heard) + Len(chunk) :
           heard'[i] = IF i <= Len(heard) THEN heard[i] ELSE chunk[i - Len(heard)]
  BY LenProperties, ConcatProperties DEF Push, TypeInv
<1>2. written \in Seq(Level) /\ leftover \in Seq(Level) /\ heard \in Seq(Level)
  BY DEF TypeInv
<1>3. /\ written \o leftover = Wanted /\ audioSamples = Len(written)
      /\ tail = LastOf(written, TailCap)
  BY <1>1 DEF FlowInv, TailInv
<1>4. CASE /\ start = 0 /\ Audible(chunk) = {}
           /\ UNCHANGED <<start, leftover, written, audioSamples, tail, status>>
  <2>1. TypeInv' /\ BlockInv' /\ TailInv' /\ JudgeInv'
    <3>1. TypeInv'
      BY <1>1, <1>4 DEF TypeInv
    <3>2. BlockInv'
      BY <1>4 DEF BlockInv
    <3>3. TailInv'
      BY <1>4 DEF TailInv, Ended
    <3>4. JudgeInv'
      BY <1>1, <1>4 DEF JudgeInv
    <3> QED BY <3>1, <3>2, <3>3, <3>4
  <2>2. StartInv'
    <3>1. \A i \in 1..Len(chunk) : chunk[i] = "quiet"
      BY <1>1, <1>4, LenProperties DEF Audible
    <3>2. \A i \in 1..Len(heard) : heard[i] = "quiet"
      BY <1>4 DEF StartInv
    <3>3. ASSUME NEW i \in 1..Len(heard'), heard'[i] # "quiet" PROVE FALSE
      <4>1. CASE i <= Len(heard)
        BY <1>1, <3>2, <3>3, <4>1
      <4>2. CASE ~(i <= Len(heard))
        BY <1>1, <3>1, <3>3, <4>2
      <4> QED BY <4>1, <4>2
    <3>4. start' <= Len(heard')
      BY <1>1, <1>4
    <3> QED BY <1>4, <3>3, <3>4 DEF StartInv
  <2>3. FlowInv'
    BY <1>1, <1>3, <1>4 DEF FlowInv, Wanted, Ended
  <2> QED BY <2>1, <2>2, <2>3
\* With the samples to be written, the output is what it should be.
<1>5. ASSUME NEW pcm \in Seq(Level), WriteBlocks(pcm), start' \in Nat, start' # 0,
             written \o pcm = Wanted'
      PROVE  TypeInv' /\ BlockInv' /\ FlowInv' /\ TailInv' /\ JudgeInv'
  <2>1. /\ leftover' \in Seq(Level) /\ written' \in Seq(Level) /\ tail' \in Seq(Level)
        /\ audioSamples' \in Nat /\ BlockInv' /\ Len(tail') <= TailCap
        /\ \/ /\ status' = status /\ written' \o leftover' = written \o pcm
              /\ audioSamples' = audioSamples + (Len(written') - Len(written))
              /\ tail' = LastOf(written', TailCap)
           \/ status' = "failed"
    BY <1>3, <1>5, WritingKeeps
  <2>2. TypeInv'
    BY <1>1, <1>5, <2>1 DEF TypeInv
  <2>3. Len(written) \in Nat /\ Len(written') \in Nat
    BY <1>2, <2>1, LenProperties
  <2>4. status' = "streaming" => audioSamples' = Len(written')
    BY <1>3, <2>1, <2>3
  <2>5. FlowInv'
    BY <1>1, <1>5, <2>1, <2>4 DEF FlowInv, Ended
  <2>6. TailInv'
    BY <1>1, <2>1 DEF TailInv, Ended
  <2>7. JudgeInv'
    BY <1>1, <2>1 DEF JudgeInv
  <2> QED BY <2>1, <2>2, <2>5, <2>6, <2>7
<1>6. CASE /\ start = 0 /\ Audible(chunk) # {}
           /\ start' = Len(heard) + Cut(chunk)
           /\ WriteBlocks(SubSeq(chunk, Cut(chunk), Len(chunk)))
  <2> DEFINE cut == Cut(chunk)
             pcm == SubSeq(chunk, cut, Len(chunk))
  <2>1. cut \in 1..Len(chunk) /\ \A i \in 1..Len(chunk) : chunk[i] # "quiet" => cut <= i
    BY <1>6, OnsetIsFirst
  <2> HIDE DEF cut
  <2>2. start' = Len(heard) + cut /\ start' \in 1..Len(heard')
    BY <1>1, <1>6, <2>1 DEF cut
  <2>3. pcm \in Seq(Level)
    <3>1. \A i \in cut..Len(chunk) : chunk[i] \in Level
      BY <2>1, ElementOfSeq
    <3> QED BY <1>1, <2>1, <3>1, SubSeqProperties
  <2>4. written \o pcm = Wanted'
    <3>1. written = <<>>
      BY <1>6 DEF StartInv
    <3>2. written \o pcm = pcm
      BY <2>3, <3>1, ConcatEmptySeq
    <3>3. SubSeq(heard \o chunk, Len(heard) + cut, Len(heard \o chunk)) = pcm
      BY <1>2, <2>1, SuffixInSecond
    <3>4. start' # 0
      BY <1>1, <2>2
    <3>5. Wanted' = SubSeq(heard', start', Len(heard'))
      BY ONLY <3>4, Zenon DEF Wanted
    <3> QED BY <1>1, <2>2, <3>2, <3>3, <3>5
  <2>5. StartInv'
    <3>1. \A i \in 1..Len(heard) : heard[i] = "quiet"
      BY <1>6 DEF StartInv
    <3>2. ASSUME NEW i \in 1..Len(heard'), heard'[i] # "quiet" PROVE start' <= i
      <4>1. ~(i <= Len(heard)) /\ i - Len(heard) \in 1..Len(chunk)
        BY <1>1, <3>1, <3>2
      <4>2. cut <= i - Len(heard)
        BY <1>1, <2>1, <3>2, <4>1
      <4> QED BY <1>1, <2>1, <2>2, <4>1, <4>2
    <3> QED BY <1>1, <2>2, <3>2 DEF StartInv
  <2>6. WriteBlocks(pcm) /\ start' \in Nat /\ start' # 0
    BY <1>1, <1>6, <2>2 DEF cut
  <2> QED BY <1>5, <2>3, <2>4, <2>5, <2>6
<1>7. CASE start # 0 /\ WriteBlocks(leftover \o chunk) /\ UNCHANGED start
  <2> DEFINE pcm == leftover \o chunk
  <2>1. pcm \in Seq(Level)
    BY <1>2, ConcatProperties
  <2>2. start \in 1..Len(heard)
    BY <1>1, <1>7 DEF StartInv, TypeInv
  <2>3. written \o pcm = Wanted'
    <3>1. (written \o leftover) \o chunk = written \o pcm
      <4>1. written \in Seq(Level) /\ leftover \in Seq(Level) /\ chunk \in Seq(Level)
        BY <1>2
      <4>2. (written \o leftover) \o chunk = written \o (leftover \o chunk)
        BY ONLY <4>1, ConcatAssociative
      <4> QED BY <4>2
    <3>2. SubSeq(heard \o chunk, start, Len(heard \o chunk)) = Wanted \o chunk
      BY <1>2, <1>7, <2>2, SuffixGrows DEF Wanted
    <3>3. Wanted' = SubSeq(heard', start', Len(heard'))
      BY <1>7 DEF Wanted
    <3> QED BY <1>1, <1>3, <1>7, <3>1, <3>2, <3>3
  <2>4. StartInv'
    <3>1. start \in 1..Len(heard) /\ start' = start
      BY <1>7, <2>2
    <3>2. ASSUME NEW i \in 1..Len(heard'), heard'[i] # "quiet" PROVE start' <= i
      <4>1. CASE i <= Len(heard)
        BY <1>1, <3>1, <3>2, <4>1 DEF StartInv
      <4>2. CASE ~(i <= Len(heard))
        BY <1>1, <3>1, <3>2, <4>2
      <4> QED BY <4>1, <4>2
    <3> QED BY <1>1, <1>7, <3>1, <3>2 DEF StartInv
  <2>5. WriteBlocks(pcm) /\ start' \in Nat /\ start' # 0
    BY <1>7, <2>2
  <2> HIDE DEF pcm
  <2> QED BY <1>5, <2>1, <2>3, <2>4, <2>5
<1> QED BY <1>4, <1>6, <1>7 DEF Push

LEMMA FinishInv == ASSUME IInv, Finish PROVE IInv'
<1> USE DEF IInv
<1>1. /\ status = "streaming" /\ leftover' = <<>> /\ UNCHANGED <<heard, start>>
      /\ written \in Seq(Level) /\ leftover \in Seq(Level) /\ heard \in Seq(Level)
      /\ written \o leftover = Wanted /\ audioSamples = Len(written)
      /\ tail = LastOf(written, TailCap)
      /\ Len(written) \in Nat /\ Len(leftover) \in Nat /\ Len(leftover) < Blocksize
      /\ Blocksize \in Nat \ {0} /\ TailCap \in Nat
  BY PcmAssumption, LenProperties DEF Finish, TypeInv, BlockInv, FlowInv, TailInv
<1>2. Wanted' = Wanted
  BY <1>1 DEF Wanted
<1>3. Wanted \in Seq(Level) /\ Len(Wanted) = Len(written) + Len(leftover)
  BY <1>1, ConcatProperties
<1>4. leftover' \in Seq(Level) /\ Len(leftover') = 0
  BY <1>1, EmptySeq
<1>5. CASE /\ leftover = <<>> /\ status' = "finished"
           /\ UNCHANGED <<written, audioSamples, tail>>
  <2>1. TypeInv'
    BY <1>1, <1>4, <1>5 DEF TypeInv
  <2>2. BlockInv'
    BY <1>1, <1>4, <1>5 DEF BlockInv
  <2>3. StartInv'
    BY <1>1, <1>5 DEF StartInv
  <2>4. written = Wanted \o Padding(0) /\ Len(Wanted) = Len(written)
    <3>1. Padding(0) = <<>>
      BY PaddingIsQuiet, EmptySeq
    <3>2. written = Wanted
      BY <1>1, <1>5, ConcatEmptySeq
    <3>3. Wanted \o <<>> = Wanted
      BY <1>3, ConcatEmptySeq
    <3> QED BY <3>1, <3>2, <3>3
  <2>5. FlowInv'
    <3>1. 0 \in 0..Blocksize - 1
      BY <1>1
    <3> QED BY <1>1, <1>2, <1>5, <2>4, <3>1 DEF FlowInv
  <2>6. TailInv'
    BY <1>1, <1>5 DEF TailInv
  <2>7. JudgeInv'
    BY <1>5 DEF JudgeInv
  <2> QED BY <2>1, <2>2, <2>3, <2>5, <2>6, <2>7
<1>6. ASSUME leftover # <<>> PROVE IInv'
  <2> DEFINE n == Blocksize - Len(leftover)
             block == leftover \o Padding(n)
  <2>1. /\ audioSamples' = audioSamples + Len(leftover)
        /\ tail' = Remembered(block)
        /\ \/ written' = written \o block /\ status' = "finished"
           \/ UNCHANGED written /\ status' = "failed"
    BY <1>6 DEF Finish
  <2>2. n \in 0..Blocksize - 1 /\ n \in Nat
    <3>1. Len(leftover) # 0
      BY <1>1, <1>6, EmptySeq
    <3> QED BY <1>1, <3>1
  <2>3. Padding(n) \in Seq(Level) /\ Len(Padding(n)) = n
    BY <2>2, PaddingIsQuiet
  <2>4. block \in Seq(Level) /\ Len(block) = Blocksize
    <3>1. block \in Seq(Level) /\ Len(block) = Len(leftover) + Len(Padding(n))
      BY <1>1, <2>3, ConcatProperties
    <3> HIDE DEF block
    <3> QED BY <1>1, <2>3, <3>1
  <2>5. written \o block = Wanted \o Padding(n)
    <3> DEFINE pad == Padding(n)
    <3>1. pad \in Seq(Level) /\ block = leftover \o pad
      BY <2>3
    <3> HIDE DEF pad, block, n
    <3>2. (written \o leftover) \o pad = written \o (leftover \o pad)
      <4>1. written \in Seq(Level) /\ leftover \in Seq(Level) /\ pad \in Seq(Level)
        BY <1>1, <3>1
      <4> QED BY <4>1, ConcatAssociative
    <3> QED BY <1>1, <3>1, <3>2 DEF pad
  <2> HIDE DEF block, n
  <2>6. /\ written \o block \in Seq(Level)
        /\ Len(written \o block) = Len(written) + Blocksize
    BY <1>1, <2>4, ConcatProperties
  <2>7. tail' = LastOf(written \o block, TailCap)
    BY <1>1, <2>1, <2>4, LastOfLastOf DEF Remembered
  <2>8. tail' \in Seq(Level) /\ Len(tail') <= TailCap
    <3> DEFINE all == written \o block
    <3>1. all \in Seq(Level) /\ Len(all) \in Nat
      BY <1>1, <2>6
    <3> HIDE DEF all
    <3>2. tail' = LastOf(all, TailCap)
      BY <2>7 DEF all
    <3>3. tail' \in Seq(Level) /\ Len(tail') = IF Len(all) > TailCap THEN TailCap ELSE Len(all)
      BY <1>1, <3>1, <3>2, LastOfProperties
    <3> QED BY <1>1, <3>1, <3>3
  <2>9. TypeInv'
    <3>1. written' \in Seq(Level) /\ audioSamples' \in Nat
      <4>1. audioSamples \in Nat
        BY DEF TypeInv
      <4>2. audioSamples' \in Nat
        BY <1>1, <2>1, <4>1
      <4>3. written' \in Seq(Level)
        BY <1>1, <2>1, <2>6, Zenon
      <4> QED BY <4>2, <4>3
    <3> QED BY <1>1, <1>4, <2>1, <2>8, <3>1 DEF TypeInv
  <2>10. BlockInv'
    <3>1. PICK k \in Nat : Len(written) = k * Blocksize
      BY DEF BlockInv
    <3>2. k * Blocksize + Blocksize = (k + 1) * Blocksize /\ k + 1 \in Nat
      BY <1>1
    <3>3. \E m \in Nat : Len(written') = m * Blocksize
      BY <2>1, <2>6, <3>1, <3>2
    <3>4. Len(leftover') < Blocksize
      BY <1>1, <1>4
    <3> QED BY <3>3, <3>4 DEF BlockInv
  <2>11. StartInv'
    BY <1>1, <1>6 DEF StartInv
  <2>12. FlowInv'
    BY <1>1, <1>2, <1>3, <2>1, <2>2, <2>5 DEF FlowInv, Ended
  <2>13. TailInv'
    BY <2>1, <2>7, <2>8 DEF TailInv, Ended
  <2>14. JudgeInv'
    BY <2>1 DEF JudgeInv
  <2> QED BY <2>9, <2>10, <2>11, <2>12, <2>13, <2>14
<1> QED BY <1>5, <1>6 DEF Finish

LEMMA NextInv == IInv /\ [Next]_vars => IInv'
<1> SUFFICES ASSUME IInv, [Next]_vars PROVE IInv'
  OBVIOUS
<1>1. ASSUME NEW chunk \in SeqOf(Level, MaxChunk), Push(chunk) PROVE IInv'
  <2>1. chunk \in Seq(Level)
    BY PcmAssumption DEF SeqOf
  <2> QED BY <1>1, <2>1, PushInv
<1>2. CASE Finish
  BY <1>2, FinishInv
\* The handlers that only change the status.
<1>3. ASSUME UNCHANGED <<heard, start, leftover, written, audioSamples, tail>>,
             \/ status' \in {"failed", "cancelled"}
             \/ status = "finished" /\ \E stop \in {"eos", "cap"} : Judge(stop)
             \/ UNCHANGED status
      PROVE  IInv'
  <2> USE DEF IInv
  <2>1. status' \in {"streaming", "finished", "failed", "cancelled",
                    "done", "truncated", "collapsed"}
    BY <1>3 DEF TypeInv, Judge
  <2>2. TypeInv' /\ BlockInv' /\ StartInv'
    BY <1>3, <2>1 DEF TypeInv, BlockInv, StartInv
  <2>3. Wanted' = Wanted /\ Degenerate' = Degenerate
    BY <1>3 DEF Wanted, Degenerate, TrailingNonspeech
  <2>4. status' = "streaming" => status = "streaming"
    BY <1>3 DEF Judge
  <2>5. Ended' => Ended
    BY <1>3 DEF Judge, Ended
  <2>6. FlowInv' /\ TailInv'
    BY <1>3, <2>3, <2>4, <2>5 DEF FlowInv, TailInv
  <2>7. JudgeInv'
    BY <1>3, <2>3 DEF JudgeInv, Judge
  <2> QED BY <2>2, <2>6, <2>7
<1>4. CASE PushFails \/ Drop \/ Over \/ UNCHANGED vars
  BY <1>3, <1>4 DEF PushFails, Drop, Over, vars
<1>5. ASSUME NEW stop \in {"eos", "cap"}, Judge(stop) PROVE IInv'
  BY <1>3, <1>5 DEF Judge
<1> QED BY <1>1, <1>2, <1>4, <1>5 DEF Next

LEMMA InvariantHolds == Spec => []IInv
BY InitInv, NextInv, PTL DEF Spec
-----------------------------------------------------------------------------
(* What the invariant gives.                                               *)

\* Every variable of the streamer has its type, the waiting block is never full,
\* what is on the wire is whole blocks, and the tail is bounded however long the
\* utterance runs (`PcmStreamer::push`, `finish` and `remember`).
THEOREM TypeCorrect == Spec => []TypeOK
<1>1. IInv => TypeOK
  <2> SUFFICES ASSUME IInv PROVE TypeOK
    OBVIOUS
  <2>1. PICK k \in Nat : Len(written) = k * Blocksize
    BY DEF IInv, BlockInv
  <2>2. Len(written) % Blocksize = 0
    BY <2>1, Multiple, PcmAssumption
  <2>3. start \in 0..Len(heard)
    BY LenProperties DEF IInv, TypeInv, StartInv
  <2> QED BY <2>2, <2>3 DEF IInv, TypeInv, BlockInv, TailInv, TypeOK
<1> QED BY <1>1, InvariantHolds, PTL

\* No sample is lost, doubled or reordered at a border between chunks or blocks,
\* whatever the chunks and the block size; before the output there was silence.
THEOREM NoSampleLost == Spec => []NothingLost
<1>1. IInv => NothingLost
  <2> SUFFICES ASSUME IInv PROVE NothingLost
    OBVIOUS
  <2>1. \A i \in 1..Len(heard) : heard[i] # "quiet" => start # 0 /\ start <= i
    BY DEF IInv, StartInv
  <2>2. status = "streaming" => audioSamples + Len(leftover) = Len(Wanted)
    <3>1. /\ written \in Seq(Level) /\ leftover \in Seq(Level)
          /\ Len(written \o leftover) = Len(written) + Len(leftover)
      BY ConcatProperties DEF IInv, TypeInv
    <3> QED BY <3>1 DEF IInv, FlowInv
  <2>3. Ended => audioSamples + Len(leftover) = Len(Wanted)
    <3> SUFFICES ASSUME Ended PROVE audioSamples + Len(leftover) = Len(Wanted)
      OBVIOUS
    <3>1. audioSamples = Len(Wanted) /\ audioSamples \in Nat /\ Len(leftover) = 0
      BY EmptySeq DEF IInv, TypeInv, FlowInv
    <3> QED BY <3>1
  <2> QED BY <2>1, <2>2, <2>3 DEF IInv, FlowInv, NothingLost
<1> QED BY <1>1, InvariantHolds, PTL

\* The non-speech that is found is less than one Measure short of what there is
\* behind the last loud sample, and never more.
LEMMA NonspeechIsGap ==
  ASSUME NEW s \in Seq(Level), NEW last \in 1..Len(s), s[last] = "loud",
         \A i \in 1..Len(s) : s[i] = "loud" => i <= last
  PROVE  /\ TrailingNonspeech(s) \in Nat
         /\ TrailingNonspeech(s) <= Len(s) - last
         /\ Len(s) - last < TrailingNonspeech(s) + Measure
<1> DEFINE loud == {i \in DOMAIN s : s[i] = "loud"}
           found == CHOOSE i \in loud : \A j \in loud : i >= j
           end == ((found - 1) \div Measure + 1) * Measure
<1>1. Len(s) \in Nat /\ DOMAIN s = 1..Len(s) /\ Measure \in Nat \ {0}
  BY PcmAssumption, LenProperties
<1>2. found = last
  <2>1. last \in loud /\ \A j \in loud : last >= j
    BY <1>1
  <2>2. found \in loud /\ \A j \in loud : found >= j
    BY <2>1
  <2>3. found \in 1..Len(s) /\ found >= last /\ last >= found
    BY <1>1, <2>1, <2>2
  <2> QED BY <1>1, <2>3
<1>3. end \in Nat /\ last <= end /\ end < last + Measure
  <2> DEFINE x == last - 1
             q == x \div Measure
  <2>1. x \in Nat
    BY <1>1
  <2>2. q \in Nat /\ q * Measure \in Nat /\ q * Measure <= x /\ x < q * Measure + Measure
    BY <1>1, <2>1, Quotient
  <2>3. end = (q + 1) * Measure
    BY <1>2
  <2> HIDE DEF q, end, found
  <2>4. (q + 1) * Measure = q * Measure + Measure
    BY <1>1, <2>2
  <2> QED BY <1>1, <2>2, <2>3, <2>4
<1>4. TrailingNonspeech(s) = IF end >= Len(s) THEN 0 ELSE Len(s) - end
  <2>1. loud # {}
    BY <1>1
  <2> QED BY <2>1 DEF TrailingNonspeech
<1> HIDE DEF end
<1> QED BY <1>1, <1>3, <1>4

LEMMA NonspeechIsAll ==
  ASSUME NEW s \in Seq(Level), \A i \in 1..Len(s) : s[i] # "loud"
  PROVE  TrailingNonspeech(s) = Len(s)
<1>1. DOMAIN s = 1..Len(s)
  BY LenProperties
<1> QED BY <1>1 DEF TrailingNonspeech

LEMMA LastLoud ==
  ASSUME NEW s \in Seq(Level), NEW k \in 1..Len(s), s[k] = "loud"
  PROVE  \E last \in 1..Len(s) :
           s[last] = "loud" /\ \A i \in 1..Len(s) : s[i] = "loud" => i <= last
<1> DEFINE loud == {i \in 1..Len(s) : s[i] = "loud"}
<1>1. Len(s) \in Nat /\ loud \in SUBSET (0..Len(s)) /\ loud # {}
  BY LenProperties
<1>2. PICK last \in loud : \A i \in loud : last >= i
  BY <1>1, Largest
<1> QED BY <1>1, <1>2

\* The verdict is sound: what is reported as done ends in less than MaxTrailing and
\* one Measure of non-speech, what is reported as collapsed in more than MaxTrailing
\* less one Measure, although only the last TailCap samples were looked at, in
\* blocks that do not line up with the output (`trailing_nonspeech_seconds`).
THEOREM VerdictsAreSound == Spec => []VerdictIsSound
<1>1. IInv => VerdictIsSound
  <2> SUFFICES ASSUME IInv, status \in {"done", "collapsed"} PROVE VerdictIsSound
    BY DEF VerdictIsSound
  <2> DEFINE N == Len(written)
             T == Len(tail)
             all == TrailingNonspeech(written)
             seen == TrailingNonspeech(tail)
  <2>1. /\ Measure \in Nat \ {0} /\ MaxTrailing \in Nat
        /\ TailCap \in Nat /\ TailCap >= MaxTrailing + 2 * Measure
    BY PcmAssumption
  <2>2. /\ written \in Seq(Level) /\ tail \in Seq(Level) /\ tail = LastOf(written, TailCap)
        /\ N \in Nat
    BY LenProperties DEF IInv, TypeInv, TailInv, Ended
  <2>3. /\ T = IF N > TailCap THEN TailCap ELSE N
        /\ \A i \in 1..T : tail[i] = written[N - T + i]
    BY <2>1, <2>2, LastOfProperties
  <2>4. T \in Nat /\ T <= N /\ (T < N => T = TailCap)
    BY <2>1, <2>2, <2>3
  <2>5. seen > MaxTrailing <=> status = "collapsed"
    BY DEF IInv, JudgeInv, Degenerate
  <2> HIDE DEF N, T, all, seen
  \* The last loud sample is among those that are remembered.
  <2>6. ASSUME NEW k \in 1..T, tail[k] = "loud"
        PROVE  \E last \in 1..T :
                 /\ seen \in Nat /\ seen <= T - last /\ T - last < seen + Measure
                 /\ all \in Nat /\ all <= T - last /\ T - last < all + Measure
    <3>1. PICK last \in 1..T :
            tail[last] = "loud" /\ \A i \in 1..T : tail[i] = "loud" => i <= last
      BY <2>2, <2>6, LastLoud DEF T
    <3>2. seen \in Nat /\ seen <= T - last /\ T - last < seen + Measure
      BY <2>2, <3>1, NonspeechIsGap DEF T, seen
    <3> DEFINE there == N - T + last
    <3>3. there \in 1..N /\ written[there] = "loud" /\ N - there = T - last
      BY <2>2, <2>3, <2>4, <3>1
    <3>4. ASSUME NEW i \in 1..N, written[i] = "loud" PROVE i <= there
      <4>1. CASE i <= N - T
        BY <2>2, <2>4, <3>1, <4>1
      <4>2. CASE ~(i <= N - T)
        <5>1. i - (N - T) \in 1..T /\ N - T + (i - (N - T)) = i
          BY <2>2, <2>4, <4>2
        <5>2. tail[i - (N - T)] = "loud"
          BY <2>3, <3>4, <5>1
        <5> QED BY <2>2, <2>4, <3>1, <5>1, <5>2
      <4> QED BY <4>1, <4>2
    <3> HIDE DEF there
    <3>5. all \in Nat /\ all <= N - there /\ N - there < all + Measure
      BY <2>2, <3>3, <3>4, NonspeechIsGap DEF N, all
    <3> QED BY <3>2, <3>3, <3>5
  \* Nothing of what is remembered is loud.
  <2>7. ASSUME \A k \in 1..T : tail[k] # "loud"
        PROVE  /\ seen = T /\ all \in Nat /\ T < all + Measure
               /\ T = N => all = T
    <3>1. seen = T
      BY <2>2, <2>7, NonspeechIsAll DEF T, seen
    <3>2. CASE \A i \in 1..N : written[i] # "loud"
      <4>1. all = N
        BY <2>2, <3>2, NonspeechIsAll DEF N, all
      <4> QED BY <2>1, <2>2, <2>4, <3>1, <4>1
    <3>3. ASSUME NEW k \in 1..N, written[k] = "loud"
          PROVE  all \in Nat /\ T < all + Measure /\ T # N
      <4>1. PICK last \in 1..N :
              written[last] = "loud" /\ \A i \in 1..N : written[i] = "loud" => i <= last
        BY <2>2, <3>3, LastLoud DEF N
      <4>2. all \in Nat /\ all <= N - last /\ N - last < all + Measure
        BY <2>2, <4>1, NonspeechIsGap DEF N, all
      <4>3. last <= N - T
        <5> SUFFICES ASSUME ~(last <= N - T) PROVE FALSE
          OBVIOUS
        <5>1. last - (N - T) \in 1..T /\ N - T + (last - (N - T)) = last
          BY <2>2, <2>4
        <5> QED BY <2>3, <2>7, <4>1, <5>1
      <4> QED BY <2>1, <2>2, <2>4, <4>2, <4>3
    <3> QED BY <3>1, <3>2, <3>3
  <2>8. /\ status = "done" => all < MaxTrailing + Measure
        /\ status = "collapsed" => all + Measure > MaxTrailing
    <3>1. CASE \E k \in 1..T : tail[k] = "loud"
      <4>1. PICK last \in 1..T :
              /\ seen \in Nat /\ seen <= T - last /\ T - last < seen + Measure
              /\ all \in Nat /\ all <= T - last /\ T - last < all + Measure
        BY <2>6, <3>1
      <4> QED BY <2>1, <2>4, <2>5, <4>1
    <3>2. CASE ~\E k \in 1..T : tail[k] = "loud"
      <4>1. /\ seen = T /\ all \in Nat /\ T < all + Measure
            /\ T = N => all = T
        BY <2>7, <3>2
      <4>2. status = "done" => T = N /\ T <= MaxTrailing
        BY <2>1, <2>2, <2>4, <2>5, <4>1
      <4> QED BY <2>1, <2>4, <2>5, <4>1, <4>2
    <3> QED BY <3>1, <3>2
  <2> QED BY <2>8 DEF VerdictIsSound, all
<1> QED BY <1>1, InvariantHolds, PTL
-----------------------------------------------------------------------------
(* The chunker: what pieces say of a text.                                 *)

Piece == [from : Nat, to : Nat, comma : BOOLEAN]

\* The pieces say what is between two places of a text: all that is no space, in
\* order and once.
SaysAll(p, text, a, b) ==
  /\ \A k \in 1..Len(p) : a <= p[k].from /\ p[k].from <= p[k].to /\ p[k].to <= b
  /\ \A j, k \in 1..Len(p) : j < k => p[j].to < p[k].from
  /\ \A i \in a..b :
       text[i] # " " => \E k \in 1..Len(p) : p[k].from <= i /\ i <= p[k].to

\* So they do, unless the chunker panics, and no piece is longer than max.
SaysWithin(p, text, a, b, max) ==
  /\ p \in Seq(Piece)
  /\ \A k \in 1..Len(p) : p[k].to - p[k].from + 1 <= max
  /\ (\A k \in 1..Len(p) : p[k] # Panic) => SaysAll(p, text, a, b)

\* There is nothing to say, or all of it is in one piece.
Blank(text, a, b) == \A i \in a..b : text[i] = " "
InPiece(p, text, a, b) ==
  /\ a <= p.from /\ p.from <= p.to /\ p.to <= b
  /\ \A i \in a..b : text[i] # " " => p.from <= i /\ i <= p.to

\* Nothing says nothing, and
LEMMA NothingSays ==
  ASSUME NEW text, NEW a \in Nat, NEW b \in Nat, NEW max \in Nat,
         Blank(text, a, b)
  PROVE  SaysWithin(<<>>, text, a, b, max)
<1> DEFINE s == <<>>
<1>1. s \in Seq(Piece) /\ Len(s) = 0
  BY EmptySeq
<1> HIDE DEF s
<1>2. 1..Len(s) = {}
  BY <1>1
<1>3. SaysAll(s, text, a, b)
  BY <1>2 DEF SaysAll, Blank
<1> QED BY <1>1, <1>2, <1>3 DEF SaysWithin, s

\* a piece says what is in it.
LEMMA PieceSays ==
  ASSUME NEW text, NEW a \in Nat, NEW b \in Nat, NEW max \in Nat, NEW p \in Piece,
         p.to - p.from + 1 <= max,
         p = Panic \/ InPiece(p, text, a, b)
  PROVE  SaysWithin(<<p>>, text, a, b, max)
<1> DEFINE s == <<p>>
<1>1. s \in Seq(Piece) /\ Len(s) = 1 /\ s[1] = p
  <2>1. s = Append(<<>>, p) /\ <<>> \in Seq(Piece) /\ Len(<<>>) = 0
    BY EmptySeq
  <2> QED BY <2>1, AppendProperties
<1> HIDE DEF s
<1>0. 1..Len(s) = 1..1
  BY <1>1
<1>2. \A k \in 1..Len(s) : k = 1
  BY <1>0
<1>3. 1 \in 1..Len(s)
  BY <1>0
<1>4. \A k \in 1..Len(s) : s[k].to - s[k].from + 1 <= max
  BY <1>1, <1>2
<1>5. (\A k \in 1..Len(s) : s[k] # Panic) => SaysAll(s, text, a, b)
  <2> SUFFICES ASSUME \A k \in 1..Len(s) : s[k] # Panic PROVE SaysAll(s, text, a, b)
    OBVIOUS
  <2>1. p # Panic
    BY <1>1, <1>3
  <2>2. \A k \in 1..Len(s) : a <= s[k].from /\ s[k].from <= s[k].to /\ s[k].to <= b
    BY <1>1, <1>2, <2>1 DEF InPiece
  <2>3. \A j, k \in 1..Len(s) : j < k => s[j].to < s[k].from
    <3> SUFFICES ASSUME NEW j \in 1..Len(s), NEW k \in 1..Len(s), j < k PROVE FALSE
      OBVIOUS
    <3>1. j = 1 /\ k = 1
      BY <1>2
    <3> QED BY <3>1
  <2>4. \A i \in a..b : text[i] # " " => s[1].from <= i /\ i <= s[1].to
    BY <1>1, <2>1 DEF InPiece
  <2> QED BY <1>3, <2>2, <2>3, <2>4 DEF SaysAll
<1> QED BY <1>1, <1>4, <1>5 DEF SaysWithin, s

\* What says the first part and what says the rest say the whole.
LEMMA SaysJoined ==
  ASSUME NEW text, NEW a \in Nat, NEW b \in Nat, NEW c \in Nat, NEW max \in Nat, c <= b + 1, a < c,
         NEW p, SaysWithin(p, text, a, c - 1, max), NEW q, SaysWithin(q, text, c, b, max)
  PROVE  SaysWithin(p \o q, text, a, b, max)
<1> DEFINE r == p \o q
           P == Len(p)
           Q == Len(q)
<1>1. /\ p \in Seq(Piece) /\ q \in Seq(Piece) /\ P \in Nat /\ Q \in Nat
  BY LenProperties DEF SaysWithin
<1>2. r \in Seq(Piece) /\ Len(r) = P + Q
  BY <1>1, ConcatProperties
<1>3. \A k \in 1..P : r[k] = p[k]
  BY <1>1, ConcatProperties
<1>4. \A k \in 1..Q : r[P + k] = q[k]
  <2> SUFFICES ASSUME NEW k \in 1..Q PROVE r[P + k] = q[k]
    OBVIOUS
  <2>1. P + k \in 1..P + Q /\ ~(P + k <= P) /\ (P + k) - P = k
    BY <1>1
  <2> QED BY <1>1, <2>1, ConcatProperties
<1> HIDE DEF r
<1>5. \A k \in 1..Len(r) : k \in 1..P \/ \E j \in 1..Q : k = P + j
  <2> SUFFICES ASSUME NEW k \in 1..Len(r), k \notin 1..P PROVE \E j \in 1..Q : k = P + j
    OBVIOUS
  <2>1. k - P \in 1..Q /\ k = P + (k - P)
    BY <1>1, <1>2
  <2> QED BY <2>1
<1>6. \A k \in 1..P : p[k] \in Piece
  BY <1>1, ElementOfSeq
<1>7. \A k \in 1..Q : q[k] \in Piece
  BY <1>1, ElementOfSeq
<1>8. \A k \in 1..Len(r) : r[k].to - r[k].from + 1 <= max
  <2> SUFFICES ASSUME NEW k \in 1..Len(r) PROVE r[k].to - r[k].from + 1 <= max
    OBVIOUS
  <2>1. CASE k \in 1..P
    BY <1>3, <2>1 DEF SaysWithin
  <2>2. CASE \E j \in 1..Q : k = P + j
    BY <1>4, <2>2 DEF SaysWithin
  <2> QED BY <1>5, <2>1, <2>2
<1>9. ASSUME \A k \in 1..Len(r) : r[k] # Panic PROVE SaysAll(r, text, a, b)
  <2>1. (\A k \in 1..P : k \in 1..Len(r)) /\ \A k \in 1..Q : P + k \in 1..Len(r)
    BY <1>1, <1>2
  <2>2. SaysAll(p, text, a, c - 1)
    <3>1. \A k \in 1..P : p[k] # Panic
      BY <1>3, <1>9, <2>1
    <3> QED BY <3>1 DEF SaysWithin
  <2>3. SaysAll(q, text, c, b)
    <3>1. \A k \in 1..Q : q[k] # Panic
      BY <1>4, <1>9, <2>1
    <3> QED BY <3>1 DEF SaysWithin
  <2>4. \A k \in 1..P : a <= p[k].from /\ p[k].from <= p[k].to /\ p[k].to <= c - 1
    BY <2>2 DEF SaysAll
  <2>5. \A k \in 1..Q : c <= q[k].from /\ q[k].from <= q[k].to /\ q[k].to <= b
    BY <2>3 DEF SaysAll
  <2>6. \A k \in 1..Len(r) : a <= r[k].from /\ r[k].from <= r[k].to /\ r[k].to <= b
    <3> SUFFICES ASSUME NEW k \in 1..Len(r)
                 PROVE  a <= r[k].from /\ r[k].from <= r[k].to /\ r[k].to <= b
      OBVIOUS
    <3>1. CASE k \in 1..P
      <4>1. r[k] = p[k] /\ p[k].from \in Nat /\ p[k].to \in Nat
        BY <1>3, <1>6, <3>1 DEF Piece
      <4>2. a <= p[k].from /\ p[k].from <= p[k].to /\ p[k].to <= c - 1
        BY <2>4, <3>1
      <4> QED BY <4>1, <4>2
    <3>2. CASE \E j \in 1..Q : k = P + j
      <4>1. PICK j \in 1..Q : k = P + j
        BY <3>2
      <4>2. r[k] = q[j] /\ q[j].from \in Nat /\ q[j].to \in Nat
        BY <1>4, <1>7, <4>1 DEF Piece
      <4>3. c <= q[j].from /\ q[j].from <= q[j].to /\ q[j].to <= b
        BY <2>5
      <4> QED BY <4>2, <4>3
    <3> QED BY <1>5, <3>1, <3>2
  <2>7. \A j, k \in 1..Len(r) : j < k => r[j].to < r[k].from
    <3> SUFFICES ASSUME NEW j \in 1..Len(r), NEW k \in 1..Len(r), j < k PROVE r[j].to < r[k].from
      OBVIOUS
    <3>1. CASE k \in 1..P
      <4>1. j \in 1..P
        BY <3>1
      <4>2. p[j].to < p[k].from
        BY <2>2, <3>1, <4>1 DEF SaysAll
      <4> QED BY <1>3, <3>1, <4>1, <4>2
    <3>2. CASE \E l \in 1..Q : k = P + l
      <4>1. PICK l \in 1..Q : k = P + l
        BY <3>2
      <4>2. CASE j \in 1..P
        <5>1. r[j] = p[j] /\ p[j].to \in Nat /\ p[j].to <= c - 1
          BY <1>3, <1>6, <2>4, <4>2 DEF Piece
        <5>2. r[k] = q[l] /\ q[l].from \in Nat /\ c <= q[l].from
          BY <1>4, <1>7, <2>5, <4>1 DEF Piece
        <5>3. p[j].to < q[l].from
          BY ONLY <5>1, <5>2, c \in Nat
        <5> QED BY ONLY <5>1, <5>2, <5>3
      <4>3. CASE \E m \in 1..Q : j = P + m
        <5>1. PICK m \in 1..Q : j = P + m
          BY <4>3
        <5>2. m < l
          BY <1>1, <4>1, <5>1
        <5>3. q[m].to < q[l].from
          BY <2>3, <5>2 DEF SaysAll
        <5> QED BY <1>4, <4>1, <5>1, <5>3
      <4> QED BY <1>5, <4>2, <4>3
    <3> QED BY <1>5, <3>1, <3>2
  <2>8. ASSUME NEW i \in a..b, text[i] # " "
        PROVE  \E k \in 1..Len(r) : r[k].from <= i /\ i <= r[k].to
    <3>1. CASE i < c
      <4>1. i \in a..c - 1
        BY <3>1
      <4>2. PICK k \in 1..P : p[k].from <= i /\ i <= p[k].to
        BY <2>2, <2>8, <4>1 DEF SaysAll
      <4> QED BY <1>3, <2>1, <4>2
    <3>2. CASE ~(i < c)
      <4>1. i \in c..b
        BY <3>2
      <4>2. PICK k \in 1..Q : q[k].from <= i /\ i <= q[k].to
        BY <2>3, <2>8, <4>1 DEF SaysAll
      <4> QED BY <1>4, <2>1, <4>2
    <3> QED BY <3>1, <3>2
  <2> QED BY <2>6, <2>7, <2>8 DEF SaysAll
<1> QED BY <1>2, <1>8, <1>9 DEF SaysWithin, r

-----------------------------------------------------------------------------
(* Its loops.                                                              *)

\* A loop from a place on.
IsLoop(g, c, b, out, next) ==
  g = [i \in c..b + 1 |-> IF i = b + 1 THEN <<>> ELSE out[i] \o g[next[i]]]

\* It goes on.
Forward(next, a, b) == \A i \in a..b : next[i] \in i + 1..b + 1

\* As long as it does, there is what comes out of it.
LEMMA LoopsAre ==
  ASSUME NEW a \in Nat, NEW b \in Nat, a <= b, NEW out, NEW next, Forward(next, a, b)
  PROVE  \E g : IsLoop(g, a, b, out, next)
<1> DEFINE Is(c, g) == IsLoop(g, c, b, out, next)
           T == {c \in a..b + 1 : ~\E g : Is(c, g)}
<1>1. SUFFICES ASSUME T # {} PROVE FALSE
  <2>1. a \in a..b + 1
    OBVIOUS
  <2> QED BY <1>1, <2>1
<1>2. PICK c \in T : \A d \in T : c >= d
  <2>1. T \in SUBSET (0..b + 1) /\ b + 1 \in Nat
    OBVIOUS
  <2> HIDE DEF T
  <2> QED BY <1>1, <2>1, Largest
<1>3. c \in a..b + 1 /\ ~\E g : Is(c, g)
  OBVIOUS
<1>4. CASE c = b + 1
  <2> DEFINE g == [i \in c..b + 1 |-> <<>>]
  <2>1. g = [i \in c..b + 1 |-> IF i = b + 1 THEN <<>> ELSE out[i] \o g[next[i]]]
    <3>1. \A i \in c..b + 1 : i = b + 1
      BY <1>4
    <3> QED BY <3>1
  <2>2. Is(c, g)
    BY <2>1 DEF IsLoop
  <2> HIDE DEF g
  <2> QED BY <1>3, <2>2
<1>5. CASE c # b + 1
  <2>1. c \in a..b /\ c + 1 \in a..b + 1
    BY <1>3, <1>5
  <2>2. c + 1 \notin T
    BY <1>2, <2>1
  <2>3. PICK h : Is(c + 1, h)
    BY <2>1, <2>2
  <2>4. h = [i \in c + 1..b + 1 |-> IF i = b + 1 THEN <<>> ELSE out[i] \o h[next[i]]]
    BY <2>3 DEF IsLoop
  <2> HIDE DEF Is, T
  <2> DEFINE g == [i \in c..b + 1 |-> IF i = c THEN out[c] \o h[next[c]] ELSE h[i]]
  <2>5. \A i \in c + 1..b + 1 : g[i] = h[i]
    BY <2>1
  <2>6. ASSUME NEW i \in c..b + 1
        PROVE  g[i] = IF i = b + 1 THEN <<>> ELSE out[i] \o g[next[i]]
    <3>1. CASE i = c
      <4>1. next[c] \in c + 1..b + 1
        BY <2>1 DEF Forward
      <4>2. g[next[c]] = h[next[c]]
        BY <2>5, <4>1
      <4>3. g[c] = out[c] \o h[next[c]]
        <5>1. c \in c..b + 1
          BY <2>1
        <5> QED BY <5>1
      <4> QED BY <1>5, <3>1, <4>2, <4>3
    <3>2. CASE i # c
      <4>1. i \in c + 1..b + 1
        BY <2>1, <3>2
      <4>2. g[i] = h[i] /\ h[i] = IF i = b + 1 THEN <<>> ELSE out[i] \o h[next[i]]
        BY <2>4, <2>5, <4>1
      <4>3. ASSUME i # b + 1 PROVE g[next[i]] = h[next[i]]
        <5>1. i \in a..b
          BY <2>1, <4>1, <4>3
        <5>2. next[i] \in i + 1..b + 1
          BY <5>1 DEF Forward
        <5>3. next[i] \in c + 1..b + 1
          BY <2>1, <4>1, <5>2
        <5> QED BY <2>5, <5>3
      <4> QED BY <4>2, <4>3
    <3> QED BY <3>1, <3>2
  <2>7. g = [i \in c..b + 1 |-> IF i = b + 1 THEN <<>> ELSE out[i] \o g[next[i]]]
    <3>1. g = [i \in c..b + 1 |-> g[i]]
      OBVIOUS
    <3> HIDE DEF g
    <3> QED BY <2>6, <3>1
  <2>8. IsLoop(g, c, b, out, next)
    BY <2>7 DEF IsLoop
  <2> HIDE DEF g
  <2> QED BY <1>3, <2>8 DEF Is
<1> QED BY <1>4, <1>5

\* What comes out: what does at a place and at the places behind it.
Gives(x, a, b, out, next) ==
  \E g : /\ x = g[a] /\ g[b + 1] = <<>>
         /\ \A i \in a..b : g[i] = out[i] \o g[next[i]]

\* A loop that goes on gives that,
LEMMA LoopIs ==
  ASSUME NEW a \in Nat, NEW b \in Nat, a <= b, NEW span, span.from = a, span.to = b,
         NEW out, NEW next, Forward(next, a, b)
  PROVE  Gives(Loop(span, out, next), a, b, out, next)
<1> DEFINE g == CHOOSE g : IsLoop(g, a, b, out, next)
<1>1. IsLoop(g, a, b, out, next)
  BY LoopsAre
<1>2. Loop(span, out, next) = g[a]
  BY DEF Loop, IsLoop
<1> HIDE DEF g
<1>3. g = [i \in a..b + 1 |-> IF i = b + 1 THEN <<>> ELSE out[i] \o g[next[i]]]
  BY <1>1 DEF IsLoop
<1>4. g[b + 1] = <<>>
  BY <1>3
<1>5. \A i \in a..b : g[i] = out[i] \o g[next[i]]
  <2> SUFFICES ASSUME NEW i \in a..b PROVE g[i] = out[i] \o g[next[i]]
    OBVIOUS
  <2>1. i \in a..b + 1 /\ i # b + 1
    OBVIOUS
  <2> QED BY <1>3, <2>1
<1> QED BY <1>2, <1>4, <1>5 DEF Gives

\* At each place where the loop can stand it says what comes before the next one.
Stands(G, text, b, max, out, next) ==
  \A i \in G : /\ next[i] \in i + 1..b + 1 /\ (next[i] \in G \/ next[i] = b + 1)
               /\ SaysWithin(out[i], text, i, next[i] - 1, max)

\* Then the loop says all.
LEMMA LoopSays ==
  ASSUME NEW text, NEW max \in Nat, NEW a \in Nat, NEW b \in Nat, a <= b,
         NEW span, span.from = a, span.to = b, NEW out, NEW next,
         Forward(next, a, b), NEW G \in SUBSET (a..b), a \in G, Stands(G, text, b, max, out, next)
  PROVE  SaysWithin(Loop(span, out, next), text, a, b, max)
<1>1. PICK g : /\ Loop(span, out, next) = g[a] /\ g[b + 1] = <<>>
               /\ \A i \in a..b : g[i] = out[i] \o g[next[i]]
  <2>1. Gives(Loop(span, out, next), a, b, out, next)
    BY LoopIs
  <2> QED BY <2>1 DEF Gives
<1> DEFINE T == {i \in G : ~SaysWithin(g[i], text, i, b, max)}
<1>2. T = {}
  <2>1. SUFFICES ASSUME T # {} PROVE FALSE
    OBVIOUS
  <2>2. PICK c \in T : \A d \in T : c >= d
    <3>1. T \subseteq G
      OBVIOUS
    <3>2. G \subseteq 0..b
      OBVIOUS
    <3> HIDE DEF T
    <3>3. T \in SUBSET (0..b)
      BY <3>1, <3>2
    <3> QED BY <2>1, <3>3, Largest
  <2>3. c \in G /\ c \in a..b /\ c \in Nat
    OBVIOUS
  <2> DEFINE n == next[c]
  <2>4. n \in c + 1..b + 1 /\ (n \in G \/ n = b + 1) /\ SaysWithin(out[c], text, c, n - 1, max)
    BY <2>3 DEF Stands
  <2>5. SaysWithin(g[n], text, n, b, max)
    <3>1. CASE n = b + 1
      <4>1. Blank(text, b + 1, b)
        <5>1. b + 1..b = {}
          OBVIOUS
        <5> QED BY <5>1 DEF Blank
      <4>2. SaysWithin(<<>>, text, b + 1, b, max)
        <5>1. b + 1 \in Nat
          OBVIOUS
        <5> QED BY <4>1, <5>1, NothingSays
      <4> QED BY <1>1, <3>1, <4>2
    <3>2. CASE n # b + 1
      <4>1. n \in G /\ ~(c >= n)
        BY <2>3, <2>4, <3>2
      <4>2. n \notin T
        BY <2>2, <4>1
      <4> QED BY <4>1, <4>2
    <3> QED BY <3>1, <3>2
  <2>6. g[c] = out[c] \o g[n]
    BY <1>1, <2>3
  <2> HIDE DEF n
  <2>7. n \in Nat /\ n <= b + 1 /\ c < n
    BY <2>3, <2>4
  <2>8. SaysWithin(out[c] \o g[n], text, c, b, max)
    BY <2>3, <2>4, <2>5, <2>7, SaysJoined
  <2> QED BY <2>6, <2>8
<1> QED BY <1>1, <1>2

-----------------------------------------------------------------------------
(* Its boundaries.                                                         *)

\* The least and the greatest of some numbers.
LEMMA MinIs ==
  ASSUME NEW T \in SUBSET Nat, T # {}
  PROVE  Min(T) \in T /\ \A y \in T : Min(T) <= y
BY Smallest DEF Min

LEMMA MaxIs ==
  ASSUME NEW n \in Nat, NEW T \in SUBSET (0..n), T # {}
  PROVE  Max(T) \in T /\ \A y \in T : Max(T) >= y
BY Largest DEF Max

\* What is left of a span without the spaces around it.
Voiced(text, i) == text[i] # " "
Trimmed(r, text, a, b) ==
  /\ a <= r.from /\ r.from <= r.to /\ r.to <= b /\ r.from \in Nat /\ r.to \in Nat
  /\ Voiced(text, r.from) /\ Voiced(text, r.to)
  /\ \A i \in a..b : Voiced(text, i) => r.from <= i /\ i <= r.to

\* Trimming leaves that of a span in which there is something to say.
LEMMA TrimIs ==
  ASSUME NEW text, NEW a \in Nat \ {0}, NEW b \in Nat, NEW span, span.from = a, span.to = b
  PROVE  \/ /\ Blank(text, a, b)
            /\ Trim(text, span).from = a /\ Trim(text, span).to = a - 1
         \/ Trimmed(Trim(text, span), text, a, b)
<1> DEFINE said == {i \in a..b : text[i] # " "}
<1>1. CASE said = {}
  <2>1. Blank(text, a, b)
    BY <1>1 DEF Blank
  <2>2. Trim(text, span) = Span(a, a - 1)
    BY <1>1 DEF Trim
  <2> QED BY <2>1, <2>2 DEF Span
<1>2. CASE said # {}
  <2> DEFINE l == Min(said)
             r == Max(said)
  <2>1. Trim(text, span) = Span(l, r)
    BY <1>2 DEF Trim
  <2>0. said \subseteq a..b
    OBVIOUS
  <2> HIDE DEF said
  <2>2. said \in SUBSET Nat /\ said \in SUBSET (0..b)
    BY <2>0
  <2>3. l \in said /\ \A y \in said : l <= y
    BY <1>2, <2>2, MinIs
  <2>4. r \in said /\ \A y \in said : r >= y
    BY <1>2, <2>2, MaxIs
  <2> HIDE DEF l, r
  <2>5. \A i \in a..b : Voiced(text, i) <=> i \in said
    BY DEF said, Voiced
  <2>6. l \in a..b /\ r \in a..b /\ Voiced(text, l) /\ Voiced(text, r) /\ l <= r
    <3>1. l \in a..b /\ r \in a..b
      BY <2>3, <2>4 DEF said
    <3> QED BY <2>3, <2>4, <2>5, <3>1
  <2>7. \A i \in a..b : Voiced(text, i) => l <= i /\ i <= r
    <3> SUFFICES ASSUME NEW i \in a..b, Voiced(text, i) PROVE l <= i /\ i <= r
      OBVIOUS
    <3>1. i \in said
      BY <2>5
    <3>2. l <= i /\ r >= i
      BY <2>3, <2>4, <3>1
    <3> QED BY <2>6, <3>2
  <2>8. Span(l, r).from = l /\ Span(l, r).to = r
    BY DEF Span
  <2>9. Trimmed(Span(l, r), text, a, b)
    BY <2>6, <2>7, <2>8 DEF Trimmed
  <2> QED BY <2>1, <2>9
<1> QED BY <1>1, <1>2

\* A boundary is among the bytes that are searched.
LEMMA LastAmongIs ==
  ASSUME NEW text, NEW from \in Nat, NEW end \in Nat, from <= end, NEW bytes
  PROVE  LastAmong(text, from, end, bytes) \in from..end
<1> DEFINE found == {i \in from..end : text[i] \in bytes}
<1>1. CASE found = {}
  BY <1>1 DEF LastAmong
<1>2. CASE found # {}
  <2>1. found \in SUBSET (0..end) /\ found \subseteq from..end
    OBVIOUS
  <2>2. LastAmong(text, from, end, bytes) = Max(found)
    BY <1>2 DEF LastAmong
  <2> HIDE DEF found
  <2>3. Max(found) \in found
    BY <1>2, <2>1, MaxIs
  <2> QED BY <2>1, <2>2, <2>3
<1> QED BY <1>1, <1>2

\* Of both kinds.
LEMMA BoundariesAre ==
  ASSUME NEW text, NEW from \in Nat, NEW end \in Nat, from <= end
  PROVE  /\ FindClauseBoundary(text, from, end) \in from..end
         /\ FindWordBoundary(text, from, end) \in from..end
BY LastAmongIs DEF FindClauseBoundary, FindWordBoundary

\* And a sentence ends where it begins or behind.
LEMMA SentenceEnds ==
  ASSUME NEW text, NEW from \in Nat, NEW to \in Nat, from <= to
  PROVE  SentenceEnd(text, from, to) \in from..to
<1> DEFINE ends == {i \in from..to : text[i] = "."}
<1>1. CASE ends = {}
  BY <1>1 DEF SentenceEnd
<1>2. CASE ends # {}
  <2>1. ends \in SUBSET Nat /\ ends \subseteq from..to
    OBVIOUS
  <2>2. SentenceEnd(text, from, to) = Min(ends)
    BY <1>2 DEF SentenceEnd
  <2> HIDE DEF ends
  <2>3. Min(ends) \in ends
    BY <1>2, <2>1, MinIs
  <2> QED BY <2>1, <2>2, <2>3
<1> QED BY <1>1, <1>2

\* What is trimmed off on either side need not be said,
LEMMA SaysMore ==
  ASSUME NEW text, NEW a \in Nat, NEW b \in Nat, NEW c \in Nat, NEW d \in Nat, NEW max \in Nat,
         a <= c, d <= b, \A i \in a..b : Voiced(text, i) => c <= i /\ i <= d,
         NEW p, SaysWithin(p, text, c, d, max)
  PROVE  SaysWithin(p, text, a, b, max)
<1>1. p \in Seq(Piece) /\ \A k \in 1..Len(p) : p[k].to - p[k].from + 1 <= max
  BY DEF SaysWithin
<1>2. \A k \in 1..Len(p) : p[k].from \in Nat /\ p[k].to \in Nat
  <2> SUFFICES ASSUME NEW k \in 1..Len(p) PROVE p[k].from \in Nat /\ p[k].to \in Nat
    OBVIOUS
  <2>1. p[k] \in Piece
    BY <1>1, ElementOfSeq
  <2> QED BY <2>1 DEF Piece
<1>3. ASSUME \A k \in 1..Len(p) : p[k] # Panic PROVE SaysAll(p, text, a, b)
  <2>1. SaysAll(p, text, c, d)
    BY <1>3 DEF SaysWithin
  <2>2. \A k \in 1..Len(p) : a <= p[k].from /\ p[k].from <= p[k].to /\ p[k].to <= b
    <3> SUFFICES ASSUME NEW k \in 1..Len(p)
                 PROVE  a <= p[k].from /\ p[k].from <= p[k].to /\ p[k].to <= b
      OBVIOUS
    <3>1. c <= p[k].from /\ p[k].from <= p[k].to /\ p[k].to <= d
      BY <2>1 DEF SaysAll
    <3>2. p[k].from \in Nat /\ p[k].to \in Nat
      BY <1>2
    <3> QED BY <3>1, <3>2
  <2>3. \A i \in a..b :
          Voiced(text, i) => \E k \in 1..Len(p) : p[k].from <= i /\ i <= p[k].to
    <3> SUFFICES ASSUME NEW i \in a..b, Voiced(text, i)
                 PROVE  \E k \in 1..Len(p) : p[k].from <= i /\ i <= p[k].to
      OBVIOUS
    <3>1. i \in c..d
      OBVIOUS
    <3> QED BY <2>1, <3>1 DEF SaysAll, Voiced
  <2> QED BY <2>1, <2>2, <2>3 DEF SaysAll, Voiced
<1> QED BY <1>1, <1>3 DEF SaysWithin

\* and what is short enough is so for a greater limit.
LEMMA LimitGrows ==
  ASSUME NEW text, NEW a, NEW b, NEW max \in Nat, NEW limit \in Nat, max <= limit,
         NEW p, SaysWithin(p, text, a, b, max)
  PROVE  SaysWithin(p, text, a, b, limit)
<1>1. p \in Seq(Piece)
  BY DEF SaysWithin
<1>2. ASSUME NEW k \in 1..Len(p) PROVE p[k].to - p[k].from + 1 <= limit
  <2>1. p[k] \in Piece
    BY <1>1, ElementOfSeq
  <2>2. p[k].to - p[k].from + 1 <= max
    BY DEF SaysWithin
  <2>3. p[k].from \in Nat /\ p[k].to \in Nat
    BY <2>1 DEF Piece
  <2> QED BY <2>2, <2>3
<1> QED BY <1>1, <1>2 DEF SaysWithin

\* A span cut off, without the spaces behind it, and what comes before the next.
LEMMA CutSays ==
  ASSUME NEW text, NEW i \in Nat \ {0}, NEW cut \in Nat, NEW n \in Nat, NEW max \in Nat,
         i <= cut, cut < n, cut - i + 1 <= max, Voiced(text, i), Blank(text, cut + 1, n - 1),
         NEW span, span.from = i, span.to = cut
  PROVE  SaysWithin(<<EnsurePunctuation(text, Trim(text, span))>>, text, i, n - 1, max)
<1> DEFINE r == Trim(text, span)
           p == EnsurePunctuation(text, r)
<1>1. Trimmed(r, text, i, cut)
  <2>1. ~Blank(text, i, cut)
    <3>1. i \in i..cut
      OBVIOUS
    <3> QED BY <3>1 DEF Blank, Voiced
  <2> QED BY <2>1, TrimIs
<1> HIDE DEF r
<1>2. p.from = r.from /\ p.to = r.to /\ p \in Piece
  <2>1. r.from \in Nat /\ r.to \in Nat
    BY <1>1 DEF Trimmed
  <2> QED BY <2>1 DEF EnsurePunctuation, Piece
<1> HIDE DEF p
<1>3. i <= r.from /\ r.from <= r.to /\ r.to <= cut /\ r.from \in Nat /\ r.to \in Nat
  BY <1>1 DEF Trimmed
<1>4. \A j \in i..n - 1 : Voiced(text, j) => r.from <= j /\ j <= r.to
  <2> SUFFICES ASSUME NEW j \in i..n - 1, Voiced(text, j) PROVE r.from <= j /\ j <= r.to
    OBVIOUS
  <2>1. j \notin cut + 1..n - 1
    BY DEF Blank, Voiced
  <2>2. j \in i..cut
    BY <2>1
  <2> QED BY <1>1, <2>2 DEF Trimmed
<1>5. InPiece(p, text, i, n - 1)
  <2>1. r.to <= n - 1
    BY <1>3
  <2> QED BY <1>2, <1>3, <1>4, <2>1 DEF InPiece, Voiced
<1>6. p.to - p.from + 1 <= max
  BY <1>2, <1>3
<1>7. n - 1 \in Nat
  OBVIOUS
<1>8. SaysWithin(<<p>>, text, i, n - 1, max)
  BY <1>2, <1>5, <1>6, <1>7, PieceSays
<1> QED BY <1>8 DEF p, r

-----------------------------------------------------------------------------
(* A long sentence.                                                        *)

\* A panic is no piece that could be said.
LEMMA PanicSays ==
  ASSUME NEW text, NEW a \in Nat, NEW b \in Nat, NEW max \in Nat
  PROVE  SaysWithin(<<Panic>>, text, a, b, max)
<1>1. Panic \in Piece /\ Panic.to = 0 /\ Panic.from = 1
  BY DEF Panic, NoPiece, Piece
<1>2. Panic.to - Panic.from + 1 <= max
  BY <1>1
<1> QED BY <1>1, <1>2, PieceSays

\* What is left of a sentence says what is left of it.
LEMMA ShortSays ==
  ASSUME NEW text, NEW i \in Nat \ {0}, NEW b \in Nat, NEW max \in Nat, i <= b, b - i + 1 <= max
  PROVE  SaysWithin(<<EnsurePunctuation(text, Span(i, b))>>, text, i, b, max)
<1> DEFINE p == EnsurePunctuation(text, Span(i, b))
<1>1. p.from = i /\ p.to = b /\ p \in Piece
  BY DEF EnsurePunctuation, Span, Piece
<1> HIDE DEF p
<1>2. InPiece(p, text, i, b)
  <2>1. i <= p.from /\ p.from <= p.to /\ p.to <= b /\ \A j \in i..b : p.from <= j /\ j <= p.to
    BY <1>1
  <2> QED BY <2>1 DEF InPiece
<1>3. SaysWithin(<<p>>, text, i, b, max)
  BY <1>1, <1>2, PieceSays
<1> QED BY <1>3 DEF p

\* A long sentence is said to its end.
LEMMA SplitLongSays ==
  ASSUME NEW text, NEW max \in Nat \ {0}, NEW sentence, sentence.from \in Nat \ {0},
         sentence.to \in Nat, sentence.from <= sentence.to,
         Voiced(text, sentence.from), Voiced(text, sentence.to)
  PROVE  SaysWithin(SplitLong(text, sentence, max), text, sentence.from, sentence.to, max)
<1> DEFINE a == sentence.from
           b == sentence.to
           cut(i) == FindWordBoundary(text, i, i + max - 1)
           short(i) == b <= i + max - 1
           edge(i) == IsCharBoundary(text, i + max - 1)
           rest(i) == Trim(text, Span(cut(i) + 1, b))
           cutoff(i) == EnsurePunctuation(text, Trim(text, Span(i, cut(i))))
           out == [i \in a..b |-> IF short(i) THEN <<EnsurePunctuation(text, Span(i, b))>>
                                  ELSE IF ~edge(i) THEN <<Panic>> ELSE <<cutoff(i)>>]
           next == [i \in a..b |-> IF short(i) \/ ~edge(i) THEN b + 1 ELSE rest(i).from]
           G == {i \in a..b : Voiced(text, i)}
<1>1. SplitLong(text, sentence, max) = Loop(sentence, out, next)
  BY DEF SplitLong
<1>2. a \in Nat \ {0} /\ b \in Nat /\ a <= b
  OBVIOUS
<1>3. \A i \in a..b :
        /\ out[i] = IF short(i) THEN <<EnsurePunctuation(text, Span(i, b))>>
                    ELSE IF ~edge(i) THEN <<Panic>> ELSE <<cutoff(i)>>
        /\ next[i] = IF short(i) \/ ~edge(i) THEN b + 1 ELSE rest(i).from
  OBVIOUS
<1>4. G \subseteq a..b /\ a \in G /\ \A i \in G : Voiced(text, i) /\ i \in a..b
  BY <1>2
<1>5. \A i \in a..b : Voiced(text, i) => i \in G
  OBVIOUS
<1>6. Voiced(text, b)
  OBVIOUS
<1> HIDE DEF a, b, out, next, G, edge
<1>7. ASSUME NEW i \in a..b, ~short(i)
      PROVE  /\ cut(i) \in i..i + max - 1 /\ cut(i) < b
             /\ Blank(text, cut(i) + 1, rest(i).from - 1)
             /\ rest(i).from \in cut(i) + 1..b /\ Voiced(text, rest(i).from)
  <2>1. cut(i) \in i..i + max - 1
    <3>1. i \in Nat /\ i + max - 1 \in Nat /\ i <= i + max - 1
      BY <1>2
    <3> QED BY <3>1, BoundariesAre
  <2> DEFINE c == cut(i)
             r == rest(i)
  <2>2. c \in Nat /\ c < b
    BY <1>2, <1>7, <2>1
  <2>3. Trimmed(r, text, c + 1, b)
    <3>1. ~Blank(text, c + 1, b)
      <4>1. b \in c + 1..b
        BY <1>2, <2>2
      <4> QED BY <1>6, <4>1 DEF Blank, Voiced
    <3>2. Span(c + 1, b).from = c + 1 /\ Span(c + 1, b).to = b
      BY DEF Span
    <3>3. c + 1 \in Nat \ {0}
      BY <2>2
    <3> HIDE DEF c
    <3>4. Trimmed(Trim(text, Span(c + 1, b)), text, c + 1, b)
      BY <1>2, <3>1, <3>2, <3>3, TrimIs
    <3> QED BY <3>4 DEF c
  <2>4. r.from \in c + 1..b /\ Voiced(text, r.from)
    <3>1. c + 1 <= r.from /\ r.from <= r.to /\ r.to <= b /\ r.from \in Nat /\ r.to \in Nat
      BY <2>3 DEF Trimmed
    <3>2. Voiced(text, r.from)
      BY <2>3 DEF Trimmed
    <3> HIDE DEF c, r
    <3> QED BY <1>2, <2>2, <3>1, <3>2
  <2>5. Blank(text, c + 1, r.from - 1)
    <3>1. ASSUME NEW j \in c + 1..r.from - 1 PROVE ~Voiced(text, j)
      <4>1. j \in c + 1..b /\ ~(r.from <= j)
        BY <1>2, <2>2, <2>4
      <4> QED BY <2>3, <4>1 DEF Trimmed
    <3> QED BY <3>1 DEF Blank, Voiced
  <2> QED BY <2>1, <2>2, <2>4, <2>5
<1> HIDE DEF cut, rest, cutoff
<1>8. Forward(next, a, b)
  <2>1. ASSUME NEW i \in a..b PROVE next[i] \in i + 1..b + 1
    <3>1. CASE short(i) \/ ~edge(i)
      <4>1. next[i] = b + 1
        BY <1>3, <3>1
      <4> HIDE DEF short
      <4> QED BY <1>2, <4>1
    <3>2. CASE ~(short(i) \/ ~edge(i))
      <4>1. next[i] = rest(i).from
        BY <1>3, <3>2
      <4>2. cut(i) \in i..i + max - 1 /\ cut(i) < b /\ rest(i).from \in cut(i) + 1..b
        BY <1>7, <3>2
      <4> HIDE DEF short
      <4> QED BY <1>2, <4>1, <4>2
    <3> QED BY <3>1, <3>2
  <2> QED BY <2>1 DEF Forward
<1>9. Stands(G, text, b, max, out, next)
  <2>1. ASSUME NEW i \in G
        PROVE  /\ next[i] \in i + 1..b + 1 /\ (next[i] \in G \/ next[i] = b + 1)
               /\ SaysWithin(out[i], text, i, next[i] - 1, max)
    <3>1. i \in a..b /\ i \in Nat \ {0} /\ i <= b /\ Voiced(text, i)
      BY <1>2, <1>4
    <3>2. next[i] \in i + 1..b + 1
      BY <1>8, <3>1 DEF Forward
    <3>3. CASE short(i)
      <4>1. next[i] = b + 1 /\ (b + 1) - 1 = b /\ out[i] = <<EnsurePunctuation(text, Span(i, b))>>
        <5>1. next[i] = b + 1 /\ out[i] = <<EnsurePunctuation(text, Span(i, b))>>
          BY <1>3, <3>1, <3>3
        <5>2. (b + 1) - 1 = b
          BY <1>2
        <5> QED BY <5>1, <5>2
      <4>2. b - i + 1 <= max
        BY <1>2, <3>1, <3>3
      <4>3. SaysWithin(out[i], text, i, b, max)
        BY <1>2, <3>1, <4>1, <4>2, ShortSays
      <4> QED BY <3>2, <4>1, <4>3
    <3>4. CASE ~short(i) /\ ~edge(i)
      <4>1. next[i] = b + 1 /\ (b + 1) - 1 = b /\ out[i] = <<Panic>>
        <5>1. next[i] = b + 1 /\ out[i] = <<Panic>>
          BY <1>3, <3>1, <3>4
        <5>2. (b + 1) - 1 = b
          BY <1>2
        <5> QED BY <5>1, <5>2
      <4>2. SaysWithin(out[i], text, i, b, max)
        BY <1>2, <3>1, <4>1, PanicSays
      <4> QED BY <3>2, <4>1, <4>2
    <3>5. CASE ~short(i) /\ edge(i)
      <4>1. next[i] = rest(i).from /\ out[i] = <<cutoff(i)>>
        BY <1>3, <3>1, <3>5
      <4>2. /\ cut(i) \in i..i + max - 1 /\ cut(i) < b
            /\ Blank(text, cut(i) + 1, rest(i).from - 1)
            /\ rest(i).from \in cut(i) + 1..b /\ Voiced(text, rest(i).from)
        BY <1>7, <3>1, <3>5
      <4> DEFINE c == cut(i)
                 n == rest(i).from
      <4>3. /\ c \in Nat /\ n \in Nat /\ i <= c /\ c < n /\ c - i + 1 <= max /\ n \in a..b
        BY <1>2, <3>1, <4>2
      <4>4. Span(i, c).from = i /\ Span(i, c).to = c
        BY DEF Span
      <4>5. Blank(text, c + 1, n - 1) /\ Voiced(text, n)
        BY <4>2
      <4> HIDE DEF c, n
      <4>6. SaysWithin(<<EnsurePunctuation(text, Trim(text, Span(i, c)))>>, text, i, n - 1, max)
        BY <3>1, <4>3, <4>4, <4>5, CutSays
      <4>7. n \in G
        BY <1>5, <4>3, <4>5
      <4> QED BY <3>2, <4>1, <4>6, <4>7 DEF c, n, cutoff
    <3> QED BY <3>3, <3>4, <3>5
  <2> QED BY <2>1 DEF Stands
<1>10. SaysWithin(Loop(sentence, out, next), text, a, b, max)
  <2>1. sentence.from = a /\ sentence.to = b
    BY DEF a, b
  <2> QED BY <1>2, <1>4, <1>8, <1>9, <2>1, LoopSays
<1> QED BY <1>1, <1>10 DEF a, b

-----------------------------------------------------------------------------
(* All sentences.                                                          *)

\* Sentence after sentence is said.
LEMMA SentencesSay ==
  ASSUME NEW text, NEW max \in Nat \ {0}, NEW span, span.from \in Nat \ {0},
         span.to \in Nat, span.from <= span.to
  PROVE  SaysWithin(ChunkBySentences(text, span, max), text, span.from, span.to, max)
<1> DEFINE a == span.from
           b == span.to
           end(i) == SentenceEnd(text, i, b)
           sentence(i) == Sentence(text, i, b)
           out == [i \in a..b |-> IF IsEmpty(sentence(i)) THEN <<>>
                                  ELSE SplitLong(text, sentence(i), max)]
           next == [i \in a..b |-> end(i) + 1]
<1>1. ChunkBySentences(text, span, max) = Loop(span, out, next)
  BY DEF ChunkBySentences
<1>2. a \in Nat \ {0} /\ b \in Nat /\ a <= b
  OBVIOUS
<1>3. \A i \in a..b :
        /\ out[i] = IF IsEmpty(sentence(i)) THEN <<>> ELSE SplitLong(text, sentence(i), max)
        /\ next[i] = end(i) + 1
  OBVIOUS
<1> HIDE DEF a, b, out, next
<1>4. ASSUME NEW i \in a..b
      PROVE  /\ i \in Nat \ {0} /\ end(i) \in i..b /\ end(i) \in Nat
             /\ sentence(i) = Trim(text, Span(i, end(i)))
  <2>1. i \in Nat \ {0} /\ i <= b
    BY <1>2
  <2>2. end(i) \in i..b
    BY <1>2, <2>1, SentenceEnds
  <2>3. sentence(i) = Trim(text, Span(i, end(i)))
    <3>1. CASE \E j \in i..b : text[j] = "."
      BY <3>1 DEF Sentence
    <3>2. CASE ~\E j \in i..b : text[j] = "."
      <4>1. {j \in i..b : text[j] = "."} = {}
        BY <3>2
      <4>2. end(i) = b
        BY <4>1 DEF SentenceEnd
      <4> HIDE DEF end
      <4>3. sentence(i) = Trim(text, Remaining(Span(i, b)))
        BY <3>2 DEF Sentence
      <4> QED BY <4>2, <4>3 DEF Remaining
    <3> QED BY <3>1, <3>2
  <2> HIDE DEF end
  <2>4. end(i) \in Nat
    BY <2>1, <2>2
  <2> QED BY <2>1, <2>2, <2>3, <2>4
<1> HIDE DEF end, sentence
<1>5. Forward(next, a, b)
  <2>1. ASSUME NEW i \in a..b PROVE next[i] \in i + 1..b + 1
    <3>1. i \in Nat /\ end(i) \in i..b /\ next[i] = end(i) + 1
      BY <1>3, <1>4
    <3> QED BY <1>2, <3>1
  <2> QED BY <2>1 DEF Forward
<1>6. ASSUME NEW i \in a..b PROVE SaysWithin(out[i], text, i, end(i), max)
  <2> DEFINE s == sentence(i)
             e == end(i)
  <2>1. i \in Nat \ {0} /\ e \in i..b /\ e \in Nat /\ s = Trim(text, Span(i, e))
    BY <1>4
  <2>2. out[i] = IF IsEmpty(s) THEN <<>> ELSE SplitLong(text, s, max)
    BY <1>3
  <2> HIDE DEF s, e
  <2>3. Span(i, e).from = i /\ Span(i, e).to = e
    BY DEF Span
  <2>4. (Blank(text, i, e) /\ s.from = i /\ s.to = i - 1) \/ Trimmed(s, text, i, e)
    BY <2>1, <2>3, TrimIs
  <2>5. CASE Blank(text, i, e) /\ s.from = i /\ s.to = i - 1
    <3>1. IsEmpty(s)
      BY <2>1, <2>5 DEF IsEmpty
    <3>2. SaysWithin(<<>>, text, i, e, max)
      BY <2>1, <2>5, NothingSays
    <3> QED BY <2>2, <3>1, <3>2 DEF e
  <2>6. CASE Trimmed(s, text, i, e)
    <3>1. /\ i <= s.from /\ s.from <= s.to /\ s.to <= e /\ s.from \in Nat /\ s.to \in Nat
      BY <2>6 DEF Trimmed
    <3>2. /\ Voiced(text, s.from) /\ Voiced(text, s.to)
          /\ \A j \in i..e : Voiced(text, j) => s.from <= j /\ j <= s.to
      BY <2>6 DEF Trimmed
    <3>3. s.from \in Nat \ {0} /\ ~(s.from > s.to)
      BY <2>1, <3>1
    <3>4. SaysWithin(SplitLong(text, s, max), text, s.from, s.to, max)
      BY <3>1, <3>2, <3>3, SplitLongSays
    <3>5. SaysWithin(SplitLong(text, s, max), text, i, e, max)
      BY <2>1, <3>1, <3>2, <3>4, SaysMore
    <3> QED BY <2>2, <3>3, <3>5 DEF IsEmpty, e
  <2> QED BY <2>4, <2>5, <2>6
<1>7. Stands(a..b, text, b, max, out, next)
  <2>1. ASSUME NEW i \in a..b
        PROVE  /\ next[i] \in i + 1..b + 1 /\ (next[i] \in a..b \/ next[i] = b + 1)
               /\ SaysWithin(out[i], text, i, next[i] - 1, max)
    <3>1. i \in Nat /\ end(i) \in i..b /\ end(i) \in Nat /\ next[i] = end(i) + 1
      BY <1>3, <1>4
    <3>2. next[i] - 1 = end(i)
      BY <3>1
    <3>3. next[i] \in i + 1..b + 1 /\ (next[i] \in a..b \/ next[i] = b + 1)
      BY <1>2, <3>1
    <3> QED BY <1>6, <3>2, <3>3
  <2> QED BY <2>1 DEF Stands
<1>8. SaysWithin(Loop(span, out, next), text, a, b, max)
  <2>1. span.from = a /\ span.to = b /\ a \in a..b /\ a..b \in SUBSET (a..b)
    BY <1>2 DEF a, b
  <2> QED BY <1>2, <1>5, <1>7, <2>1, LoopSays
<1> QED BY <1>1, <1>8 DEF a, b

\* The whole text, and the first piece is no longer than its limit.
Limited(p, first, rest) ==
  \A k \in 1..Len(p) : p[k].to - p[k].from + 1 <= (IF k = 1 THEN first ELSE rest)

\* A first piece keeps to its limit,
LEMMA OneLimited ==
  ASSUME NEW p \in Piece, NEW first \in Nat, NEW rest \in Nat, p.to - p.from + 1 <= first
  PROVE  Limited(<<p>>, first, rest)
<1> DEFINE s == <<p>>
<1>1. Len(s) = 1 /\ s[1] = p
  OBVIOUS
<1> HIDE DEF s
<1>2. \A k \in 1..Len(s) : k = 1
  BY <1>1
<1>3. \A k \in 1..Len(s) : s[k].to - s[k].from + 1 <= (IF k = 1 THEN first ELSE rest)
  BY <1>1, <1>2
<1> QED BY <1>3 DEF Limited, s

\* and those behind it to theirs.
LEMMA BothLimited ==
  ASSUME NEW p \in Piece, NEW first \in Nat, NEW rest \in Nat, p.to - p.from + 1 <= first,
         NEW text, NEW a, NEW b, NEW q, SaysWithin(q, text, a, b, rest)
  PROVE  Limited(<<p>> \o q, first, rest)
<1> DEFINE s == <<p>>
           r == s \o q
<1>1. s \in Seq(Piece) /\ Len(s) = 1 /\ s[1] = p
  OBVIOUS
<1>2. q \in Seq(Piece) /\ Len(q) \in Nat
  BY LenProperties DEF SaysWithin
<1> HIDE DEF s
<1>3. Len(r) = 1 + Len(q) /\ \A k \in 1..1 + Len(q) : r[k] = IF k <= 1 THEN s[k] ELSE q[k - 1]
  <2>1. /\ Len(r) = Len(s) + Len(q)
        /\ \A k \in 1..Len(s) + Len(q) : r[k] = IF k <= Len(s) THEN s[k] ELSE q[k - Len(s)]
    BY <1>1, <1>2, ConcatProperties
  <2> HIDE DEF r
  <2> QED BY <1>1, <2>1
<1> HIDE DEF r
<1>4. ASSUME NEW k \in 1..Len(r) PROVE r[k].to - r[k].from + 1 <= (IF k = 1 THEN first ELSE rest)
  <2>1. k \in 1..1 + Len(q)
    BY <1>3
  <2>2. CASE k = 1
    <3>1. r[k] = p
      BY <1>1, <1>3, <2>1, <2>2
    <3> QED BY <2>2, <3>1
  <2>3. CASE k # 1
    <3>1. k - 1 \in 1..Len(q) /\ ~(k <= 1)
      BY <1>2, <2>1, <2>3
    <3>2. r[k] = q[k - 1]
      BY <1>3, <2>1, <3>1
    <3>3. q[k - 1].to - q[k - 1].from + 1 <= rest
      BY <3>1 DEF SaysWithin
    <3> QED BY <2>3, <3>2, <3>3
  <2> QED BY <2>2, <2>3
<1> QED BY <1>4 DEF Limited, r, s

-----------------------------------------------------------------------------
(* The whole text.                                                         *)

\* Pieces that say all of a text and keep to the limits.
Whole(p, text, first, rest) ==
  /\ p \in Seq(Piece) /\ Limited(p, first, rest)
  /\ (\A k \in 1..Len(p) : p[k] # Panic) => SaysAll(p, text, 1, Len(text))

\* However a text is cut: unless the chunker panics, the pieces say all of it.
LEMMA ChunkTextSays ==
  ASSUME NEW text, Len(text) \in Nat, NEW firstMax \in Nat \ {0}, NEW restMax \in Nat \ {0}
  PROVE  Whole(ChunkText(text, firstMax, restMax), text, firstMax, restMax)
<1> DEFINE n == Len(text)
           all == Trim(text, Span(1, n))
           end == all.from + firstMax - 1
           cut == FindClauseBoundary(text, all.from, end)
           rest == Trim(text, Span(cut + 1, all.to))
           p == EnsurePunctuation(text, all)
           q == EnsurePunctuation(text, Trim(text, Span(all.from, cut)))
           more == IF IsEmpty(rest) THEN <<>> ELSE ChunkBySentences(text, rest, restMax)
           max == firstMax + restMax
           out == ChunkText(text, firstMax, restMax)
<1>1. out = IF IsEmpty(all) THEN <<>>
            ELSE IF all.to <= end THEN <<p>>
            ELSE IF ~IsCharBoundary(text, end) THEN <<Panic>> ELSE <<q>> \o more
  BY DEF ChunkText
<1>2. n \in Nat /\ max \in Nat /\ firstMax \in Nat /\ restMax \in Nat /\ firstMax <= max
      /\ restMax <= max
  OBVIOUS
<1>3. SUFFICES ASSUME TRUE PROVE Limited(out, firstMax, restMax) /\ SaysWithin(out, text, 1, n, max)
  BY <1>3 DEF Whole, SaysWithin
<1>4. \/ Blank(text, 1, n) /\ all.from = 1 /\ all.to = 0
      \/ Trimmed(all, text, 1, n)
  <2>1. Span(1, n).from = 1 /\ Span(1, n).to = n /\ 1 \in Nat \ {0} /\ 1 - 1 = 0
    BY DEF Span
  <2>2. \/ /\ Blank(text, 1, n)
           /\ all.from = 1 /\ all.to = 1 - 1
        \/ Trimmed(all, text, 1, n)
    BY <1>2, <2>1, TrimIs
  <2> QED BY <2>1, <2>2
<1> HIDE DEF n, out, all, p
<1>5. CASE Blank(text, 1, n) /\ all.from = 1 /\ all.to = 0
  <2>1. IsEmpty(all)
    BY <1>5 DEF IsEmpty
  <2>2. out = <<>>
    BY <1>1, <2>1
  <2>3. SaysWithin(<<>>, text, 1, n, max)
    BY <1>2, <1>5, NothingSays
  <2>4. Limited(<<>>, firstMax, restMax)
    <3> DEFINE e == <<>>
    <3>1. Len(e) = 0
      OBVIOUS
    <3> HIDE DEF e
    <3>2. 1..Len(e) = {}
      BY <3>1
    <3>3. Limited(e, firstMax, restMax)
      BY <3>2 DEF Limited
    <3> QED BY <3>3 DEF e
  <2> QED BY <2>2, <2>3, <2>4
<1>6. CASE Trimmed(all, text, 1, n)
  <2> DEFINE a == all.from
             b == all.to
  <2>1. 1 <= a /\ a <= b /\ b <= n /\ a \in Nat \ {0} /\ b \in Nat
    BY <1>2, <1>6 DEF Trimmed
  <2>2. /\ Voiced(text, a) /\ Voiced(text, b)
        /\ \A i \in 1..n : Voiced(text, i) => a <= i /\ i <= b
    BY <1>6 DEF Trimmed
  <2>3. ~IsEmpty(all)
    BY <2>1 DEF IsEmpty
  <2>4. p.from = a /\ p.to = b /\ p \in Piece
    BY <2>1 DEF p, EnsurePunctuation, Piece
  <2>5. all.to <= end <=> b - a + 1 <= firstMax
    BY <2>1
  <2>6. end \in Nat /\ a <= end /\ end - a + 1 = firstMax
    BY <2>1
  <2>7. CASE all.to <= end
    <3>1. out = <<p>>
      BY <1>1, <2>3, <2>7
    <3>2. p.to - p.from + 1 <= firstMax /\ p.to - p.from + 1 <= max
      BY <2>1, <2>4, <2>5, <2>7
    <3>3. InPiece(p, text, 1, n)
      <4>1. 1 <= p.from /\ p.from <= p.to /\ p.to <= n
        BY <2>1, <2>4
      <4> QED BY <2>2, <2>4, <4>1 DEF InPiece, Voiced
    <3>4. SaysWithin(<<p>>, text, 1, n, max)
      BY <1>2, <2>4, <3>2, <3>3, PieceSays
    <3>5. Limited(<<p>>, firstMax, restMax)
      BY <1>2, <2>4, <3>2, OneLimited
    <3> QED BY <3>1, <3>4, <3>5
  <2>8. CASE ~(all.to <= end) /\ ~IsCharBoundary(text, end)
    <3>1. out = <<Panic>>
      BY <1>1, <2>3, <2>8
    <3>2. Panic \in Piece /\ Panic.to - Panic.from + 1 <= firstMax
      BY DEF Panic, NoPiece, Piece
    <3>3. SaysWithin(<<Panic>>, text, 1, n, max)
      BY <1>2, PanicSays
    <3>4. Limited(<<Panic>>, firstMax, restMax)
      BY <1>2, <3>2, OneLimited
    <3> QED BY <3>1, <3>3, <3>4
  <2>9. CASE ~(all.to <= end) /\ IsCharBoundary(text, end)
    <3>1. out = <<q>> \o more
      BY <1>1, <2>3, <2>9
    <3>2. cut \in a..end /\ cut < b
      <4>1. cut \in a..end
        BY <2>1, <2>6, BoundariesAre
      <4>2. ~(b <= end)
        BY <2>9
      <4> HIDE DEF cut
      <4> QED BY <2>1, <2>6, <4>1, <4>2
    <3> HIDE DEF cut, end
    <3>3. cut \in Nat /\ cut + 1 \in Nat \ {0} /\ a <= cut /\ cut - a + 1 <= firstMax
      BY <2>1, <2>6, <3>2
    <3>4. Trimmed(rest, text, cut + 1, b)
      <4>1. Span(cut + 1, b).from = cut + 1 /\ Span(cut + 1, b).to = b
        BY DEF Span
      <4>2. ~Blank(text, cut + 1, b)
        <5>1. b \in cut + 1..b
          BY <2>1, <3>2, <3>3
        <5> QED BY <2>2, <5>1 DEF Blank, Voiced
      <4> QED BY <2>1, <3>3, <4>1, <4>2, TrimIs
    <3> HIDE DEF a, b, rest
    <3>5. /\ cut + 1 <= rest.from /\ rest.from <= rest.to /\ rest.to <= b
          /\ rest.from \in Nat \ {0} /\ rest.to \in Nat
      BY <3>3, <3>4 DEF Trimmed
    <3>6. SaysWithin(more, text, rest.from, b, restMax)
      <4>1. ~IsEmpty(rest)
        BY <3>5 DEF IsEmpty
      <4>2. SaysWithin(ChunkBySentences(text, rest, restMax), text, rest.from, rest.to, restMax)
        BY <3>5, SentencesSay
      <4>3. \A i \in rest.from..b : Voiced(text, i) => rest.from <= i /\ i <= rest.to
        <5>1. \A i \in rest.from..b : i \in cut + 1..b
          BY <3>3, <3>5
        <5> QED BY <3>4, <5>1 DEF Trimmed
      <4>4. SaysWithin(ChunkBySentences(text, rest, restMax), text, rest.from, b, restMax)
        BY <1>2, <2>1, <3>5, <4>2, <4>3, SaysMore
      <4> QED BY <4>1, <4>4
    <3>7. Blank(text, cut + 1, rest.from - 1)
      <4>1. ASSUME NEW i \in cut + 1..rest.from - 1 PROVE ~Voiced(text, i)
        <5>1. i \in cut + 1..b /\ ~(rest.from <= i)
          BY <2>1, <3>3, <3>5
        <5> QED BY <3>4, <5>1 DEF Trimmed
      <4> QED BY <4>1 DEF Blank, Voiced
    <3>8. SaysWithin(<<q>>, text, a, rest.from - 1, firstMax)
      <4>1. Span(a, cut).from = a /\ Span(a, cut).to = cut
        BY DEF Span
      <4>2. cut < rest.from /\ rest.from \in Nat
        BY <3>3, <3>5
      <4>3. SaysWithin(<<EnsurePunctuation(text, Trim(text, Span(a, cut)))>>, text, a,
                       rest.from - 1, firstMax)
        BY <1>2, <2>1, <2>2, <3>3, <3>7, <4>1, <4>2, CutSays
      <4> QED BY <4>3 DEF a
    <3> HIDE DEF q, more
    <3>9. SaysWithin(<<q>> \o more, text, a, b, max)
      <4>1. SaysWithin(<<q>>, text, a, rest.from - 1, max)
        BY <1>2, <3>8, LimitGrows
      <4>2. SaysWithin(more, text, rest.from, b, max)
        BY <1>2, <3>6, LimitGrows
      <4>3. rest.from <= b + 1 /\ a < rest.from /\ rest.from \in Nat
        BY <2>1, <3>3, <3>5
      <4> QED BY <1>2, <2>1, <4>1, <4>2, <4>3, SaysJoined
    <3>10. SaysWithin(<<q>> \o more, text, 1, n, max)
      BY <1>2, <2>1, <2>2, <3>9, SaysMore
    <3>11. q \in Piece /\ q.to - q.from + 1 <= firstMax
      <4> DEFINE s == <<q>>
      <4>1. s \in Seq(Piece) /\ \A k \in 1..Len(s) : s[k].to - s[k].from + 1 <= firstMax
        BY <3>8 DEF SaysWithin
      <4>2. Len(s) = 1 /\ s[1] = q
        OBVIOUS
      <4> HIDE DEF s
      <4>3. 1 \in 1..Len(s)
        BY <4>2
      <4>4. s[1] \in Piece
        BY <4>1, <4>3, ElementOfSeq
      <4> QED BY <4>1, <4>2, <4>3, <4>4
    <3>12. Limited(<<q>> \o more, firstMax, restMax)
      BY <1>2, <3>6, <3>11, BothLimited
    <3> QED BY <3>1, <3>10, <3>12
  <2> QED BY <2>7, <2>8, <2>9
<1> QED BY <1>4, <1>5, <1>6

-----------------------------------------------------------------------------
(* What of it is sent.                                                     *)

\* The pieces are those of the request, and none is a panic, wherever one is spoken;
\* what is sent are they, one after another, or errors in their places.
Answered ==
  /\ pc \in {"clone", "wait", "speak", "done"} =>
       /\ chunks = Chunks
       /\ \A k \in 1..Len(chunks) : chunks[k] # Panic
  /\ chunks = <<>> \/ chunks = Chunks
InOrder ==
  /\ sent \in Seq(Piece)
  /\ \A k \in 1..Len(sent) : sent[k] = chunks[k] \/ sent[k] = Error
Counted ==
  /\ pc \in {"asked", "clone"} => sent = <<>>
  /\ pc = "speak" => Len(sent) < Len(chunks)
  /\ pc \in {"clone", "wait"} =>
       \/ Len(sent) < Len(chunks)
       \/ chunks = <<>> /\ sent = <<>> /\ ~request.stream
  /\ pc = "done" => Len(sent) = Len(chunks)
ApiInv == request \in Requests /\ Answered /\ InOrder /\ Counted

\* Every request's text is cut into what says it.
LEMMA ChunksSay ==
  ASSUME request \in Requests
  PROVE  /\ Whole(Chunks, request.text, FirstMax, REST_CHUNK_MAX)
         /\ Len(request.text) \in Nat /\ request.text \in Seq(STRING)
         /\ Chunks \in Seq(Piece) /\ Len(Chunks) \in Nat
<1>1. request.text \in Texts
  BY DEF Requests
<1>2. request.text \in Seq(STRING)
  BY <1>1, SpeechAssumption
<1>3. Len(request.text) \in Nat
  BY <1>2, LenProperties
<1>4. FirstMax \in Nat \ {0} /\ REST_CHUNK_MAX \in Nat \ {0}
  BY SpeechAssumption DEF FirstMax
<1>5. Whole(Chunks, request.text, FirstMax, REST_CHUNK_MAX)
  BY <1>3, <1>4, ChunkTextSays DEF Chunks
<1>6. Chunks \in Seq(Piece)
  BY <1>5 DEF Whole
<1> QED BY <1>2, <1>3, <1>5, <1>6, LenProperties

\* The request stays, and so do its pieces.
LEMMA SameRequest ==
  ASSUME request' = request
  PROVE  Chunks' = Chunks
BY DEF Chunks, FirstMax

\* At first nothing is.
LEMMA ApiInitInv == ApiInit => ApiInv
<1> SUFFICES ASSUME ApiInit PROVE ApiInv
  OBVIOUS
<1>1. request \in Requests /\ pc = "asked" /\ chunks = <<>> /\ sent = <<>>
  BY DEF ApiInit
<1>2. sent \in Seq(Piece) /\ Len(sent) = 0
  BY <1>1, EmptySeq
<1>3. 1..Len(sent) = {}
  BY <1>2
<1>4. Answered
  BY <1>1 DEF Answered
<1>5. InOrder
  BY <1>2, <1>3 DEF InOrder
<1>6. Counted
  BY <1>1 DEF Counted
<1> QED BY <1>1, <1>4, <1>5, <1>6 DEF ApiInv

\* A piece or an error behind what is sent.
LEMMA ReportInv ==
  ASSUME ApiInv, pc \in {"wait", "speak"}, NEW event, Report(event), UNCHANGED <<request, chunks>>,
         \/ event = Error
         \/ pc = "speak" /\ event = chunks[Len(sent) + 1]
  PROVE  ApiInv'
<1>1. request \in Requests /\ Answered /\ InOrder /\ Counted
  BY DEF ApiInv
<1>2. request' = request /\ chunks' = chunks /\ Chunks' = Chunks
  BY SameRequest
<1>3. chunks = Chunks /\ \A k \in 1..Len(chunks) : chunks[k] # Panic
  BY <1>1 DEF Answered
<1>4. chunks \in Seq(Piece) /\ Len(chunks) \in Nat
  BY <1>1, <1>3, ChunksSay
<1>5. sent \in Seq(Piece) /\ Len(sent) \in Nat
  BY <1>1, LenProperties DEF InOrder
<1>6. event \in Piece
  <2>1. Error \in Piece
    BY DEF Error, NoPiece, Piece
  <2>2. CASE pc = "speak" /\ event = chunks[Len(sent) + 1]
    <3>1. Len(sent) < Len(chunks)
      BY <1>1, <2>2 DEF Counted
    <3>2. Len(sent) + 1 \in 1..Len(chunks)
      BY <1>4, <1>5, <3>1
    <3> QED BY <1>4, <2>2, <3>2, ElementOfSeq
  <2> QED BY <2>1, <2>2
<1>7. sent' = Append(sent, event)
  BY DEF Report
<1>8. /\ sent' \in Seq(Piece) /\ Len(sent') = Len(sent) + 1
      /\ \A k \in 1..Len(sent) : sent'[k] = sent[k]
      /\ sent'[Len(sent) + 1] = event
  BY <1>5, <1>6, <1>7, AppendProperties
<1>9. pc' = IF event = Error /\ ~request.stream THEN "refused"
            ELSE IF Len(sent') = Len(chunks) THEN "done"
            ELSE IF request.stream THEN "wait" ELSE pc
  BY DEF Report
<1>10. pc' \in {"wait", "speak", "done", "refused"}
  BY <1>9
<1>11. Answered'
  BY <1>2, <1>3 DEF Answered
<1>12. InOrder'
  <2>1. ASSUME NEW k \in 1..Len(sent') PROVE sent'[k] = chunks'[k] \/ sent'[k] = Error
    <3>1. k \in 1..Len(sent) \/ k = Len(sent) + 1
      BY <1>5, <1>8
    <3>2. CASE k \in 1..Len(sent)
      <4>1. sent'[k] = sent[k]
        BY <1>8, <3>2
      <4>2. sent[k] = chunks[k] \/ sent[k] = Error
        BY <1>1, <3>2 DEF InOrder
      <4> QED BY <1>2, <4>1, <4>2
    <3>3. CASE k = Len(sent) + 1
      BY <1>2, <1>8, <3>3
    <3> QED BY <3>1, <3>2, <3>3
  <2> QED BY <1>8, <2>1 DEF InOrder
<1>13. Counted'
  <2>1. CASE Len(sent) < Len(chunks)
    <3>1. Len(sent') \in Nat /\ Len(sent') <= Len(chunks)
      BY <1>4, <1>5, <1>8, <2>1
    <3>2. pc' \in {"wait", "speak"} => Len(sent') # Len(chunks)
      BY <1>9
    <3>3. pc' \in {"wait", "speak"} => Len(sent') < Len(chunks)
      BY <1>4, <3>1, <3>2
    <3>4. pc' = "done" => Len(sent') = Len(chunks)
      BY <1>9
    <3> QED BY <1>2, <1>10, <3>3, <3>4 DEF Counted
  <2>2. CASE ~(Len(sent) < Len(chunks))
    <3>1. pc = "wait" /\ ~request.stream
      BY <1>1, <2>2 DEF Counted
    <3>2. pc' = "refused"
      BY <1>9, <3>1
    <3> QED BY <3>2 DEF Counted
  <2> QED BY <2>1, <2>2
<1> QED BY <1>1, <1>2, <1>11, <1>12, <1>13 DEF ApiInv

\* Each step keeps it so.
LEMMA ApiNextInv == ApiInv /\ [ApiNext]_svars => ApiInv'
<1> SUFFICES ASSUME ApiInv, [ApiNext]_svars PROVE ApiInv'
  OBVIOUS
<1>1. request \in Requests /\ Answered /\ InOrder /\ Counted
  BY DEF ApiInv
<1>2. request' = request
  BY DEF ApiNext, svars, ChunkInput, PrepareCloneData, Lock, Speak, Leave, OtherLocks,
         OtherUnlocks, Idle
<1>3. Chunks' = Chunks /\ request' \in Requests
  BY <1>1, <1>2, SameRequest
<1>4. sent \in Seq(Piece) /\ Len(sent) \in Nat
  BY <1>1, LenProperties DEF InOrder
<1>5. ASSUME UNCHANGED <<chunks, sent>>, pc' = pc \/ pc' \in {"refused", "dropped", "left"}
      PROVE  ApiInv'
  <2>1. Answered'
    BY <1>1, <1>3, <1>5 DEF Answered
  <2>2. InOrder'
    BY <1>1, <1>5 DEF InOrder
  <2>3. Counted'
    BY <1>1, <1>2, <1>5 DEF Counted
  <2> QED BY <1>3, <2>1, <2>2, <2>3 DEF ApiInv
<1>6. CASE ChunkInput
  <2>1. pc = "asked" /\ sent' = sent
    BY <1>6 DEF ChunkInput
  <2>2. CASE pc' \in {"refused", "dropped"} /\ chunks' = chunks
    BY <1>5, <2>1, <2>2
  <2>3. CASE /\ Panic \notin {Chunks[i] : i \in DOMAIN Chunks}
             /\ Chunks = <<>> => ~request.stream
             /\ chunks' = Chunks
             /\ pc' = IF request.stream /\ request.clone THEN "clone" ELSE "wait"
    <3>1. sent = <<>> /\ Len(sent) = 0 /\ sent' = <<>>
      BY <1>1, <2>1 DEF Counted
    <3>2. 1..Len(sent') = {}
      BY <3>1
    <3>3. Chunks \in Seq(Piece) /\ Len(Chunks) \in Nat
      BY <1>1, ChunksSay
    <3>4. DOMAIN Chunks = 1..Len(Chunks)
      BY <3>3, LenProperties
    <3>5. \A k \in 1..Len(Chunks) : Chunks[k] # Panic
      BY <2>3, <3>4
    <3>6. chunks' = Chunks /\ chunks' = Chunks'
      BY <1>3, <2>3
    <3>7. Answered'
      BY <3>5, <3>6 DEF Answered
    <3>8. InOrder'
      BY <1>4, <2>1, <3>2 DEF InOrder
    <3>9. \/ Len(sent') < Len(chunks')
          \/ chunks' = <<>> /\ sent' = <<>> /\ ~request'.stream
      <4>1. Chunks # <<>> => Len(Chunks) # 0
        BY <3>3, EmptySeq
      <4>2. CASE Chunks = <<>>
        BY <1>2, <2>3, <3>1, <3>6, <4>2
      <4>3. CASE Chunks # <<>>
        <5>1. 0 < Len(Chunks)
          BY <3>3, <4>1, <4>3
        <5>2. Len(sent') < Len(Chunks)
          BY <3>1, <5>1
        <5>3. Len(sent') < Len(chunks')
          BY <3>6, <5>2
        <5> QED BY <5>3
      <4> QED BY <4>2, <4>3
    <3>10. pc' \in {"clone", "wait"}
      BY <2>3
    <3>11. Counted'
      BY <3>1, <3>9, <3>10 DEF Counted
    <3> QED BY <1>3, <3>7, <3>8, <3>11 DEF ApiInv
  <2>4. \/ pc' \in {"refused", "dropped"} /\ chunks' = chunks
        \/ /\ Panic \notin {Chunks[i] : i \in DOMAIN Chunks}
           /\ Chunks = <<>> => ~request.stream
           /\ chunks' = Chunks
           /\ pc' = IF request.stream /\ request.clone THEN "clone" ELSE "wait"
    <3> HIDE DEF Chunks
    <3> QED BY <1>6 DEF ChunkInput
  <2> QED BY <2>2, <2>3, <2>4
<1>7. CASE PrepareCloneData
  <2>1. pc = "clone" /\ UNCHANGED <<chunks, sent>> /\ pc' \in {"wait", "refused", "dropped"}
    BY <1>7 DEF PrepareCloneData
  <2>2. CASE pc' = "wait"
    <3>1. Answered'
      BY <1>1, <1>3, <2>1, <2>2 DEF Answered
    <3>2. InOrder'
      BY <1>1, <2>1 DEF InOrder
    <3>3. Counted'
      BY <1>1, <1>2, <2>1, <2>2 DEF Counted
    <3> QED BY <1>3, <3>1, <3>2, <3>3 DEF ApiInv
  <2>3. CASE pc' \in {"refused", "dropped"}
    BY <1>5, <2>1, <2>3
  <2> QED BY <2>1, <2>2, <2>3
<1>8. CASE Lock
  <2>1. pc = "wait" /\ UNCHANGED <<request, chunks>>
    BY <1>8 DEF Lock
  <2>2. CASE Report(Error)
    BY <2>1, <2>2, ReportInv
  <2>3. CASE chunks = <<>> /\ pc' = "done" /\ UNCHANGED sent
    <3>1. Answered'
      BY <1>1, <1>3, <2>1, <2>3 DEF Answered
    <3>2. InOrder'
      BY <1>1, <2>1, <2>3 DEF InOrder
    <3>3. Len(sent) = Len(chunks)
      <4>1. Len(chunks) = 0
        BY <2>3
      <4>2. ~(Len(sent) < Len(chunks))
        BY <1>4, <4>1
      <4>3. sent = <<>>
        BY <1>1, <2>1, <4>2 DEF Counted
      <4> QED BY <2>3, <4>3
    <3>4. Counted'
      BY <2>1, <2>3, <3>3 DEF Counted
    <3> QED BY <1>3, <3>1, <3>2, <3>4 DEF ApiInv
  <2>4. CASE chunks # <<>> /\ pc' = "speak" /\ UNCHANGED sent
    <3>1. Answered'
      BY <1>1, <1>3, <2>1, <2>4 DEF Answered
    <3>2. InOrder'
      BY <1>1, <2>1, <2>4 DEF InOrder
    <3>3. Counted'
      BY <1>1, <2>1, <2>4 DEF Counted
    <3> QED BY <1>3, <3>1, <3>2, <3>3 DEF ApiInv
  <2> QED BY <1>8, <2>2, <2>3, <2>4 DEF Lock
<1>9. CASE Speak
  <2>1. pc = "speak" /\ UNCHANGED <<request, chunks>>
    BY <1>9 DEF Speak
  <2>2. Report(chunks[Len(sent) + 1]) \/ Report(Error)
    BY <1>9 DEF Speak
  <2>3. CASE Report(chunks[Len(sent) + 1])
    BY <2>1, <2>3, ReportInv
  <2>4. CASE Report(Error)
    BY <2>1, <2>4, ReportInv
  <2> QED BY <2>2, <2>3, <2>4
<1>10. CASE Leave
  BY <1>5, <1>10 DEF Leave
<1>11. CASE OtherLocks
  BY <1>5, <1>11 DEF OtherLocks
<1>12. CASE OtherUnlocks
  BY <1>5, <1>12 DEF OtherUnlocks
<1>13. CASE Idle \/ UNCHANGED svars
  BY <1>5, <1>13 DEF Idle, svars
<1> QED BY <1>6, <1>7, <1>8, <1>9, <1>10, <1>11, <1>12, <1>13 DEF ApiNext

\* So the text is said, and no piece is too long.
LEMMA SaysText ==
  ASSUME ApiInv
  PROVE  /\ pc = "done" /\ Error \notin {sent[i] : i \in DOMAIN sent} => Says(sent, request.text)
         /\ \A i \in DOMAIN chunks :
              chunks[i].to - chunks[i].from + 1 <= (IF i = 1 THEN FirstMax ELSE REST_CHUNK_MAX)
<1>1. request \in Requests /\ Answered /\ InOrder /\ Counted
  BY DEF ApiInv
<1>2. /\ Whole(Chunks, request.text, FirstMax, REST_CHUNK_MAX)
      /\ Len(request.text) \in Nat /\ request.text \in Seq(STRING)
      /\ Chunks \in Seq(Piece) /\ Len(Chunks) \in Nat
  BY <1>1, ChunksSay
<1>3. DOMAIN sent = 1..Len(sent) /\ Len(sent) \in Nat
      /\ DOMAIN request.text = 1..Len(request.text)
  BY <1>1, <1>2, LenProperties DEF InOrder
<1>4. ASSUME pc = "done", Error \notin {sent[i] : i \in DOMAIN sent}
      PROVE  Says(sent, request.text)
  <2>1. chunks = Chunks /\ (\A k \in 1..Len(chunks) : chunks[k] # Panic) /\ Len(sent) = Len(chunks)
    BY <1>1, <1>4 DEF Answered, Counted
  <2>2. \A k \in 1..Len(sent) : sent[k] = Chunks[k]
    BY <1>1, <1>3, <1>4, <2>1 DEF InOrder
  <2>3. SaysAll(Chunks, request.text, 1, Len(request.text))
    BY <1>2, <2>1 DEF Whole
  <2>4. SaysAll(sent, request.text, 1, Len(request.text))
    BY <2>1, <2>2, <2>3 DEF SaysAll
  <2> QED BY <1>3, <2>4 DEF Says, SaysAll
<1>5. ASSUME NEW i \in DOMAIN chunks
      PROVE  chunks[i].to - chunks[i].from + 1 <= (IF i = 1 THEN FirstMax ELSE REST_CHUNK_MAX)
  <2>1. chunks # <<>>
    OBVIOUS
  <2>2. chunks = Chunks
    BY <1>1, <2>1 DEF Answered
  <2>3. i \in 1..Len(Chunks)
    BY <1>2, <2>2, LenProperties
  <2> QED BY <1>2, <2>2, <2>3 DEF Whole, Limited
<1> QED BY <1>4, <1>5

-----------------------------------------------------------------------------
(* The sound of an answer.                                                 *)

\* Products and quotients grow with what is multiplied and divided,
LEMMA ProductGrows ==
  ASSUME NEW x \in Nat, NEW y \in Nat, NEW m \in Nat, x <= y
  PROVE  x * m \in Nat /\ y * m \in Nat /\ x * m <= y * m
<1>1. PICK d \in Nat : y = x + d
  <2>1. y - x \in Nat /\ y = x + (y - x)
    OBVIOUS
  <2> QED BY <2>1
<1>2. x * m \in Nat /\ d * m \in Nat
  OBVIOUS
<1>3. y * m = x * m + d * m
  BY <1>1
<1> QED BY <1>2, <1>3

\* There is one quotient,
LEMMA QuotientIs ==
  ASSUME NEW u \in Nat, NEW m \in Nat \ {0}, NEW q \in Nat, q * m <= u, u < q * m + m
  PROVE  u \div m = q
<1> DEFINE r == u \div m
<1>1. r \in Nat /\ r * m \in Nat /\ r * m <= u /\ u < r * m + m
  BY Quotient
<1> HIDE DEF r
<1>2. q * m \in Nat
  OBVIOUS
<1>3. CASE r < q
  <2>1. (r + 1) * m <= q * m
    BY <1>1, <1>3, ProductGrows
  <2>2. (r + 1) * m = r * m + m
    BY <1>1
  <2> QED BY <1>1, <1>2, <2>1, <2>2
<1>4. CASE q < r
  <2>1. (q + 1) * m <= r * m
    BY <1>1, <1>4, ProductGrows
  <2>2. (q + 1) * m = q * m + m
    OBVIOUS
  <2> QED BY <1>1, <1>2, <2>1, <2>2
<1>5. CASE r = q
  BY <1>5 DEF r
<1> QED BY <1>1, <1>3, <1>4, <1>5

\* which grows with what is divided,
LEMMA QuotientGrows ==
  ASSUME NEW u \in Nat, NEW v \in Nat, NEW m \in Nat \ {0}, u <= v
  PROVE  u \div m <= v \div m
<1> DEFINE q == u \div m
           r == v \div m
<1>1. q \in Nat /\ r \in Nat /\ q * m \in Nat /\ q * m <= u /\ r * m \in Nat /\ v < r * m + m
  BY Quotient
<1> HIDE DEF q, r
<1>2. ASSUME r < q PROVE FALSE
  <2>1. (r + 1) * m <= q * m
    BY <1>1, <1>2, ProductGrows
  <2>2. (r + 1) * m = r * m + m
    BY <1>1
  <2> QED BY <1>1, <2>1, <2>2
<1>3. q <= r
  BY <1>1, <1>2
<1> QED BY <1>3 DEF q, r

\* and a sum's quotient is that of its parts or one more.
LEMMA QuotientOfSum ==
  ASSUME NEW u \in Nat, NEW v \in Nat, NEW m \in Nat \ {0}
  PROVE  (u + v) \div m - (u \div m + v \div m) \in 0..1
<1> DEFINE q == u \div m
           r == v \div m
           s == q + r
<1>1. /\ q \in Nat /\ q * m \in Nat /\ q * m <= u /\ u < q * m + m
      /\ r \in Nat /\ r * m \in Nat /\ r * m <= v /\ v < r * m + m
  BY Quotient
<1> HIDE DEF q, r
<1>2. s \in Nat /\ s * m = q * m + r * m /\ (s + 1) * m = q * m + r * m + m
  BY <1>1
<1> HIDE DEF s
<1>3. CASE u + v < q * m + r * m + m
  <2>1. s * m <= u + v /\ u + v < s * m + m /\ u + v \in Nat
    BY <1>1, <1>2, <1>3
  <2>2. (u + v) \div m = s
    BY <1>2, <2>1, QuotientIs
  <2> QED BY <1>2, <2>2 DEF q, r, s
<1>4. CASE ~(u + v < q * m + r * m + m)
  <2>1. (s + 1) * m <= u + v /\ u + v < (s + 1) * m + m /\ u + v \in Nat
    BY <1>1, <1>2, <1>4
  <2>2. s + 1 \in Nat
    BY <1>2
  <2>3. (u + v) \div m = s + 1
    BY <2>1, <2>2, QuotientIs
  <2> QED BY <1>2, <2>3 DEF q, r, s
<1> QED BY <1>3, <1>4

\* A quotient leaves nothing when it is exact.
LEMMA Exact ==
  ASSUME NEW u \in Nat, NEW m \in Nat \ {0}
  PROVE  u % m = 0 <=> u = (u \div m) * m
<1>1. u % m \in Nat /\ u = m * (u \div m) + (u % m)
  OBVIOUS
<1>2. u \div m \in Nat
  BY Quotient
<1>3. m * (u \div m) = (u \div m) * m /\ (u \div m) * m \in Nat
  BY <1>2
<1> QED BY <1>1, <1>3

-----------------------------------------------------------------------------
(* What interpolation keeps.                                               *)

\* Sound: no sample is silent, and they follow each other.
Ordered(x) ==
  /\ x \in Seq(SUBSET Nat)
  /\ \A k \in 1..Len(x) : x[k] # {}
  /\ \A j, k \in 1..Len(x) : j <= k => Precedes(x[j], x[k])

\* What the samples are made of, together.
Sound(x) == UNION {x[k] : k \in 1..Len(x)}

\* Where the i-th sample is taken from, and whether the next is mixed in.
At(i, num, den) == ((i - 1) * den) \div num + 1
Mixed(i, n, num, den) == At(i, num, den) < n /\ ((i - 1) * den) % num # 0

\* What is interpolated, in these words.
LEMMA InterpolatedIs ==
  ASSUME NEW x, NEW num, NEW den
  PROVE  Interpolated(x, num, den) =
           [i \in 1..((Len(x) * num) \div den) |->
              x[At(i, num, den)] \cup
              (IF Mixed(i, Len(x), num, den) THEN x[At(i, num, den) + 1] ELSE {})]
BY DEF Interpolated, At, Mixed

\* Every sample is taken from one that is there.
LEMMA AtIs ==
  ASSUME NEW n \in Nat, NEW num \in Nat \ {0}, NEW den \in Nat \ {0},
         NEW i \in 1..((n * num) \div den)
  PROVE  At(i, num, den) \in 1..n
<1> DEFINE len == (n * num) \div den
           u == (i - 1) * den
           q == u \div num
<1>1. n * num \in Nat
  OBVIOUS
<1>2. len \in Nat /\ len * den \in Nat /\ len * den <= n * num
  BY <1>1, Quotient
<1>3. i \in Nat /\ i - 1 \in Nat /\ i <= len /\ 1 <= i
  BY <1>2
<1> HIDE DEF len
<1>4. i * den <= len * den /\ i * den \in Nat
  BY <1>2, <1>3, ProductGrows
<1>5. u \in Nat /\ i * den = u + den
  BY <1>3
<1>6. u < n * num
  BY <1>1, <1>2, <1>4, <1>5
<1> HIDE DEF u
<1>7. q \in Nat /\ q * num \in Nat /\ q * num <= u
  BY <1>5, Quotient
<1> HIDE DEF q
<1>8. ASSUME n <= q PROVE FALSE
  <2>1. n * num <= q * num
    BY <1>7, <1>8, ProductGrows
  <2> QED BY <1>1, <1>5, <1>6, <1>7, <2>1
<1>9. q + 1 \in 1..n
  BY <1>7, <1>8
<1> QED BY <1>9 DEF At, q, u

\* Later ones are taken from later ones, and what is mixed into one is mixed into the
\* later ones taken from the same place.
LEMMA AtGrows ==
  ASSUME NEW n \in Nat, NEW num \in Nat \ {0}, NEW den \in Nat \ {0},
         NEW i \in Nat \ {0}, NEW k \in Nat \ {0}, i <= k
  PROVE  /\ At(i, num, den) <= At(k, num, den)
         /\ At(i, num, den) \in Nat /\ At(k, num, den) \in Nat
         /\ At(i, num, den) = At(k, num, den) /\ Mixed(i, n, num, den) => Mixed(k, n, num, den)
<1> DEFINE u == (i - 1) * den
           v == (k - 1) * den
           q == u \div num
           r == v \div num
<1>1. u \in Nat /\ v \in Nat /\ u <= v
  <2>1. i - 1 \in Nat /\ k - 1 \in Nat /\ i - 1 <= k - 1
    OBVIOUS
  <2> QED BY <2>1, ProductGrows
<1> HIDE DEF u, v
<1>2. q \in Nat /\ r \in Nat /\ q * num \in Nat /\ q * num <= u
  BY <1>1, Quotient
<1>3. q <= r
  BY <1>1, QuotientGrows
<1>4. At(i, num, den) = q + 1 /\ At(k, num, den) = r + 1
  BY DEF At, u, v
<1>5. Mixed(i, n, num, den) <=> (q + 1 < n /\ u % num # 0)
  BY DEF Mixed, At, u, v
<1>6. Mixed(k, n, num, den) <=> (r + 1 < n /\ v % num # 0)
  BY DEF Mixed, At, u, v
<1>7. u % num = 0 <=> u = q * num
  BY <1>1, Exact
<1>8. v % num = 0 <=> v = r * num
  BY <1>1, Exact
<1> HIDE DEF q, r
<1>9. ASSUME q + 1 = r + 1, Mixed(i, n, num, den) PROVE Mixed(k, n, num, den)
  <2>1. q = r
    BY <1>2, <1>9
  <2>2. u # q * num /\ r + 1 < n
    BY <1>5, <1>7, <1>9, <2>1
  <2>3. v # r * num
    BY <1>1, <1>2, <2>1, <2>2
  <2> QED BY <1>6, <1>8, <2>2, <2>3
<1> QED BY <1>2, <1>3, <1>4, <1>9

\* When there are no fewer samples than before, each is heard in one of them.
LEMMA AtEach ==
  ASSUME NEW n \in Nat, NEW num \in Nat \ {0}, NEW den \in Nat \ {0}, den <= num, NEW p \in 1..n
  PROVE  \E i \in 1..((n * num) \div den) :
           At(i, num, den) = p \/ (At(i, num, den) + 1 = p /\ Mixed(i, n, num, den))
<1> DEFINE w == p * num
           i == w \div den
           u == (i - 1) * den
           q == u \div num
<1>1. p \in Nat \ {0} /\ p <= n /\ p - 1 \in Nat
  OBVIOUS
<1>2. /\ w \in Nat /\ n * num \in Nat /\ w <= n * num
      /\ w = (p - 1) * num + num /\ (p - 1) * num \in Nat
  <2>1. w \in Nat /\ n * num \in Nat /\ w <= n * num
    BY <1>1, ProductGrows
  <2>2. w = (p - 1) * num + num /\ (p - 1) * num \in Nat
    BY <1>1
  <2> QED BY <2>1, <2>2
<1> HIDE DEF w
<1>3. i \in Nat /\ i * den \in Nat /\ i * den <= w /\ w < i * den + den
  BY <1>2, Quotient
<1>4. i <= (n * num) \div den /\ (n * num) \div den \in Nat
  BY <1>2, Quotient, QuotientGrows
<1> HIDE DEF i
<1>5. i # 0
  <2>1. i = 0 => i * den = 0
    OBVIOUS
  <2> QED BY <1>2, <1>3, <2>1
<1>6. i \in 1..((n * num) \div den) /\ i - 1 \in Nat
  BY <1>3, <1>4, <1>5
<1>7. u \in Nat /\ u + den = i * den
  BY <1>3, <1>6
<1> HIDE DEF u
<1>8. u < w /\ w < u + den + den
  BY <1>2, <1>3, <1>7
<1>9. q \in Nat /\ q * num \in Nat /\ q * num <= u /\ u < q * num + num
  BY <1>7, Quotient
<1>10. At(i, num, den) = q + 1
  BY DEF At, u
<1>11. Mixed(i, n, num, den) <=> (q + 1 < n /\ u % num # 0)
  BY DEF Mixed, At, u
<1>12. u % num = 0 <=> u = q * num
  BY <1>7, Exact
<1> HIDE DEF q
<1>13. q < p
  <2> SUFFICES ASSUME p <= q PROVE FALSE
    BY <1>1, <1>9
  <2>1. w <= q * num
    BY <1>1, <1>9, ProductGrows DEF w
  <2> QED BY <1>2, <1>7, <1>8, <1>9, <2>1
<1>14. p <= q + 2
  <2> SUFFICES ASSUME q + 3 <= p PROVE FALSE
    BY <1>1, <1>9
  <2>1. (q + 3) * num <= w /\ (q + 3) * num \in Nat
    BY <1>1, <1>9, ProductGrows DEF w
  <2>2. (q + 3) * num = q * num + num + num + num
    BY <1>9
  <2> QED BY <1>2, <1>7, <1>8, <1>9, <2>1, <2>2
<1>15. CASE q + 1 = p
  BY <1>6, <1>10, <1>15
<1>16. CASE q + 2 = p
  <2>1. q + 1 < n
    BY <1>1, <1>9, <1>16
  <2>2. w = q * num + num + num
    <3>1. (q + 2) * num = q * num + num + num
      BY <1>9
    <3> QED BY <1>16, <3>1 DEF w
  <2>3. u # q * num
    BY <1>7, <1>8, <1>9, <2>2
  <2>4. Mixed(i, n, num, den)
    BY <1>11, <1>12, <2>1, <2>3
  <2>5. At(i, num, den) + 1 = p
    BY <1>9, <1>10, <1>16
  <2> QED BY <1>6, <2>4, <2>5
<1>17. q + 1 = p \/ q + 2 = p
  BY <1>1, <1>9, <1>13, <1>14
<1> QED BY <1>15, <1>16, <1>17

\* A mixture precedes another when each of its parts does.
LEMMA MixturePrecedes ==
  ASSUME NEW a \in SUBSET Nat, NEW b \in SUBSET Nat, NEW c \in SUBSET Nat, NEW d \in SUBSET Nat,
         Precedes(a, c), b = {} \/ b = d \/ Precedes(b, c), d = {} \/ Precedes(a, d)
  PROVE  Precedes(a \cup b, c \cup d)
<1>1. ASSUME NEW s \in a \cup b PROVE \E t \in c \cup d : s <= t
  <2>1. CASE s \in a
    BY <2>1 DEF Precedes
  <2>2. CASE s \in b
    <3>1. CASE b = d
      <4>1. s \in Nat /\ s \in c \cup d
        BY <2>2, <3>1
      <4>2. s <= s
        BY <4>1
      <4> QED BY <4>1, <4>2
    <3>2. CASE Precedes(b, c)
      BY <2>2, <3>2 DEF Precedes
    <3> QED BY <2>2, <3>1, <3>2
  <2> QED BY <2>1, <2>2
<1>2. ASSUME NEW t \in c \cup d PROVE \E s \in a \cup b : s <= t
  <2>1. CASE t \in c
    BY <2>1 DEF Precedes
  <2>2. CASE t \in d
    BY <2>2 DEF Precedes
  <2> QED BY <2>1, <2>2
<1> QED BY <1>1, <1>2 DEF Precedes

\* What is interpolated is as ordered as what it was made of, and when there are no
\* fewer samples than before, no sound is lost.
LEMMA InterpolatedKeeps ==
  ASSUME NEW x, Ordered(x), NEW num \in Nat \ {0}, NEW den \in Nat \ {0}
  PROVE  /\ Ordered(Interpolated(x, num, den))
         /\ Len(Interpolated(x, num, den)) = (Len(x) * num) \div den
         /\ den <= num => Sound(Interpolated(x, num, den)) = Sound(x)
<1> DEFINE n == Len(x)
           len == (n * num) \div den
           at(i) == At(i, num, den)
           mixed(i) == Mixed(i, n, num, den)
           more(i) == IF mixed(i) THEN x[at(i) + 1] ELSE {}
           out == Interpolated(x, num, den)
<1>1. out = [i \in 1..len |-> x[at(i)] \cup more(i)]
  BY InterpolatedIs
<1>2. /\ x \in Seq(SUBSET Nat) /\ n \in Nat
      /\ \A k \in 1..n : x[k] \in SUBSET Nat /\ x[k] # {}
  BY LenProperties, ElementOfSeq DEF Ordered
<1>3. \A j, k \in 1..n : j <= k => Precedes(x[j], x[k])
  BY DEF Ordered
<1>4. len \in Nat
  <2>1. n * num \in Nat
    BY <1>2
  <2> QED BY <2>1, Quotient
<1>5. ASSUME NEW i \in 1..len PROVE at(i) \in 1..n
  BY <1>2, AtIs
<1>6. ASSUME NEW i \in 1..len, mixed(i) PROVE at(i) + 1 \in 1..n
  <2>1. at(i) \in 1..n /\ at(i) < n
    BY <1>5, <1>6 DEF Mixed
  <2> HIDE DEF at
  <2> QED BY <1>2, <2>1
<1>7. ASSUME NEW i \in 1..len, NEW k \in 1..len, i <= k
      PROVE  /\ at(i) <= at(k) /\ at(i) \in Nat /\ at(k) \in Nat
             /\ at(i) = at(k) /\ mixed(i) => mixed(k)
  <2>1. i \in Nat \ {0} /\ k \in Nat \ {0}
    BY <1>4
  <2> QED BY <1>2, <1>7, <2>1, AtGrows
<1>8. ASSUME NEW p \in 1..n, den <= num
      PROVE  \E i \in 1..len : at(i) = p \/ (at(i) + 1 = p /\ mixed(i))
  BY <1>2, <1>8, AtEach
<1> HIDE DEF at, mixed, len, out
<1>9. \A i \in 1..len : x[at(i)] \in SUBSET Nat /\ x[at(i)] # {} /\ more(i) \in SUBSET Nat
  BY <1>2, <1>5, <1>6
<1>10. out \in Seq(SUBSET Nat) /\ Len(out) = len
  <2>1. out \in [1..len -> SUBSET Nat]
    BY <1>1, <1>9
  <2> QED BY <1>4, <2>1, LenProperties, SeqDef
<1>11. \A i \in 1..len : out[i] = x[at(i)] \cup more(i)
  BY <1>1
<1>12. ASSUME NEW i \in 1..len, NEW k \in 1..len, i <= k PROVE Precedes(out[i], out[k])
  <2>1. at(i) <= at(k) /\ at(i) \in 1..n /\ at(k) \in 1..n
    BY <1>5, <1>7, <1>12
  <2>2. Precedes(x[at(i)], x[at(k)])
    BY <1>3, <2>1
  <2>3. more(i) = {} \/ more(i) = more(k) \/ Precedes(more(i), x[at(k)])
    <3>1. CASE ~mixed(i)
      BY <3>1
    <3>2. CASE mixed(i) /\ at(i) = at(k)
      <4>1. mixed(k)
        BY <1>7, <1>12, <3>2
      <4> QED BY <3>2, <4>1
    <3>3. CASE mixed(i) /\ at(i) # at(k)
      <4>1. at(i) + 1 \in 1..n /\ at(i) + 1 <= at(k)
        BY <1>6, <2>1, <3>3
      <4>2. Precedes(x[at(i) + 1], x[at(k)])
        BY <1>3, <2>1, <4>1
      <4> QED BY <3>3, <4>2
    <3> QED BY <3>1, <3>2, <3>3
  <2>4. more(k) = {} \/ Precedes(x[at(i)], more(k))
    <3>1. CASE ~mixed(k)
      BY <3>1
    <3>2. CASE mixed(k)
      <4>1. at(k) + 1 \in 1..n /\ at(i) <= at(k) + 1
        BY <1>6, <2>1, <3>2
      <4>2. Precedes(x[at(i)], x[at(k) + 1])
        BY <1>3, <2>1, <4>1
      <4> QED BY <3>2, <4>2
    <3> QED BY <3>1, <3>2
  <2> HIDE DEF more
  <2>5. Precedes(x[at(i)] \cup more(i), x[at(k)] \cup more(k))
    BY <1>9, <2>2, <2>3, <2>4, MixturePrecedes
  <2> QED BY <1>11, <2>5
<1>13. Ordered(out)
  <2>1. \A k \in 1..len : out[k] # {}
    BY <1>9, <1>11
  <2> QED BY <1>10, <1>12, <2>1 DEF Ordered
<1>14. ASSUME den <= num PROVE Sound(out) = Sound(x)
  <2>1. ASSUME NEW s \in Sound(out) PROVE s \in Sound(x)
    <3>1. PICK i \in 1..len : s \in out[i]
      BY <1>10 DEF Sound
    <3>2. s \in x[at(i)] \/ (mixed(i) /\ s \in x[at(i) + 1])
      BY <1>11, <3>1
    <3>3. at(i) \in 1..n /\ (mixed(i) => at(i) + 1 \in 1..n)
      BY <1>5, <1>6
    <3> QED BY <3>2, <3>3 DEF Sound
  <2>2. ASSUME NEW s \in Sound(x) PROVE s \in Sound(out)
    <3>1. PICK p \in 1..n : s \in x[p]
      BY DEF Sound
    <3>2. PICK i \in 1..len : at(i) = p \/ (at(i) + 1 = p /\ mixed(i))
      BY <1>8, <1>14
    <3>3. s \in out[i]
      BY <1>11, <3>1, <3>2
    <3> QED BY <1>10, <3>3 DEF Sound
  <2> QED BY <2>1, <2>2
<1> QED BY <1>10, <1>13, <1>14 DEF out, len

\* One piece behind another.
LEMMA JoinedKeeps ==
  ASSUME NEW x, Ordered(x), NEW y, Ordered(y)
  PROVE  /\ x \o y \in Seq(SUBSET Nat) /\ Len(x \o y) = Len(x) + Len(y)
         /\ Sound(x \o y) = Sound(x) \cup Sound(y)
<1> DEFINE m == Len(x)
           n == Len(y)
           z == x \o y
<1>1. x \in Seq(SUBSET Nat) /\ y \in Seq(SUBSET Nat) /\ m \in Nat /\ n \in Nat
  BY LenProperties DEF Ordered
<1>2. z \in Seq(SUBSET Nat) /\ Len(z) = m + n
  BY <1>1, ConcatProperties
<1>3. \A k \in 1..m + n : z[k] = IF k <= m THEN x[k] ELSE y[k - m]
  BY <1>1, ConcatProperties
<1> HIDE DEF z
<1>4. ASSUME NEW s \in Sound(z) PROVE s \in Sound(x) \cup Sound(y)
  <2>1. PICK k \in 1..m + n : s \in z[k]
    BY <1>2 DEF Sound
  <2>2. CASE k <= m
    <3>1. k \in 1..m /\ s \in x[k]
      BY <1>1, <1>3, <2>1, <2>2
    <3> QED BY <3>1 DEF Sound
  <2>3. CASE ~(k <= m)
    <3>1. k - m \in 1..n /\ s \in y[k - m]
      BY <1>1, <1>3, <2>1, <2>3
    <3> QED BY <3>1 DEF Sound
  <2> QED BY <2>2, <2>3
<1>5. ASSUME NEW s \in Sound(x) PROVE s \in Sound(z)
  <2>1. PICK k \in 1..m : s \in x[k]
    BY DEF Sound
  <2>2. k \in 1..m + n /\ k <= m
    BY <1>1
  <2>3. s \in z[k]
    BY <1>3, <2>1, <2>2
  <2> QED BY <1>2, <2>2, <2>3 DEF Sound
<1>6. ASSUME NEW s \in Sound(y) PROVE s \in Sound(z)
  <2>1. PICK k \in 1..n : s \in y[k]
    BY DEF Sound
  <2>2. m + k \in 1..m + n /\ ~(m + k <= m) /\ (m + k) - m = k
    BY <1>1
  <2>3. s \in z[m + k]
    BY <1>3, <2>1, <2>2
  <2> QED BY <1>2, <2>2, <2>3 DEF Sound
<1>7. Sound(z) = Sound(x) \cup Sound(y)
  BY <1>4, <1>5, <1>6
<1> QED BY <1>2, <1>7 DEF z

\* Two pieces are joined as one behind the other.
LEMMA FlattenTwo ==
  ASSUME NEW S, NEW a \in Seq(S), NEW b \in Seq(S), NEW p, Len(p) = 2, p[1] = a, p[2] = b
  PROVE  FlattenSeq(p) = a \o b
<1> DEFINE Is(f) == f = [i \in 1..Len(p) |-> IF i = 1 THEN p[i] ELSE f[i - 1] \o p[i]]
           flatten == CHOOSE f : Is(f)
           g == [i \in 1..2 |-> IF i = 1 THEN a ELSE a \o b]
<1>1. Is(g)
  <2> DEFINE h == [i \in 1..Len(p) |-> IF i = 1 THEN p[i] ELSE g[i - 1] \o p[i]]
  <2>1. g[1] = a /\ g[2] = a \o b
    OBVIOUS
  <2> HIDE DEF g
  <2>2. h = [i \in 1..2 |-> IF i = 1 THEN a ELSE a \o b]
    <3>1. \A i \in 1..2 : i = 1 \/ i = 2
      OBVIOUS
    <3>2. h = [i \in 1..2 |-> IF i = 1 THEN p[i] ELSE g[i - 1] \o p[i]]
      OBVIOUS
    <3>3. \A i \in 1..2 : (IF i = 1 THEN p[i] ELSE g[i - 1] \o p[i]) = IF i = 1 THEN a ELSE a \o b
      BY <2>1, <3>1
    <3> HIDE DEF h
    <3> QED BY <3>2, <3>3
  <2> QED BY <2>2 DEF g
<1>2. Is(flatten)
  BY <1>1
<1>3. FlattenSeq(p) = flatten[2]
  BY DEF FlattenSeq
<1> HIDE DEF flatten, g
<1>4. flatten[1] = a
  <2>1. 1 \in 1..Len(p)
    OBVIOUS
  <2> QED BY <1>2, <2>1
<1>5. flatten[2] = a \o b
  <2>1. 2 \in 1..Len(p) /\ 2 - 1 = 1 /\ 2 # 1
    OBVIOUS
  <2>2. flatten[2] = flatten[2 - 1] \o p[2]
    BY <1>2, <2>1
  <2> QED BY <1>4, <2>1, <2>2
<1> QED BY <1>3, <1>5

\* Sound that is followed only by silence.
Follows(x) ==
  \A i \in 2..Len(x) : x[i] # {} => x[i - 1] # {} /\ Precedes(x[i - 1], x[i])

\* What is ordered has no silence in it.
LEMMA OrderedFollows ==
  ASSUME NEW x, Ordered(x)
  PROVE  Follows(x)
<1>1. Len(x) \in Nat
  BY LenProperties DEF Ordered
<1>2. ASSUME NEW i \in 2..Len(x) PROVE x[i - 1] # {} /\ Precedes(x[i - 1], x[i])
  <2>1. i \in 1..Len(x) /\ i - 1 \in 1..Len(x) /\ i - 1 <= i
    BY <1>1
  <2> QED BY <2>1 DEF Ordered
<1> QED BY <1>2 DEF Follows

\* The sound of a sequence is what its samples are made of.
LEMMA SoundIs ==
  ASSUME NEW x \in Seq(SUBSET Nat)
  PROVE  UNION Range(x) = Sound(x)
<1>1. DOMAIN x = 1..Len(x)
  BY LenProperties
<1> QED BY <1>1 DEF Range, Sound

\* Neither a speed nor a rate loses any.
LEMMA SpeedKeeps ==
  ASSUME NEW x, Ordered(x), NEW speed \in Speeds
  PROVE  /\ Ordered(ApplySpeed(x, speed))
         /\ Len(ApplySpeed(x, speed)) =
              IF IsOne(speed) THEN Len(x) ELSE (Len(x) * speed[2]) \div speed[1]
         /\ speed[1] <= speed[2] => Sound(ApplySpeed(x, speed)) = Sound(x)
<1>1. speed[1] \in Nat \ {0} /\ speed[2] \in Nat \ {0}
  BY FormatAssumption
<1>2. CASE IsOne(speed)
  <2>1. ApplySpeed(x, speed) = x
    BY <1>2 DEF ApplySpeed
  <2> QED BY <1>2, <2>1
<1>3. CASE ~IsOne(speed)
  <2>1. ApplySpeed(x, speed) = Interpolated(x, speed[2], speed[1])
    BY <1>3 DEF ApplySpeed
  <2>2. /\ Ordered(Interpolated(x, speed[2], speed[1]))
        /\ Len(Interpolated(x, speed[2], speed[1])) = (Len(x) * speed[2]) \div speed[1]
        /\ speed[1] <= speed[2] => Sound(Interpolated(x, speed[2], speed[1])) = Sound(x)
    BY <1>1, InterpolatedKeeps
  <2> QED BY <1>3, <2>1, <2>2
<1> QED BY <1>2, <1>3

\* A rate of a format is no less than that of the engine.
LEMMA RateKeeps ==
  ASSUME NEW x, Ordered(x), NEW rate \in {MP3_RATE, OPUS_RATE}
  PROVE  /\ Ordered(ResampleLinear(x, rate))
         /\ Sound(ResampleLinear(x, rate)) = Sound(x)
<1>1. rate \in Nat \ {0} /\ RATE \in Nat \ {0} /\ RATE <= rate
  BY FormatAssumption
<1>2. CASE rate = RATE
  <2>1. ResampleLinear(x, rate) = x
    BY <1>2 DEF ResampleLinear
  <2> QED BY <2>1
<1>3. CASE rate # RATE
  <2>1. ResampleLinear(x, rate) = Interpolated(x, rate, RATE)
    BY <1>3 DEF ResampleLinear
  <2>2. /\ Ordered(Interpolated(x, rate, RATE))
        /\ Sound(Interpolated(x, rate, RATE)) = Sound(x)
    BY <1>1, InterpolatedKeeps
  <2> QED BY <2>1, <2>2
<1> QED BY <1>2, <1>3

\* The silence behind the last frame is the end.
LEMMA FramesKeep ==
  ASSUME NEW x, Ordered(x)
  PROVE  /\ OpusFrames(x) \in Seq(SUBSET Nat)
         /\ Follows(OpusFrames(x)) /\ Sound(OpusFrames(x)) = Sound(x)
<1> DEFINE n == Len(x)
           frames == (n + OPUS_FRAME - 1) \div OPUS_FRAME
           len == frames * OPUS_FRAME
           out == OpusFrames(x)
<1>1. /\ x \in Seq(SUBSET Nat) /\ n \in Nat /\ OPUS_FRAME \in Nat \ {0}
      /\ \A k \in 1..n : x[k] \in SUBSET Nat
  BY FormatAssumption, LenProperties, ElementOfSeq DEF Ordered
<1>2. len \in Nat /\ n <= len
  <2>1. n + OPUS_FRAME - 1 \in Nat
    BY <1>1
  <2>2. frames * OPUS_FRAME \in Nat /\ n + OPUS_FRAME - 1 < frames * OPUS_FRAME + OPUS_FRAME
    BY <1>1, <2>1, Quotient
  <2> HIDE DEF frames
  <2> QED BY <1>1, <2>2
<1>3. out = [i \in 1..len |-> IF i <= n THEN x[i] ELSE {}]
  BY DEF OpusFrames
<1> HIDE DEF len, out
<1>4. out \in Seq(SUBSET Nat) /\ Len(out) = len
  <2>1. \A i \in 1..len : (IF i <= n THEN x[i] ELSE {}) \in SUBSET Nat
    BY <1>1, <1>2
  <2>2. out \in [1..len -> SUBSET Nat]
    BY <1>3, <2>1
  <2> QED BY <1>2, <2>2, LenProperties, SeqDef
<1>5. \A i \in 1..len : out[i] = IF i <= n THEN x[i] ELSE {}
  BY <1>3
<1>6. ASSUME NEW i \in 2..len, out[i] # {} PROVE out[i - 1] # {} /\ Precedes(out[i - 1], out[i])
  <2>1. i \in 1..len /\ i - 1 \in 1..len
    BY <1>2
  <2>2. i <= n
    BY <1>5, <1>6, <2>1
  <2>3. i \in 2..n /\ i - 1 <= n
    BY <1>1, <2>2
  <2>4. out[i] = x[i] /\ out[i - 1] = x[i - 1]
    BY <1>5, <2>1, <2>2, <2>3
  <2>5. x[i] # {} => x[i - 1] # {} /\ Precedes(x[i - 1], x[i])
    BY <2>3, OrderedFollows DEF Follows
  <2> QED BY <1>6, <2>4, <2>5
<1>7. Sound(out) = Sound(x)
  <2>1. ASSUME NEW s \in Sound(out) PROVE s \in Sound(x)
    <3>1. PICK i \in 1..len : s \in out[i]
      BY <1>4 DEF Sound
    <3>2. i <= n /\ s \in x[i]
      BY <1>5, <3>1
    <3>3. i \in 1..n
      BY <1>1, <3>2
    <3> QED BY <3>2, <3>3 DEF Sound
  <2>2. ASSUME NEW s \in Sound(x) PROVE s \in Sound(out)
    <3>1. PICK i \in 1..n : s \in x[i]
      BY DEF Sound
    <3>2. i \in 1..len /\ i <= n
      BY <1>1, <1>2
    <3>3. s \in out[i]
      BY <1>5, <3>1, <3>2
    <3> QED BY <1>4, <3>2, <3>3 DEF Sound
  <2> QED BY <2>1, <2>2
<1>8. Follows(out)
  BY <1>4, <1>6 DEF Follows
<1> QED BY <1>4, <1>7, <1>8 DEF out

\* In every format.
LEMMA EncodeKeeps ==
  ASSUME NEW x, Ordered(x), NEW format \in Formats
  PROVE  /\ Follows(EncodeAudio(x, format))
         /\ UNION Range(EncodeAudio(x, format)) = Sound(x)
<1>1. CASE format \in {"wav", "pcm", "flac"}
  <2>1. EncodeAudio(x, format) = x
    BY <1>1 DEF EncodeAudio, EncodePlain
  <2>2. UNION Range(x) = Sound(x)
    BY SoundIs DEF Ordered
  <2> QED BY <2>1, <2>2, OrderedFollows
<1>2. CASE format = "mp3"
  <2> DEFINE y == ResampleLinear(x, MP3_RATE)
  <2>1. EncodeAudio(x, format) = y
    BY <1>2 DEF EncodeAudio, EncodeMp3
  <2>2. Ordered(y) /\ Sound(y) = Sound(x)
    BY RateKeeps
  <2> HIDE DEF y
  <2>3. UNION Range(y) = Sound(y)
    BY <2>2, SoundIs DEF Ordered
  <2> QED BY <2>1, <2>2, <2>3, OrderedFollows
<1>3. CASE format \in {"ogg", "opus"}
  <2> DEFINE y == ResampleLinear(x, OPUS_RATE)
             z == OpusFrames(y)
  <2>1. EncodeAudio(x, format) = z
    BY <1>3 DEF EncodeAudio, EncodeOggOpus
  <2>2. Ordered(y) /\ Sound(y) = Sound(x)
    BY RateKeeps
  <2> HIDE DEF y
  <2>3. z \in Seq(SUBSET Nat) /\ Follows(z) /\ Sound(z) = Sound(y)
    BY <2>2, FramesKeep
  <2> HIDE DEF z
  <2>4. UNION Range(z) = Sound(z)
    BY <2>3, SoundIs
  <2> QED BY <2>1, <2>2, <2>3, <2>4
<1> QED BY <1>1, <1>2, <1>3 DEF Formats

\* The engine's samples, from one place on.
Engine(a, n) == [i \in 1..n |-> {a + i}]

\* They are ordered, and all of their sound is theirs.
LEMMA EngineIs ==
  ASSUME NEW a \in Nat, NEW n \in Nat
  PROVE  Ordered(Engine(a, n)) /\ Len(Engine(a, n)) = n /\ Sound(Engine(a, n)) = a + 1..a + n
<1> DEFINE x == Engine(a, n)
<1>1. x = [i \in 1..n |-> {a + i}]
  BY DEF Engine
<1> HIDE DEF x
<1>2. \A i \in 1..n : x[i] = {a + i} /\ x[i] \in SUBSET Nat /\ x[i] # {}
  BY <1>1
<1>3. x \in Seq(SUBSET Nat) /\ Len(x) = n
  <2>1. x \in [1..n -> SUBSET Nat]
    BY <1>1, <1>2
  <2> QED BY <2>1, LenProperties, SeqDef
<1>4. ASSUME NEW j \in 1..n, NEW k \in 1..n, j <= k PROVE Precedes(x[j], x[k])
  <2>1. x[j] = {a + j} /\ x[k] = {a + k} /\ a + j <= a + k
    BY <1>2, <1>4
  <2> QED BY <2>1 DEF Precedes
<1>5. Sound(x) = a + 1..a + n
  <2>1. ASSUME NEW s \in Sound(x) PROVE s \in a + 1..a + n
    <3>1. PICK i \in 1..n : s \in x[i]
      BY <1>3 DEF Sound
    <3>2. s = a + i
      BY <1>2, <3>1
    <3> QED BY <3>2
  <2>2. ASSUME NEW s \in a + 1..a + n PROVE s \in Sound(x)
    <3>1. s - a \in 1..n /\ s = a + (s - a)
      OBVIOUS
    <3>2. s \in x[s - a]
      BY <1>2, <3>1
    <3> QED BY <1>3, <3>1, <3>2 DEF Sound
  <2> QED BY <2>1, <2>2
<1> QED BY <1>2, <1>3, <1>4, <1>5 DEF Ordered, x

\* Two pieces are one.
LEMMA EngineJoined ==
  ASSUME NEW m \in Nat, NEW n \in Nat
  PROVE  Engine(0, m) \o Engine(m, n) = Engine(0, m + n)
<1> DEFINE x == Engine(0, m)
           y == Engine(m, n)
           z == Engine(0, m + n)
           w == x \o y
<1>1. x \in Seq(SUBSET Nat) /\ Len(x) = m /\ y \in Seq(SUBSET Nat) /\ Len(y) = n
  <2>1. 0 \in Nat
    OBVIOUS
  <2> HIDE DEF x, y
  <2>2. Ordered(x) /\ Len(x) = m /\ Ordered(y) /\ Len(y) = n
    BY <2>1, EngineIs DEF x, y
  <2> QED BY <2>2 DEF Ordered
<1>2. z \in Seq(SUBSET Nat) /\ Len(z) = m + n
  <2>1. 0 \in Nat /\ m + n \in Nat
    OBVIOUS
  <2> HIDE DEF z
  <2>2. Ordered(z) /\ Len(z) = m + n
    BY <2>1, EngineIs DEF z
  <2> QED BY <2>2 DEF Ordered
<1>3. \A i \in 1..m : x[i] = {i}
  BY DEF Engine
<1>4. \A i \in 1..n : y[i] = {m + i}
  BY DEF Engine
<1>5. \A i \in 1..m + n : z[i] = {i}
  BY DEF Engine
<1> HIDE DEF x, y, z
<1>6. /\ w \in Seq(SUBSET Nat) /\ Len(w) = m + n
      /\ \A i \in 1..m + n : w[i] = IF i <= m THEN x[i] ELSE y[i - m]
  BY <1>1, ConcatProperties
<1> HIDE DEF w
<1>7. \A i \in 1..m + n : w[i] = z[i]
  <2> SUFFICES ASSUME NEW i \in 1..m + n PROVE w[i] = z[i]
    OBVIOUS
  <2>1. CASE i <= m
    <3>1. i \in 1..m
      BY <2>1
    <3> QED BY <1>3, <1>5, <1>6, <2>1, <3>1
  <2>2. CASE ~(i <= m)
    <3>1. i - m \in 1..n /\ m + (i - m) = i
      BY <2>2
    <3> QED BY <1>4, <1>5, <1>6, <2>2, <3>1
  <2> QED BY <2>1, <2>2
<1>8. w = z
  BY <1>2, <1>6, <1>7, SeqEqual
<1> QED BY <1>8 DEF w, x, y, z

\* What SoundIsKept says of two pieces and a speed.
Kept(m, n, speed) ==
  LET pieces == << [i \in 1..m |-> {i}], [i \in 1..n |-> {m + i}] >>
      stream == SpeechStream(pieces, speed)
      whole == SpeechFull(pieces, speed, "pcm")
      slow == speed[1] <= speed[2]
  IN  /\ Len(whole) - Len(stream) \in 0..1
      /\ slow => UNION Range(stream) = 1..(m + n)
      /\ \A format \in Formats :
           LET out == SpeechFull(pieces, speed, format)
           IN  /\ slow => UNION Range(out) = 1..(m + n)
               /\ \A i \in 2..Len(out) : out[i] # {} =>
                    out[i - 1] # {} /\ Precedes(out[i - 1], out[i])

\* Whatever the sizes, the speed and the format, the sound is kept.
LEMMA TwoKept ==
  ASSUME NEW m \in Nat, NEW n \in Nat, NEW speed \in Speeds
  PROVE  Kept(m, n, speed)
<1> DEFINE x == Engine(0, m)
           y == Engine(m, n)
           z == Engine(0, m + n)
           pieces == << [i \in 1..m |-> {i}], [i \in 1..n |-> {m + i}] >>
           stream == SpeechStream(pieces, speed)
           whole(format) == SpeechFull(pieces, speed, format)
           slow == speed[1] <= speed[2]
           num == speed[2]
           den == speed[1]
           a == ApplySpeed(x, speed)
           b == ApplySpeed(y, speed)
           c == ApplySpeed(z, speed)
<1>1. Ordered(x) /\ Len(x) = m /\ Sound(x) = 1..m
  <2>1. 0 + 1 = 1 /\ 0 + m = m
    OBVIOUS
  <2> QED BY <2>1, EngineIs
<1>2. Ordered(y) /\ Len(y) = n /\ Sound(y) = m + 1..m + n
  BY EngineIs
<1>3. Ordered(z) /\ Len(z) = m + n /\ Sound(z) = 1..m + n
  <2>1. 0 + 1 = 1 /\ 0 + (m + n) = m + n /\ m + n \in Nat
    OBVIOUS
  <2> QED BY <2>1, EngineIs
<1>4. Ordered(a) /\ (slow => Sound(a) = Sound(x))
      /\ Len(a) = IF IsOne(speed) THEN m ELSE (m * num) \div den
  BY <1>1, SpeedKeeps
<1>5. Ordered(b) /\ (slow => Sound(b) = Sound(y))
      /\ Len(b) = IF IsOne(speed) THEN n ELSE (n * num) \div den
  BY <1>2, SpeedKeeps
<1>6. Ordered(c) /\ (slow => Sound(c) = Sound(z))
      /\ Len(c) = IF IsOne(speed) THEN m + n ELSE ((m + n) * num) \div den
  BY <1>3, SpeedKeeps
<1>7. pieces = <<x, y>>
  <2>1. x = [i \in 1..m |-> {i}]
    BY DEF Engine
  <2>2. y = [i \in 1..n |-> {m + i}]
    BY DEF Engine
  <2> QED BY <2>1, <2>2
<1>8. FlattenSeq(pieces) = z
  <2>1. x \in Seq(SUBSET Nat) /\ y \in Seq(SUBSET Nat)
    BY <1>1, <1>2 DEF Ordered
  <2> DEFINE p == <<x, y>>
  <2>2. Len(p) = 2 /\ p[1] = x /\ p[2] = y
    OBVIOUS
  <2> HIDE DEF x, y, p
  <2>3. FlattenSeq(p) = x \o y
    BY <2>1, <2>2, FlattenTwo
  <2>4. x \o y = z
    BY EngineJoined DEF x, y
  <2> HIDE DEF pieces, z
  <2> QED BY <1>7, <2>3, <2>4 DEF p
<1>9. stream = a \o b
  <2> DEFINE p == [k \in DOMAIN pieces |-> ApplySpeed(pieces[k], speed)]
  <2>1. DOMAIN pieces = 1..2 /\ pieces[1] = x /\ pieces[2] = y
    <3> HIDE DEF x, y, pieces
    <3> QED BY <1>7
  <2> HIDE DEF x, y, pieces
  <2>2. p = [k \in 1..2 |-> ApplySpeed(pieces[k], speed)]
    BY <2>1
  <2> HIDE DEF p
  <2>3. p[1] = a /\ p[2] = b
    BY <2>1, <2>2
  <2>4. Len(p) = 2
    BY <2>2
  <2>5. a \in Seq(SUBSET Nat) /\ b \in Seq(SUBSET Nat)
    BY <1>4, <1>5 DEF Ordered
  <2> HIDE DEF a, b
  <2>6. FlattenSeq(p) = a \o b
    BY <2>3, <2>4, <2>5, FlattenTwo
  <2> QED BY <2>6 DEF SpeechStream, p
<1>10. \A format : whole(format) = EncodeAudio(c, format)
  <2> HIDE DEF pieces, z
  <2> QED BY <1>8 DEF SpeechFull
<1> HIDE DEF x, y, z, pieces, a, b, c, stream, whole
<1>11. den \in Nat \ {0} /\ num \in Nat \ {0}
  BY FormatAssumption
<1>12. /\ a \o b \in Seq(SUBSET Nat) /\ Len(a \o b) = Len(a) + Len(b)
       /\ Sound(a \o b) = Sound(a) \cup Sound(b)
  BY <1>4, <1>5, JoinedKeeps
<1>13. Len(whole("pcm")) - Len(stream) \in 0..1
  <2>1. whole("pcm") = c
    BY <1>10 DEF EncodeAudio, EncodePlain
  <2>2. CASE IsOne(speed)
    <3>1. Len(a) = m /\ Len(b) = n /\ Len(c) = m + n
      BY <1>4, <1>5, <1>6, <2>2
    <3> QED BY <1>9, <1>12, <2>1, <3>1
  <2>3. CASE ~IsOne(speed)
    <3> DEFINE u == m * num
               v == n * num
    <3>1. u \in Nat /\ v \in Nat /\ (m + n) * num = u + v
      BY <1>11
    <3>2. Len(a) = u \div den /\ Len(b) = v \div den
      BY <1>4, <1>5, <2>3
    <3>3. Len(c) = ((m + n) * num) \div den
      BY <1>6, <2>3
    <3>4. (u + v) \div den - (u \div den + v \div den) \in 0..1
      BY <1>11, <3>1, QuotientOfSum
    <3> HIDE DEF u, v, num, den
    <3>5. Len(c) - (Len(a) + Len(b)) \in 0..1
      BY <3>1, <3>2, <3>3, <3>4
    <3> QED BY <1>9, <1>12, <2>1, <3>5
  <2> QED BY <2>2, <2>3
<1>14. slow => UNION Range(stream) = 1..(m + n)
  <2>1. UNION Range(a \o b) = Sound(a) \cup Sound(b)
    BY <1>12, SoundIs
  <2>2. 1..m \cup m + 1..m + n = 1..m + n
    OBVIOUS
  <2> QED BY <1>1, <1>2, <1>4, <1>5, <1>9, <2>1, <2>2
<1>15. ASSUME NEW format \in Formats
       PROVE  /\ slow => UNION Range(whole(format)) = 1..(m + n)
              /\ Follows(whole(format))
  <2>1. Follows(EncodeAudio(c, format)) /\ UNION Range(EncodeAudio(c, format)) = Sound(c)
    BY <1>6, EncodeKeeps
  <2> QED BY <1>3, <1>6, <1>10, <2>1
<1> QED BY <1>13, <1>14, <1>15 DEF Kept, Follows, stream, whole, pieces

\* Neither the speed nor the format loses any sound of an answer (routes.rs apply_speed,
\* encode.rs), at every rate, speed and frame size the assumption allows.
THEOREM SoundIsAlwaysKept == SoundIsKept
<1>1. ASSUME NEW m \in 0..MaxSound, NEW n \in 0..MaxSound, NEW speed \in Speeds
      PROVE  Kept(m, n, speed)
  <2>1. m \in Nat /\ n \in Nat
    OBVIOUS
  <2> QED BY <2>1, TwoKept
<1> QED BY <1>1 DEF SoundIsKept, Kept

\* An answer that ends as done says the whole text once and in order (chunking.rs
\* chunk_text, routes.rs speech), whatever the text, the limits and the order in which
\* requests take the models.
THEOREM NothingIsUnsaid == ApiSpec => []NothingUnsaid
<1>1. ApiInv => NothingUnsaid
  BY SaysText, SoundIsAlwaysKept DEF NothingUnsaid
<1> QED BY <1>1, ApiInitInv, ApiNextInv, PTL DEF ApiSpec
=============================================================================
