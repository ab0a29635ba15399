------------------------ MODULE NativePipelineProofs ------------------------
(***************************************************************************)
(* Proofs about NativeStream.tla and the modules that NativePipeline.tla   *)
(* composes with it.  For every cap, batch size and text: no codec frame   *)
(* is decoded twice or out of order, none is missing from the audio of a   *)
(* synthesis that ends by itself, and the loop keeps the engine contract   *)
(* that Worker.tla relies on.  For every prompt, cache and growth step:    *)
(* talker and predictor attend to everything they were fed.  For every     *)
(* vocoder layer, kernel, stride and sequence of batches: the batches give *)
(* what one decoding of all the frames gives, up to the bias that the code *)
(* carries over each border.  For every entry point, text and reference:   *)
(* the talker is fed each token once and in order, and the reference's     *)
(* frames hear all of its recording.                                       *)
(***************************************************************************)
EXTENDS NativePipeline, FiniteSetTheorems, SequenceTheorems, WellFoundedInduction, TLAPS

\* The batch holds the frames after the decoded ones, up to the last generated.
Follows == /\ Len(decoded) + Len(pending) = step
           /\ \A i \in 1..Len(pending) : pending[i] = Len(decoded) + i

\* As long as the caller wants more, what it was offered and the batch together
\* are all the frames generated; a refusal freezes the decoded ones.
FrameInv ==
  /\ pending \in Seq(Nat) /\ decoded \in Seq(Nat)
  /\ decoded = UpTo(Len(decoded))
  /\ keep /\ req.vocoder => offered = decoded
  /\ keep /\ req.vocoder /\ pc \in {"decode", "chunk", "tail"} => Follows
  /\ keep /\ req.vocoder /\ pc \in {"return", "returned"} => Len(decoded) = step

\* A refusal leaves the loop, and it is the reason that is reported.
ControlInv ==
  /\ step \in Nat /\ offers \in Nat
  /\ pc \in {"decode", "chunk", "tail", "return", "returned"}
  /\ pc \in {"decode", "chunk"} => keep /\ stop = "cap"
  /\ keep => stop \in {"eos", "cap"}
  /\ ~keep => stop = "cancelled"

IInv == FrameInv /\ ControlInv
-----------------------------------------------------------------------------
(***************************************************************************)
(* Sequences.                                                              *)
(***************************************************************************)
LEMMA UpToType == ASSUME NEW n \in Nat PROVE UpTo(n) \in Seq(Nat) /\ Len(UpTo(n)) = n
  BY DEF UpTo

\* A batch that continues the frames so far makes them one longer run.
LEMMA UpToExtended ==
  ASSUME NEW n \in Nat, NEW p \in Seq(Nat), \A i \in 1..Len(p) : p[i] = n + i
  PROVE  UpTo(n) \o p = UpTo(n + Len(p))
<1>1. /\ Len(UpTo(n) \o p) = n + Len(p) /\ UpTo(n) \o p \in Seq(Nat)
      /\ \A i \in 1..n + Len(p) : (UpTo(n) \o p)[i] = i
  BY UpToType DEF UpTo
<1>2. ASSUME NEW r \in Seq(Nat), NEW m \in Nat, Len(r) = m, \A i \in 1..m : r[i] = i
      PROVE  r = UpTo(m)
  <2>1. r = [i \in 1..m |-> r[i]]
    BY <1>2
  <2> QED BY <1>2, <2>1 DEF UpTo
<1>3. n + Len(p) \in Nat
  OBVIOUS
<1> QED BY <1>1, <1>2, <1>3
-----------------------------------------------------------------------------
(***************************************************************************)
(* The inductive invariant.                                                *)
(***************************************************************************)
LEMMA InitInv == Init => IInv
<1> SUFFICES ASSUME Init PROVE IInv
  OBVIOUS
<1>1. FrameInv
  <2>1. <<>> = UpTo(0)
    BY DEF UpTo
  <2> QED BY <2>1 DEF Init, FrameInv, Follows
<1>2. ControlInv
  BY DEF Init, ControlInv
<1> QED BY <1>1, <1>2 DEF IInv

LEMMA NextControlInv == ControlInv /\ [Next]_vars => ControlInv'
<1> SUFFICES ASSUME ControlInv, [Next]_vars PROVE ControlInv'
  OBVIOUS
<1> USE DEF ControlInv
<1>1. CASE Generate \/ EndOfSpeech \/ HitCap
  BY <1>1 DEF Generate, EndOfSpeech, HitCap
<1>2. ASSUME Deliver
      PROVE  offers' \in Nat /\ (~keep => keep' = keep)
  <2>1. CASE Silenced \/ ~req.vocoder
    BY <1>2, <2>1 DEF Deliver
  <2>2. CASE keep /\ req.vocoder /\ offers' \in {offers, offers + 1}
    BY <2>2
  <2> QED BY <1>2, <2>1, <2>2 DEF Deliver, Silenced
<1>3. CASE ChunkReady
  BY <1>2, <1>3 DEF ChunkReady
<1>4. CASE FinalBatch
  BY <1>2, <1>4 DEF FinalBatch, AfterCallback
<1>5. CASE Return \/ Finished \/ UNCHANGED vars
  BY <1>5 DEF Return, Finished, vars
<1> QED BY <1>1, <1>3, <1>4, <1>5 DEF Next

\* The decoded frames are a run from the first on, and stay one.
LEMMA NextFrameInv == IInv /\ [Next]_vars => FrameInv'
<1> SUFFICES ASSUME IInv, [Next]_vars PROVE FrameInv'
  OBVIOUS
<1> USE DEF IInv, FrameInv, ControlInv, Follows
<1>0. Len(decoded) \in Nat /\ Len(pending) \in Nat /\ step \in Nat
  OBVIOUS
<1>1. CASE Generate
  <2>1. /\ pending' \in Seq(Nat) /\ Len(pending') = Len(pending) + 1
        /\ \A i \in 1..Len(pending) : pending'[i] = pending[i]
        /\ pending'[Len(pending) + 1] = step + 1
    BY <1>0, <1>1 DEF Generate
  <2>2. UNCHANGED <<req, keep, decoded, offered>> /\ step' = step + 1 /\ pc = "decode"
        /\ pc' \in {"decode", "chunk"}
    BY <1>1 DEF Generate
  <2>3. keep /\ req.vocoder => Follows'
    <3> SUFFICES ASSUME keep, req.vocoder PROVE Follows'
      OBVIOUS
    <3>1. Follows
      BY <2>2
    <3>2. Len(decoded') + Len(pending') = step'
      <4>1. Len(decoded) + Len(pending) = step /\ decoded' = decoded
        BY <2>2, <3>1
      <4> HIDE DEF IInv, FrameInv, ControlInv, Follows
      <4>2. Len(decoded) + (Len(pending) + 1) = step + 1
        BY <1>0, <4>1
      <4> QED BY <2>1, <2>2, <4>1, <4>2
    <3>3. ASSUME NEW i \in 1..Len(pending') PROVE pending'[i] = Len(decoded) + i
      <4>1. i \in 1..Len(pending) \/ i = Len(pending) + 1
        BY <1>0, <2>1
      <4> QED BY <1>0, <2>1, <3>1, <4>1
    <3> QED BY <2>2, <3>2, <3>3
  <2> QED BY <2>1, <2>2, <2>3
<1>2. CASE EndOfSpeech \/ HitCap
  BY <1>2 DEF EndOfSpeech, HitCap
<1>3. ASSUME Deliver, req' = req, step' = step, pc \in {"chunk", "tail"}, pending # <<>>
      PROVE  /\ decoded' \in Seq(Nat) /\ decoded' = UpTo(Len(decoded'))
             /\ keep' /\ req.vocoder => offered' = decoded' /\ Len(decoded') = step
  <2>1. CASE ~keep \/ ~req.vocoder
    BY <1>3, <2>1 DEF Deliver, Silenced
  <2>2. CASE keep /\ req.vocoder
    <3>1. decoded' = decoded \o pending /\ (keep' => offered' = offered \o pending)
      BY <1>3, <2>2, Zenon DEF Deliver, Silenced
    <3>2. decoded' = UpTo(step) /\ step = Len(decoded) + Len(pending)
      BY <1>0, <1>3, <2>2, <3>1, UpToExtended
    <3> QED BY <2>2, <3>1, <3>2, UpToType
  <2> QED BY <2>1, <2>2
<1>4. CASE ChunkReady
  <2>1. CASE pending # <<>>
    <3>1. /\ decoded' \in Seq(Nat) /\ decoded' = UpTo(Len(decoded'))
          /\ keep' /\ req.vocoder => offered' = decoded' /\ Len(decoded') = step
      BY <1>3, <1>4, <2>1 DEF ChunkReady
    <3>2. /\ UNCHANGED <<req, step>> /\ pending' \in Seq(Nat)
          /\ keep' => pending' = <<>>
          /\ pc' \in {"decode", "tail"}
      <4>1. /\ UNCHANGED <<req, step>>
            /\ \/ keep' /\ pending' = <<>> /\ pc' = "decode"
               \/ ~keep' /\ pending' = pending /\ pc' = "tail"
        BY <1>4, Zenon DEF ChunkReady, ClearedBatch
      <4>2. pending \in Seq(Nat) /\ <<>> \in Seq(Nat)
        OBVIOUS
      <4> HIDE DEF IInv, FrameInv, ControlInv, Follows
      <4> QED BY <4>1, <4>2
    <3>3. keep' /\ req.vocoder => Follows'
      BY <1>0, <3>1, <3>2
    <3> QED BY <3>1, <3>2, <3>3
  <2>2. CASE pending = <<>>
    BY <1>4, <2>2 DEF ChunkReady, ClearedBatch, Deliver, Silenced
  <2> QED BY <2>1, <2>2
<1>5. CASE FinalBatch
  <2>1. CASE pending # <<>>
    BY <1>3, <1>5, <2>1 DEF FinalBatch
  <2>2. CASE pending = <<>>
    BY <1>0, <1>5, <2>2 DEF FinalBatch
  <2> QED BY <2>1, <2>2
<1>6. CASE Return
  BY <1>6 DEF Return
<1>7. CASE Finished \/ UNCHANGED vars
  <2>1. UNCHANGED <<req, pc, step, pending, keep, decoded, offered>>
    BY <1>7 DEF Finished, vars
  <2> QED BY <2>1
<1> QED BY <1>1, <1>2, <1>4, <1>5, <1>6, <1>7 DEF Next

LEMMA Invariance == Spec => []IInv
<1>1. IInv /\ [Next]_vars => IInv'
  BY NextControlInv, NextFrameInv DEF IInv
<1> QED BY InitInv, <1>1, PTL DEF Spec
-----------------------------------------------------------------------------
(***************************************************************************)
(* The results.                                                            *)
(***************************************************************************)
\* The parameters give bounds that do not move.
LEMMA Bounds ==
  ASSUME req \in Request
  PROVE  EffectiveMax \in Nat /\ BatchSize \in Nat \ {0}
<1>1. /\ req.cap \in 1..MaxCap /\ req.tokens \in 0..MaxTokens
      /\ req.chunk \in 0..MaxChunk \union {NoChunks}
  BY DEF Request
<1>2. /\ req.cap \in Nat /\ req.tokens \in Nat /\ req.chunk \in Nat
  BY <1>1, NativeAssumption DEF NoChunks
<1>3. req.tokens * FramesPerToken \in Nat
  BY <1>2, NativeAssumption
<1>4. EffectiveMax \in Nat
  <2>1. MaxOf(req.tokens * FramesPerToken, FloorFrames) \in Nat
    BY <1>3, NativeAssumption DEF MaxOf
  <2> QED BY <1>2, <2>1 DEF EffectiveMax, MinOf
<1> QED BY <1>2, <1>4 DEF BatchSize, MaxOf

\* A batch that is being collected is not full.
TInv == TypeOK /\ (pc = "decode" => Len(pending) < BatchSize)

LEMMA InitTypes == Init => TInv
<1> SUFFICES ASSUME Init PROVE TInv
  OBVIOUS
<1>1. req \in Request /\ EffectiveMax \in Nat /\ BatchSize \in Nat \ {0}
  BY Bounds DEF Init
<1>2. /\ <<>> \in Seq(1..EffectiveMax) /\ Len(<<>>) = 0 /\ 0 \in 0..EffectiveMax /\ 0 \in 0..0
  BY <1>1
<1> QED BY <1>1, <1>2 DEF Init, TInv, TypeOK

\* What a callback leaves of the frames and of its decision.
LEMMA DeliverTypes ==
  ASSUME TInv, Deliver, pending # <<>>
  PROVE  /\ keep' \in BOOLEAN /\ offers' \in 0..Len(offered')
         /\ decoded' \in Seq(1..EffectiveMax) /\ offered' \in Seq(1..EffectiveMax)
<1> USE DEF TInv, TypeOK
<1>1. /\ decoded \o pending \in Seq(1..EffectiveMax) /\ offered \o pending \in Seq(1..EffectiveMax)
      /\ Len(offered \o pending) = Len(offered) + Len(pending)
      /\ Len(pending) \in Nat \ {0} /\ Len(offered) \in Nat
  OBVIOUS
<1>2. offers + 1 \in 0..Len(offered \o pending)
  BY <1>1
<1>3. CASE UNCHANGED <<keep, decoded, offered, offers>>
  BY <1>3
<1>4. CASE /\ decoded' = decoded \o pending /\ keep' = FALSE
           /\ UNCHANGED <<offered, offers>>
  BY <1>1, <1>4
<1>5. CASE /\ decoded' = decoded \o pending /\ keep' \in BOOLEAN
           /\ offered' = offered \o pending /\ offers' = offers + 1
  BY <1>1, <1>2, <1>5
<1> QED BY <1>3, <1>4, <1>5, Zenon DEF Deliver

LEMMA NextTypes == TInv /\ [Next]_vars => TInv'
<1> SUFFICES ASSUME TInv, [Next]_vars PROVE TInv'
  OBVIOUS
<1>1. req \in Request /\ EffectiveMax \in Nat /\ BatchSize \in Nat \ {0}
  BY Bounds DEF TInv, TypeOK
<1>2. req' = req /\ EffectiveMax' = EffectiveMax /\ BatchSize' = BatchSize
  <2>1. req' = req
    BY DEF Next, Generate, EndOfSpeech, HitCap, ChunkReady, FinalBatch, Return,
           Finished, vars
  <2> QED BY <2>1 DEF EffectiveMax, BatchSize
<1>3. CASE Generate
  <2>1. step + 1 \in 1..EffectiveMax /\ step + 1 \in 0..EffectiveMax
    BY <1>1, <1>3 DEF Generate, TInv, TypeOK
  <2>2. /\ pending' \in Seq(1..EffectiveMax) /\ Len(pending') = Len(pending) + 1
        /\ Len(pending) \in Nat /\ Len(pending) < BatchSize
    BY <1>1, <1>3, <2>1 DEF Generate, TInv, TypeOK
  <2>3. Len(pending') <= BatchSize
    BY <1>1, <2>2
  <2>4. pc' \in {"decode", "chunk"} /\ (pc' = "decode" => Len(pending') < BatchSize)
    BY <1>1, <1>3, <2>2 DEF Generate
  <2>5. step' = step + 1 /\ UNCHANGED <<req, keep, decoded, offered, offers, stop>>
    BY <1>3 DEF Generate
  <2> QED BY <1>1, <1>2, <2>1, <2>2, <2>3, <2>4, <2>5 DEF TInv, TypeOK
<1>4. CASE EndOfSpeech \/ HitCap
  BY <1>1, <1>2, <1>4 DEF EndOfSpeech, HitCap, TInv, TypeOK
<1>5. CASE ChunkReady
  <2>1. CASE pending # <<>>
    <3>1. /\ keep' \in BOOLEAN /\ offers' \in 0..Len(offered')
          /\ decoded' \in Seq(1..EffectiveMax) /\ offered' \in Seq(1..EffectiveMax)
      BY <1>5, <2>1, DeliverTypes DEF ChunkReady
    <3>2. /\ UNCHANGED <<req, step>>
          /\ \/ pending' = <<>> /\ pc' = "decode" /\ stop' = stop
             \/ pending' = pending /\ pc' = "tail" /\ stop' = "cancelled"
      BY <1>5, Zenon DEF ChunkReady, ClearedBatch
    <3>3. <<>> \in Seq(1..EffectiveMax) /\ Len(<<>>) = 0 /\ 0 < BatchSize /\ 0 <= BatchSize
      BY <1>1
    <3>4. /\ pending' \in Seq(1..EffectiveMax) /\ Len(pending') <= BatchSize
          /\ pc' = "decode" => Len(pending') < BatchSize
      BY <3>2, <3>3 DEF TInv, TypeOK
    <3>5. pc' \in {"decode", "chunk", "tail", "return", "returned"}
      BY <3>2
    <3>6. stop' \in {"eos", "cap", "cancelled"}
      BY <3>2 DEF TInv, TypeOK
    <3>7. req' \in Request /\ step' \in 0..EffectiveMax
      BY <3>2 DEF TInv, TypeOK
    <3> QED BY <1>2, <3>1, <3>4, <3>5, <3>6, <3>7, Zenon DEF TInv, TypeOK
  <2>2. CASE pending = <<>>
    <3>1. /\ UNCHANGED <<req, step, decoded, offered, offers, keep, pending>>
          /\ \/ pc' = "decode" /\ stop' = stop
             \/ pc' = "tail" /\ stop' = "cancelled"
      BY <1>5, <2>2, Zenon DEF ChunkReady, ClearedBatch, Deliver, Silenced
    <3>2. Len(pending) = 0
      BY <2>2
    <3> QED BY <1>1, <1>2, <3>1, <3>2 DEF TInv, TypeOK
  <2> QED BY <2>1, <2>2
<1>6. CASE FinalBatch
  <2>1. CASE pending # <<>>
    <3>1. /\ keep' \in BOOLEAN /\ offers' \in 0..Len(offered')
          /\ decoded' \in Seq(1..EffectiveMax) /\ offered' \in Seq(1..EffectiveMax)
      BY <1>6, <2>1, DeliverTypes DEF FinalBatch
    <3>2. /\ UNCHANGED <<req, step, pending>> /\ pc' = "return"
          /\ stop' \in {stop, "cancelled"}
      BY <1>6, <2>1 DEF FinalBatch, AfterCallback
    <3> QED BY <1>1, <1>2, <3>1, <3>2 DEF TInv, TypeOK
  <2>2. CASE pending = <<>>
    BY <1>1, <1>2, <1>6, <2>2 DEF FinalBatch, TInv, TypeOK
  <2> QED BY <2>1, <2>2
<1>7. CASE Return \/ Finished \/ UNCHANGED vars
  BY <1>1, <1>2, <1>7 DEF Return, Finished, vars, TInv, TypeOK
<1> QED BY <1>3, <1>4, <1>5, <1>6, <1>7 DEF Next

\* Every variable has its type, for any cap, batch size and text.
THEOREM TypeCorrect == Spec => []TypeOK
<1>1. TInv => TypeOK
  BY DEF TInv
<1> QED BY <1>1, InitTypes, NextTypes, PTL DEF Spec

\* The streaming vocoder sees each codec frame once and in order, although the
\* loop passes a refused batch to its callback a second time; and a synthesis that
\* ends by itself has offered every frame it generated.
THEOREM FramesOnce == Spec => []EachFrameOnce
<1>1. IInv => DecodedOnceInOrder
  BY DEF IInv, FrameInv, DecodedOnceInOrder
<1>2. IInv => CompleteUnlessCancelled
  BY DEF IInv, FrameInv, ControlInv, CompleteUnlessCancelled
<1> QED BY <1>1, <1>2, Invariance, PTL DEF EachFrameOnce

\* The generation loop is an engine as its callers expect one: silent after a
\* refusal, and cancelled exactly when it was refused.
THEOREM LoopImplementsEngine == Spec => ImplementsEngine
<1>1. Init => Contract!EInit
  BY DEF Init, Contract!EInit
<1>2. IInv /\ [Next]_vars => [Contract!ENext]_(Contract!evars)
  <2> SUFFICES ASSUME IInv, [Next]_vars PROVE [Contract!ENext]_(Contract!evars)
    OBVIOUS
  <2> USE DEF IInv, ControlInv, Contract!evars, Contract!ENext
  <2>1. CASE Generate \/ EndOfSpeech \/ HitCap
    BY <2>1 DEF Generate, EndOfSpeech, HitCap
  <2>2. ASSUME Deliver, pc \in {"chunk", "tail"}, pc' # "returned"
        PROVE  Contract!Poll \/ Contract!Audio \/ UNCHANGED Contract!evars
    BY <2>2 DEF Deliver, Silenced, Contract!Poll, Contract!Audio
  <2>3. CASE ChunkReady
    BY <2>2, <2>3 DEF ChunkReady
  <2>4. CASE FinalBatch
    BY <2>2, <2>4 DEF FinalBatch
  <2>5. CASE Return
    BY <2>5 DEF Return, Contract!Return
  <2>6. CASE Finished \/ UNCHANGED vars
    BY <2>6 DEF Finished, vars
  <2> QED BY <2>1, <2>3, <2>4, <2>5, <2>6 DEF Next
<1> QED BY <1>1, <1>2, Invariance, PTL DEF Spec, ImplementsEngine, Contract!ESpec
-----------------------------------------------------------------------------
(***************************************************************************)
(* Sequences, whatever they hold.                                          *)
(***************************************************************************)
\* What a sequence holds, and a sequence whatever it holds.
Own(s) == {s[i] : i \in DOMAIN s}
IsSeq(s) == s \in Seq(Own(s))

\* A typed sequence is one of what it holds.
LEMMA TypedIsSeq == ASSUME NEW S, NEW s \in Seq(S) PROVE IsSeq(s)
<1>1. s \in [1..Len(s) -> S] /\ DOMAIN s = 1..Len(s) /\ Len(s) \in Nat
  OBVIOUS
<1>2. s \in [1..Len(s) -> Own(s)]
  BY <1>1 DEF Own
<1> QED
  BY <1>1, <1>2 DEF IsSeq

\* A table over 1..n is a sequence.
LEMMA TableIsSeq ==
  ASSUME NEW n \in Nat, NEW s, s = [i \in 1..n |-> s[i]]
  PROVE  IsSeq(s) /\ Len(s) = n /\ DOMAIN s = 1..n
<1>1. s \in [1..n -> Own(s)]
  BY DEF Own
<1>2. DOMAIN s = 1..n
  OBVIOUS
<1>3. s \in Seq(Own(s))
  BY <1>1
<1>4. Len(s) = n
  BY <1>2, <1>3, LenProperties
<1> QED
  BY <1>2, <1>3, <1>4 DEF IsSeq

\* And a sequence is a table.
LEMMA SeqIsTable ==
  ASSUME NEW s, IsSeq(s)
  PROVE  Len(s) \in Nat /\ DOMAIN s = 1..Len(s) /\ s = [i \in 1..Len(s) |-> s[i]]
BY DEF IsSeq

\* Sequences are equal when their lengths and elements are.
LEMMA SameSeq ==
  ASSUME NEW s, IsSeq(s), NEW t, IsSeq(t), Len(s) = Len(t), \A i \in 1..Len(s) : s[i] = t[i]
  PROVE  s = t
<1>1. s = [i \in 1..Len(s) |-> s[i]] /\ t = [i \in 1..Len(t) |-> t[i]]
  BY SeqIsTable
<1> QED
  BY <1>1

\* A sequence stays one over a larger set.
LEMMA Wider ==
  ASSUME NEW S, NEW T, S \subseteq T, NEW s \in Seq(S)
  PROVE  s \in Seq(T)
OBVIOUS

\* The empty sequence has length zero.
LEMMA EmptyIsSeq == IsSeq(<<>>) /\ Len(<<>>) = 0
<1>1. <<>> \in Seq({})
  OBVIOUS
<1> QED BY <1>1, TypedIsSeq

\* One element makes a sequence of length one.
LEMMA OneIsSeq == ASSUME NEW e PROVE IsSeq(<<e>>) /\ Len(<<e>>) = 1 /\ <<e>>[1] = e
<1>1. <<e>> \in Seq({e}) /\ Len(<<e>>) = 1 /\ <<e>>[1] = e
  OBVIOUS
<1> QED BY <1>1, TypedIsSeq

\* What is joined has the elements of both, in order.
LEMMA Concat ==
  ASSUME NEW s, IsSeq(s), NEW t, IsSeq(t)
  PROVE  /\ IsSeq(s \o t) /\ Len(s \o t) = Len(s) + Len(t)
         /\ \A i \in 1..Len(s) : (s \o t)[i] = s[i]
         /\ \A i \in 1..Len(t) : (s \o t)[Len(s) + i] = t[i]
         /\ \A i \in 1..Len(s) + Len(t) : (s \o t)[i] = IF i <= Len(s) THEN s[i] ELSE t[i - Len(s)]
<1> DEFINE S == Own(s) \union Own(t)
<1>1. s \in Seq(S) /\ t \in Seq(S)
  <2>1. Own(s) \subseteq S /\ Own(t) \subseteq S
    OBVIOUS
  <2> QED BY <2>1, Wider DEF IsSeq
<1> HIDE DEF S
<1>2. /\ s \o t \in Seq(S) /\ Len(s \o t) = Len(s) + Len(t)
      /\ \A i \in 1..Len(s) + Len(t) : (s \o t)[i] = IF i <= Len(s) THEN s[i] ELSE t[i - Len(s)]
  BY <1>1, ConcatProperties
<1>3. Len(s) \in Nat /\ Len(t) \in Nat
  BY <1>1
<1> DEFINE c == s \o t
<1> HIDE DEF c
<1>4. \A i \in 1..Len(s) + Len(t) : c[i] = IF i <= Len(s) THEN s[i] ELSE t[i - Len(s)]
  BY <1>2 DEF c
<1>5. \A i \in 1..Len(s) : c[i] = s[i]
  BY <1>3, <1>4
<1>6. ASSUME NEW i \in 1..Len(t) PROVE c[Len(s) + i] = t[i]
  <2>1. Len(s) + i \in 1..Len(s) + Len(t) /\ ~(Len(s) + i <= Len(s)) /\ (Len(s) + i) - Len(s) = i
    BY <1>3
  <2> QED
    BY <1>4, <2>1
<1>7. IsSeq(s \o t)
  BY <1>2, TypedIsSeq
<1> QED
  BY <1>2, <1>4, <1>5, <1>6, <1>7 DEF c

\* The same as one fact.
IsJoined(c, a, b) ==
  \A i \in 1..Len(a) + Len(b) : c[i] = IF i <= Len(a) THEN a[i] ELSE b[i - Len(a)]

LEMMA JoinedIs == ASSUME NEW a, IsSeq(a), NEW b, IsSeq(b) PROVE IsJoined(a \o b, a, b)
BY Concat DEF IsJoined

\* Appending joins one element.
LEMMA Appended ==
  ASSUME NEW s, IsSeq(s), NEW e
  PROVE  /\ IsSeq(Append(s, e)) /\ Len(Append(s, e)) = Len(s) + 1 /\ Append(s, e) = s \o <<e>>
<1> DEFINE S == Own(s) \union {e}
<1>1. s \in Seq(S)
  <2>1. Own(s) \subseteq S
    OBVIOUS
  <2> QED BY <2>1, Wider DEF IsSeq
<1>2. e \in S
  OBVIOUS
<1> HIDE DEF S
<1>3. Append(s, e) \in Seq(S) /\ Len(Append(s, e)) = Len(s) + 1 /\ Append(s, e) = s \o <<e>>
  BY <1>1, <1>2, AppendIsConcat, AppendProperties
<1> QED
  BY <1>3, TypedIsSeq

\* A piece of a sequence, from a to b.
LEMMA Sub ==
  ASSUME NEW s, IsSeq(s), NEW a \in Nat, NEW b \in Int, a >= 1, b >= a - 1, b <= Len(s)
  PROVE  /\ IsSeq(SubSeq(s, a, b)) /\ Len(SubSeq(s, a, b)) = b - a + 1
         /\ \A i \in 1..(b - a + 1) : SubSeq(s, a, b)[i] = s[a + i - 1]
         /\ SubSeq(s, a, b) = [i \in 1..(b - a + 1) |-> s[a + i - 1]]
<1>1. Len(s) \in Nat /\ s \in Seq(Own(s))
  BY DEF IsSeq
<1> DEFINE t == SubSeq(s, a, b)
<1>2. \A i \in a..b : s[i] \in Own(s)
  BY SeqIsTable DEF Own
<1>3. t \in Seq(Own(s)) /\ Len(t) = b - a + 1 /\ \A i \in 1..(b - a + 1) : t[i] = s[a + i - 1]
  <2>1. CASE a <= b
    <3>1. b \in Nat
      BY <2>1
    <3> QED BY <1>1, <1>2, <2>1, <3>1, SubSeqProperties
  <2>2. CASE b = a - 1
    BY <1>1, <2>2
  <2> QED BY <2>1, <2>2
<1>4. IsSeq(t)
  BY <1>3, TypedIsSeq
<1> HIDE DEF t
<1>5. t = [i \in 1..Len(t) |-> t[i]]
  BY <1>4, SeqIsTable
<1>6. t = [i \in 1..(b - a + 1) |-> s[a + i - 1]]
  BY <1>3, <1>5
<1> QED
  BY <1>3, <1>4, <1>6 DEF t

\* The first k places.
LEMMA PrefixIs ==
  ASSUME NEW s, IsSeq(s), NEW k \in Nat, k <= Len(s)
  PROVE  /\ IsSeq(SubSeq(s, 1, k)) /\ Len(SubSeq(s, 1, k)) = k
         /\ \A i \in 1..k : SubSeq(s, 1, k)[i] = s[i]
<1> DEFINE a == 1
           p == SubSeq(s, a, k)
<1>1. /\ a \in Nat /\ k \in Int /\ a >= 1 /\ k >= a - 1 /\ k <= Len(s)
      /\ k - a + 1 = k /\ \A i \in 1..k : a + i - 1 = i
  OBVIOUS
<1> HIDE DEF a
<1>2. /\ IsSeq(p) /\ Len(p) = k - a + 1
      /\ \A i \in 1..(k - a + 1) : p[i] = s[a + i - 1]
  BY <1>1, Sub
<1> HIDE DEF p
<1>3. IsSeq(p) /\ Len(p) = k /\ \A i \in 1..k : p[i] = s[i]
  BY <1>1, <1>2
<1> QED BY <1>3 DEF p, a
-----------------------------------------------------------------------------
(***************************************************************************)
(* The key-value cache: what is read is what was put in, however it grew.  *)
(***************************************************************************)
Keyed(s) == [i \in 1..Len(s) |-> [of |-> s[i], at |-> i]]
Holds(cache, s) ==
  /\ IsSeq(cache.store) /\ cache.offset = Len(s) /\ Len(s) <= Len(cache.store)
  /\ Fetched(cache) = Keyed(s)

\* A store that grows by whole steps is large enough.
LEMMA WholeSteps ==
  ASSUME NEW a \in Nat, NEW m \in Nat \ {0}
  PROVE  ((a + m - 1) \div m) * m \in Nat /\ ((a + m - 1) \div m) * m >= a
<1>1. (a + m - 1) \div m \in Nat
  OBVIOUS
<1>2. a + m - 1 < ((a + m - 1) \div m) * m + m
  OBVIOUS
<1> DEFINE q == (a + m - 1) \div m
<1>3. q * m \in Nat
  BY <1>1
<1> HIDE DEF q
<1> QED
  BY <1>2, <1>3 DEF q

\* The table of rotations and what is computed behind its end agree.
LEMMA RotatedIsKeyed ==
  ASSUME NEW x, IsSeq(x), NEW offset \in Nat
  PROVE  /\ IsSeq(Rotated(x, offset)) /\ Len(Rotated(x, offset)) = Len(x)
         /\ \A i \in 1..Len(x) : Rotated(x, offset)[i] = [of |-> x[i], at |-> offset + i]
<1> DEFINE tabulated == [i \in 1..TABLE |-> i]
           places == IF offset + Len(x) <= TABLE
                     THEN SubSeq(tabulated, offset + 1, offset + Len(x))
                     ELSE [i \in 1..Len(x) |-> offset + i]
           n == Len(x)
<1>0. n \in Nat
  BY SeqIsTable
<1> HIDE DEF n
<1>1. \A i \in 1..n : places[i] = offset + i
  <2>1. CASE offset + n <= TABLE
    <3>1. IsSeq(tabulated) /\ Len(tabulated) = TABLE
      BY CacheAssumption, TableIsSeq
    <3>2. \A i \in 1..TABLE : tabulated[i] = i
      OBVIOUS
    <3> HIDE DEF tabulated
    <3>3. \A i \in 1..n : SubSeq(tabulated, offset + 1, offset + n)[i] = tabulated[offset + i]
      <4>1. /\ offset + 1 \in Nat /\ offset + n \in Int /\ offset + 1 >= 1
            /\ offset + n >= (offset + 1) - 1 /\ (offset + n) - (offset + 1) + 1 = n
        BY <1>0
      <4>2. \A i \in 1..n :
             SubSeq(tabulated, offset + 1, offset + n)[i] = tabulated[(offset + 1) + i - 1]
        BY <2>1, <3>1, <4>1, Sub
      <4>3. \A i \in 1..n : (offset + 1) + i - 1 = offset + i
        BY <1>0
      <4> QED BY <4>2, <4>3
    <3>4. \A i \in 1..n : offset + i \in 1..TABLE
      BY <1>0, <2>1, CacheAssumption
    <3> QED
      BY <2>1, <3>2, <3>3, <3>4 DEF n
  <2>2. CASE ~(offset + n <= TABLE)
    BY <2>2 DEF n
  <2> QED BY <2>1, <2>2
<1> HIDE DEF places
<1>2. Rotated(x, offset) = [i \in 1..n |-> [of |-> x[i], at |-> places[i]]]
  BY DEF Rotated, places, tabulated, n
<1> DEFINE r == Rotated(x, offset)
<1>3. r = [i \in 1..n |-> r[i]] /\ \A i \in 1..n : r[i] = [of |-> x[i], at |-> offset + i]
  BY <1>1, <1>2
<1> HIDE DEF r
<1>4. IsSeq(r) /\ Len(r) = n
  BY <1>0, <1>3, TableIsSeq
<1> QED
  BY <1>3, <1>4 DEF n, r

\* However it grows, what is read from a cache is what was put in, in order.
LEMMA FetchedIsAll ==
  ASSUME NEW cache, IsSeq(cache.store), cache.offset \in Nat, cache.offset <= Len(cache.store),
         NEW keys, IsSeq(keys)
  PROVE  LET u == Update(cache, keys)
         IN  /\ IsSeq(u.store) /\ u.offset = cache.offset + Len(keys)
             /\ u.offset <= Len(u.store)
             /\ Fetched(u) = Fetched(cache) \o keys
<1> DEFINE added == Len(keys)
           offset == cache.offset
           room == ((added + STEP - 1) \div STEP) * STEP
           filler == [i \in 1..room |-> NoKeys]
           grown == Grown(cache, added)
           store == [i \in DOMAIN grown |->
                    IF i - cache.offset \in DOMAIN keys THEN keys[i - cache.offset] ELSE grown[i]]
           u == Update(cache, keys)
<1>1. /\ added \in Nat /\ DOMAIN keys = 1..added /\ Len(cache.store) \in Nat
      /\ offset \in Nat /\ offset <= Len(cache.store)
  BY SeqIsTable
<1>2. room \in Nat /\ room >= added
  BY <1>1, WholeSteps, CacheAssumption
<1> HIDE DEF room, added
<1>3. /\ IsSeq(grown) /\ Len(grown) >= offset + added
      /\ \A i \in 1..Len(cache.store) : grown[i] = cache.store[i]
  <2>1. CASE offset + added > Len(cache.store)
    <3>1. IsSeq(filler) /\ Len(filler) = room
      BY <1>2, TableIsSeq
    <3>2. grown = cache.store \o filler
      BY <2>1 DEF Grown, room, added
    <3> HIDE DEF filler, grown
    <3>3. /\ IsSeq(grown) /\ Len(grown) = Len(cache.store) + room
          /\ \A i \in 1..Len(cache.store) : grown[i] = cache.store[i]
      <4> DEFINE a == cache.store
                 j == a \o filler
      <4>1. IsSeq(a) /\ IsSeq(filler)
        BY <3>1
      <4> HIDE DEF a
      <4>2. IsSeq(j) /\ Len(j) = Len(a) + Len(filler) /\ \A i \in 1..Len(a) : j[i] = a[i]
        BY ONLY <4>1, Concat
      <4> QED BY <3>1, <3>2, <4>2 DEF a
    <3> QED
      BY <1>1, <1>2, <3>3
  <2>2. CASE ~(offset + added > Len(cache.store))
    <3>1. grown = cache.store
      BY <2>2 DEF Grown, added
    <3> HIDE DEF grown, offset
    <3> QED BY <1>1, <2>2, <3>1
  <2> QED BY <2>1, <2>2
<1>4. u.store = store /\ u.offset = offset + added
  BY DEF Update, added
<1> HIDE DEF grown, u
<1>5. /\ IsSeq(store) /\ Len(store) = Len(grown)
      /\ \A i \in 1..offset : store[i] = cache.store[i]
      /\ \A i \in 1..added : store[offset + i] = keys[i]
  <2>1. DOMAIN grown = 1..Len(grown) /\ Len(grown) \in Nat
    BY <1>3, SeqIsTable
  <2>2. store = [i \in 1..Len(grown) |-> store[i]]
    BY <2>1
  <2>3. \A i \in 1..offset : store[i] = cache.store[i]
    <3> SUFFICES ASSUME NEW i \in 1..offset PROVE store[i] = cache.store[i]
      OBVIOUS
    <3>1. i \in DOMAIN grown /\ ~(i - offset \in DOMAIN keys) /\ i \in 1..Len(cache.store)
      BY <1>1, <1>3, <2>1
    <3> QED BY <1>3, <3>1
  <2>4. \A i \in 1..added : store[offset + i] = keys[i]
    <3> SUFFICES ASSUME NEW i \in 1..added PROVE store[offset + i] = keys[i]
      OBVIOUS
    <3>1. offset + i \in DOMAIN grown /\ (offset + i) - offset = i /\ i \in DOMAIN keys
      BY <1>1, <1>3, <2>1
    <3> QED BY <3>1
  <2> HIDE DEF store
  <2> QED
    BY <2>1, <2>2, <2>3, <2>4, TableIsSeq
<1> HIDE DEF store
<1> DEFINE a == SubSeq(store, 1, offset + added)
           b == SubSeq(cache.store, 1, offset)
<1>6. Fetched(u) = a /\ Fetched(cache) = b
  BY <1>4 DEF Fetched
<1> HIDE DEF offset
<1>7. IsSeq(a) /\ Len(a) = offset + added /\ \A i \in 1..offset + added : a[i] = store[i]
  <2>1. /\ offset + added \in Int /\ offset + added >= 1 - 1 /\ offset + added <= Len(store)
        /\ (offset + added) - 1 + 1 = offset + added
    BY <1>1, <1>3, <1>5
  <2>2. \A i \in 1..offset + added : 1 + i - 1 = i
    BY <1>1
  <2> QED
    BY <1>5, <2>1, <2>2, Sub
<1>8. IsSeq(b) /\ Len(b) = offset /\ \A i \in 1..offset : b[i] = cache.store[i]
  <2>1. offset \in Int /\ offset >= 1 - 1 /\ offset - 1 + 1 = offset
    BY <1>1
  <2>2. \A i \in 1..offset : 1 + i - 1 = i
    BY <1>1
  <2> QED
    BY <1>1, <2>1, <2>2, Sub
<1> HIDE DEF a, b
<1>9. /\ IsSeq(b \o keys) /\ Len(b \o keys) = offset + added
      /\ \A i \in 1..offset + added :
           (b \o keys)[i] = IF i <= offset THEN b[i] ELSE keys[i - offset]
  <2>1. IsSeq(b) /\ IsSeq(keys)
    BY <1>8
  <2>2. /\ IsSeq(b \o keys) /\ Len(b \o keys) = Len(b) + Len(keys)
        /\ \A i \in 1..Len(b) + Len(keys) :
             (b \o keys)[i] = IF i <= Len(b) THEN b[i] ELSE keys[i - Len(b)]
    BY ONLY <2>1, Concat
  <2> QED
    BY <1>8, <2>2 DEF added
<1>10. a = b \o keys
  <2>1. ASSUME NEW i \in 1..offset + added PROVE a[i] = (b \o keys)[i]
    <3>1. CASE i <= offset
      <4>1. i \in 1..offset
        BY <1>1, <3>1
      <4> QED
        BY <1>5, <1>7, <1>8, <1>9, <3>1, <4>1
    <3>2. CASE i > offset
      <4>1. i - offset \in 1..added /\ i = offset + (i - offset) /\ ~(i <= offset)
        BY <1>1, <3>2
      <4> QED
        BY <1>5, <1>7, <1>9, <4>1
    <3>3. i <= offset \/ i > offset
      BY <1>1
    <3> QED BY <3>1, <3>2, <3>3
  <2> QED
    BY <1>7, <1>9, <2>1, SameSeq
<1> QED
  BY <1>1, <1>3, <1>4, <1>5, <1>6, <1>10 DEF a, b, u, added, offset
-----------------------------------------------------------------------------
(***************************************************************************)
(* Attention: a pass over a cache sees what one pass over everything sees. *)
(***************************************************************************)
\* What the mask lets through up to place k, and what a query makes of it.
InReach(keys, n, k) == {i \in DOMAIN keys : n > 1 => i <= k}
Found(keys, k, e) == \E c \in 1..k : e = [of |-> keys[c].of, back |-> k - c]

\* One row of the attention: the keys up to the place of the query.
LEMMA AttendAt ==
  ASSUME NEW keys, NEW n \in Nat, NEW r \in 1..n, NEW k \in Nat, k = (Len(keys) - n) + r,
         Len(keys) \in Nat, InReach(keys, n, k) = 1..k,
         \A c \in 1..k : keys[c].at = c
  PROVE  \A e : e \in Attend(keys, n)[r] <=> Found(keys, k, e)
<1>1. \A e : e \in Attend(keys, n)[r] <=> \E c \in
      {i \in DOMAIN keys : n > 1 => i <= (Len(keys) - n) + r} :
           e = [of |-> keys[c].of, back |-> (Len(keys) - n) + r - keys[c].at]
  BY DEF Attend
<1>2. {i \in DOMAIN keys : n > 1 => i <= (Len(keys) - n) + r} = 1..k
  BY DEF InReach
<1>3. \A e : e \in Attend(keys, n)[r] <=> \E c \in 1..k :
           e = [of |-> keys[c].of, back |-> (Len(keys) - n) + r - keys[c].at]
  BY ONLY <1>1, <1>2
<1>4. \A c \in 1..k : (Len(keys) - n) + r - keys[c].at = k - c
  OBVIOUS
<1> QED BY ONLY <1>3, <1>4 DEF Found

\* What a query attends to, in the last n places of what a cache holds.
LEMMA AttendsToAll ==
  ASSUME NEW s, IsSeq(s), NEW n \in Nat, n <= Len(s)
  PROVE  /\ IsSeq(Attend(Keyed(s), n)) /\ Len(Attend(Keyed(s), n)) = n
         /\ \A r \in 1..n :
              Attend(Keyed(s), n)[r] = Everything(SubSeq(s, 1, (Len(s) - n) + r))
<1> DEFINE m == Len(s)
           keys == Keyed(s)
           a == Attend(keys, n)
<1>1. m \in Nat
  BY SeqIsTable
<1>2. DOMAIN keys = 1..m /\ \A i \in 1..m : keys[i].of = s[i] /\ keys[i].at = i
  BY DEF Keyed
<1>3. Len(keys) = m
  <2>1. keys = [i \in 1..m |-> keys[i]]
    BY <1>2 DEF Keyed
  <2> HIDE DEF keys, m
  <2> QED
    BY <1>1, <2>1, TableIsSeq
<1>5. IsSeq(a) /\ Len(a) = n
  <2>1. a = [r \in 1..n |-> a[r]]
    BY DEF Attend
  <2> HIDE DEF a
  <2> QED BY <2>1, TableIsSeq
<1> HIDE DEF keys, m
<1>6. ASSUME NEW r \in 1..n
      PROVE  a[r] = Everything(SubSeq(s, 1, (m - n) + r))
  <2> DEFINE k == (m - n) + r
             part == SubSeq(s, 1, k)
  <2>1. k \in Nat /\ k \in 1..m /\ k = (Len(keys) - n) + r /\ Len(keys) \in Nat
    BY <1>1, <1>3 DEF m
  <2>2. InReach(keys, n, k) = 1..k
    <3>1. CASE n > 1
      BY <1>1, <1>2, <2>1, <3>1 DEF InReach
    <3>2. CASE n = 1
      <4>1. k = m
        BY <1>1, <3>2
      <4> QED BY <1>2, <3>2, <4>1 DEF InReach
    <3>3. n > 1 \/ n = 1
      BY <1>1
    <3> QED BY <3>1, <3>2, <3>3
  <2> HIDE DEF k, a
  <2>3. IsSeq(part) /\ Len(part) = k /\ \A i \in 1..k : part[i] = s[i]
    <3>1. k \in Nat /\ k <= Len(s) /\ IsSeq(s)
      BY <1>1, <2>1 DEF m
    <3> QED BY ONLY <3>1, PrefixIs DEF part
  <2>4. DOMAIN part = 1..k
    BY <2>3, SeqIsTable
  <2> HIDE DEF part
  <2>5. \A c \in 1..k : keys[c].of = s[c] /\ keys[c].at = c
    BY <1>1, <1>2, <2>1
  <2>6. \A e : e \in a[r] <=> \E c \in 1..k : e = [of |-> keys[c].of, back |-> k - c]
    <3>1. /\ n \in Nat /\ r \in 1..n /\ k \in Nat /\ k = (Len(keys) - n) + r /\ Len(keys) \in Nat
          /\ InReach(keys, n, k) = 1..k /\ \A c \in 1..k : keys[c].at = c
      BY <2>1, <2>2, <2>5
    <3>2. \A e : e \in Attend(keys, n)[r] <=> Found(keys, k, e)
      BY ONLY <3>1, AttendAt
    <3> QED BY ONLY <3>2 DEF a, Found
  <2>7. \A e : e \in a[r] <=> \E c \in 1..k : e = [of |-> part[c], back |-> k - c]
    <3>1. \A c \in 1..k : keys[c].of = part[c]
      BY <2>3, <2>5
    <3> QED BY ONLY <2>6, <3>1
  <2>8. \A e : e \in Everything(part) <=> \E c \in 1..k : e = [of |-> part[c], back |-> k - c]
    BY <2>3, <2>4 DEF Everything
  <2>9. a[r] = Everything(part)
    BY <2>7, <2>8
  <2> QED BY <2>9 DEF k, part
<1> QED
  BY <1>5, <1>6 DEF a, keys, m

\* Keys rotated from where the cache ends continue its keys.
LEMMA KeyedGrows ==
  ASSUME NEW s, IsSeq(s), NEW x, IsSeq(x)
  PROVE  /\ IsSeq(Keyed(s)) /\ Len(Keyed(s)) = Len(s)
         /\ Keyed(s) \o Rotated(x, Len(s)) = Keyed(s \o x)
<1> DEFINE m == Len(s)
           n == Len(x)
           k == Keyed(s)
           r == Rotated(x, m)
           w == Keyed(s \o x)
<1>1. m \in Nat /\ n \in Nat
  BY SeqIsTable
<1>2. IsSeq(s \o x) /\ Len(s \o x) = m + n
      /\ \A i \in 1..m + n : (s \o x)[i] = IF i <= m THEN s[i] ELSE x[i - m]
  BY Concat
<1>3. k = [i \in 1..m |-> k[i]] /\ \A i \in 1..m : k[i] = [of |-> s[i], at |-> i]
  BY DEF Keyed
<1>4. IsSeq(r) /\ Len(r) = n /\ \A i \in 1..n : r[i] = [of |-> x[i], at |-> m + i]
  BY <1>1, RotatedIsKeyed
<1>5. w = [i \in 1..m + n |-> w[i]] /\ \A i \in 1..m + n : w[i] = [of |-> (s \o x)[i], at |-> i]
  BY <1>2 DEF Keyed
<1> HIDE DEF m, n, k, r, w
<1>6. IsSeq(k) /\ Len(k) = m /\ IsSeq(w) /\ Len(w) = m + n
  BY <1>1, <1>3, <1>5, TableIsSeq
<1>7. IsSeq(k \o r) /\ Len(k \o r) = m + n
      /\ \A i \in 1..m + n : (k \o r)[i] = IF i <= m THEN k[i] ELSE r[i - m]
  <2>1. /\ IsSeq(k \o r) /\ Len(k \o r) = Len(k) + Len(r)
        /\ \A i \in 1..Len(k) + Len(r) : (k \o r)[i] = IF i <= Len(k) THEN k[i] ELSE r[i - Len(k)]
    <3>1. IsSeq(k) /\ IsSeq(r)
      BY <1>4, <1>6
    <3> QED BY ONLY <3>1, Concat
  <2>2. Len(k) = m /\ Len(r) = n
    BY <1>4, <1>6
  <2> QED BY ONLY <2>1, <2>2
<1>8. ASSUME NEW i \in 1..m + n PROVE (k \o r)[i] = w[i]
  <2>1. CASE i <= m
    <3>1. i \in 1..m
      BY <1>1, <2>1
    <3>2. (k \o r)[i] = k[i] /\ (s \o x)[i] = s[i]
      BY <1>2, <1>7, <2>1
    <3>3. k[i] = [of |-> s[i], at |-> i] /\ w[i] = [of |-> (s \o x)[i], at |-> i]
      BY <1>3, <1>5, <3>1
    <3> QED BY ONLY <3>2, <3>3
  <2>2. CASE ~(i <= m)
    <3>1. i - m \in 1..n /\ m + (i - m) = i
      BY <1>1, <2>2
    <3>2. (k \o r)[i] = r[i - m] /\ (s \o x)[i] = x[i - m]
      BY <1>2, <1>7, <2>2
    <3>3. r[i - m] = [of |-> x[i - m], at |-> i]
      BY <1>4, <3>1
    <3>4. w[i] = [of |-> (s \o x)[i], at |-> i]
      BY <1>5
    <3> QED BY ONLY <3>2, <3>3, <3>4
  <2> QED BY <2>1, <2>2
<1>9. k \o r = w
  BY <1>6, <1>7, <1>8, SameSeq
<1> QED
  BY <1>6, <1>9 DEF m, n, k, r, w

\* A pass behind s attends to s and to the batch itself, row by row as if
\* everything had gone through at once.
LEMMA ForwardSees ==
  ASSUME NEW s, IsSeq(s), NEW cache, Holds(cache, s), NEW x, IsSeq(x)
  PROVE  LET pass == Forward(cache, x) IN
         /\ Holds(pass.cache, s \o x)
         /\ IsSeq(pass.out) /\ Len(pass.out) = Len(x)
         /\ \A r \in 1..Len(x) : pass.out[r] = Everything(SubSeq(s \o x, 1, Len(s) + r))
<1> DEFINE keys == Rotated(x, cache.offset)
           u == Update(cache, keys)
           y == s \o x
<1>1. /\ Len(s) \in Nat /\ Len(x) \in Nat /\ cache.offset = Len(s) /\ IsSeq(cache.store)
      /\ cache.offset <= Len(cache.store) /\ Fetched(cache) = Keyed(s)
  BY SeqIsTable DEF Holds
<1>2. IsSeq(y) /\ Len(y) = Len(s) + Len(x)
  BY Concat
<1>3. IsSeq(keys) /\ Len(keys) = Len(x)
  BY <1>1, RotatedIsKeyed
<1>4. /\ IsSeq(u.store) /\ u.offset = Len(s) + Len(x) /\ u.offset <= Len(u.store)
      /\ Fetched(u) = Keyed(s) \o keys
  BY <1>1, <1>3, FetchedIsAll
<1>5. Keyed(s) \o keys = Keyed(y)
  BY <1>1, KeyedGrows
<1>6. Holds(u, y)
  BY <1>2, <1>4, <1>5 DEF Holds
<1>7. Forward(cache, x) = [cache |-> u, out |-> Attend(Keyed(y), Len(x))]
  BY <1>4, <1>5 DEF Forward
<1> HIDE DEF u, keys, y
<1>8. Len(x) <= Len(y) /\ Len(y) - Len(x) = Len(s)
  BY <1>1, <1>2
<1>9. /\ IsSeq(Attend(Keyed(y), Len(x))) /\ Len(Attend(Keyed(y), Len(x))) = Len(x)
      /\ \A r \in 1..Len(x) :
           Attend(Keyed(y), Len(x))[r] = Everything(SubSeq(y, 1, Len(s) + r))
  <2> DEFINE n == Len(x)
  <2>1. n \in Nat /\ n <= Len(y) /\ Len(y) - n = Len(s) /\ IsSeq(y)
    BY <1>1, <1>2, <1>8
  <2> HIDE DEF n
  <2>2. /\ IsSeq(Attend(Keyed(y), n)) /\ Len(Attend(Keyed(y), n)) = n
        /\ \A r \in 1..n : Attend(Keyed(y), n)[r] = Everything(SubSeq(y, 1, (Len(y) - n) + r))
    BY ONLY <2>1, AttendsToAll
  <2> QED BY <2>1, <2>2 DEF n
<1> QED
  BY <1>6, <1>7, <1>9 DEF y
-----------------------------------------------------------------------------
(***************************************************************************)
(* Induction over the passes of the predictor, stated over sets.           *)
(***************************************************************************)
\* A set of numbers has a least one.
LEMMA Smallest ==
  ASSUME NEW T \in SUBSET Nat, T # {}
  PROVE  \E x \in T : \A y \in T : x <= y
<1> DEFINE U == {0..x : x \in T}
<1>1. U \subseteq FiniteSubsetsOf(Nat) /\ U # {}
  <2>1. \A x \in T : 0..x \in SUBSET Nat
    OBVIOUS
  <2>2. \A x \in T : IsFiniteSet(0..x)
    BY FS_Interval
  <2> QED BY <2>1, <2>2 DEF FiniteSubsetsOf
<1> HIDE DEF U
<1>2. PICK m \in U : \A y \in U : ~(<<y, m>> \in StrictSubsetOrdering(Nat))
  BY <1>1, FS_StrictSubsetOrderingWellFounded, WFMin
<1>3. PICK x \in T : m = 0..x
  BY DEF U
<1>4. ASSUME NEW y \in T, ~(x <= y) PROVE FALSE
  <2>1. 0..y \in U
    BY DEF U
  <2>2. 0..y \subseteq 0..x /\ 0..y # 0..x
    <3>1. x \in 0..x /\ x \notin 0..y
      BY <1>4
    <3>2. 0..y \subseteq 0..x
      BY <1>4
    <3> QED BY <3>1, <3>2
  <2>3. <<0..y, 0..x>> \in StrictSubsetOrdering(Nat)
    BY <2>2 DEF StrictSubsetOrdering
  <2> QED BY <2>1, <2>3, <1>2, <1>3
<1> QED BY <1>4


\* Induction up to n, over a set.
LEMMA Reached ==
  ASSUME NEW n \in Nat, NEW P, 0 \in P, \A i \in 0..(n - 1) : i \in P => i + 1 \in P
  PROVE  \A i \in 0..n : i \in P
<1> DEFINE T == {i \in 0..n : i \notin P}
<1> SUFFICES ASSUME T # {} PROVE FALSE
  OBVIOUS
<1>1. T \in SUBSET Nat
  OBVIOUS
<1>2. PICK x \in T : \A y \in T : x <= y
  BY <1>1, Smallest
<1>3. x \in 1..n /\ x - 1 \in 0..(n - 1) /\ (x - 1) + 1 = x
  OBVIOUS
<1>4. x - 1 \in P
  <2>1. ~(x <= x - 1)
    BY <1>3
  <2>2. x - 1 \notin T
    BY <1>2, <2>1
  <2> QED BY <1>3, <2>2
<1>5. x \in P
  BY <1>3, <1>4
<1> QED BY <1>5

\* What the predictor has after its j-th pass, given what it had before.
Started(cache) == [cache |-> Cleared(cache), codes |-> <<>>]
Input(frame, j) == IF j = 1 THEN <<Hidden(frame), Code(frame, 0)>> ELSE <<Code(frame, j - 1)>>
Made(before, frame, j) ==
  LET pass == Forward(before.cache, Input(frame, j))
  IN  [cache |-> pass.cache, codes |-> Append(before.codes, pass.out[Len(Input(frame, j))])]
IsMade(g, cache, frame, n) ==
  g = [j \in 0..n |-> IF j = 0 THEN Started(cache) ELSE Made(g[j - 1], frame, j)]

\* The predictor's passes follow one another to the n-th,
LEMMA Makeable ==
  ASSUME NEW cache, NEW frame, NEW n \in Nat
  PROVE  \E g : IsMade(g, cache, frame, n)
<1> DEFINE P == {k \in 0..n : \E g : IsMade(g, cache, frame, k)}
<1>1. 0 \in P
  <2> DEFINE g == [j \in 0..0 |-> Started(cache)]
  <2>1. IsMade(g, cache, frame, 0)
    BY DEF IsMade
  <2> QED BY <2>1
<1>2. ASSUME NEW k \in 0..(n - 1), k \in P PROVE k + 1 \in P
  <2>1. PICK g : IsMade(g, cache, frame, k)
    BY <1>2
  <2> DEFINE h == [j \in 0..k + 1 |-> IF j = k + 1 THEN Made(g[k], frame, k + 1) ELSE g[j]]
  <2>2. \A j \in 0..k : h[j] = g[j]
    OBVIOUS
  <2>3. h = [j \in 0..k + 1 |-> IF j = 0 THEN Started(cache) ELSE Made(h[j - 1], frame, j)]
    <3>1. ASSUME NEW j \in 0..k + 1
          PROVE  h[j] = IF j = 0 THEN Started(cache) ELSE Made(h[j - 1], frame, j)
      <4>1. CASE j = k + 1
        <5>1. j # 0 /\ j - 1 = k /\ h[j - 1] = g[k]
          BY <4>1
        <5> QED BY <4>1, <5>1
      <4>2. CASE j # k + 1
        <5>1. j \in 0..k /\ h[j] = g[j] /\ (j # 0 => j - 1 \in 0..k /\ h[j - 1] = g[j - 1])
          BY <4>2
        <5> HIDE DEF h
        <5>2. g[j] = IF j = 0 THEN Started(cache) ELSE Made(g[j - 1], frame, j)
          BY <2>1, <5>1 DEF IsMade
        <5> QED BY <5>1, <5>2
      <4> QED BY <4>1, <4>2
    <3>2. h = [j \in 0..k + 1 |-> h[j]]
      OBVIOUS
    <3> HIDE DEF h
    <3> QED BY <3>1, <3>2
  <2> HIDE DEF h
  <2>4. IsMade(h, cache, frame, k + 1)
    BY <2>3 DEF IsMade
  <2>5. k + 1 \in 0..n
    OBVIOUS
  <2> QED BY <2>4, <2>5
<1> HIDE DEF P
<1>3. n \in P
  BY <1>1, <1>2, Reached
<1> QED BY <1>3 DEF P

\* and what it predicts comes out of the last of them.
LEMMA PredictedIsMade ==
  ASSUME NEW cache, NEW frame
  PROVE  \E g : IsMade(g, cache, frame, SubCodes) /\ Predicted(cache, frame) = g[SubCodes]
<1> DEFINE g == CHOOSE g : IsMade(g, cache, frame, SubCodes)
<1>1. IsMade(g, cache, frame, SubCodes)
  BY Makeable, TalkerAssumption
<1>2. Predicted(cache, frame) = g[SubCodes]
  BY DEF Predicted, IsMade, Started, Made, Input
<1> QED BY <1>1, <1>2
-----------------------------------------------------------------------------
(***************************************************************************)
(* What the predictor hears.                                               *)
(***************************************************************************)
\* What has gone into the predictor with its j-th pass.
CodesTo(frame, j) == [i \in 1..j |-> Code(frame, i - 1)]
Gone(frame, j) == <<Hidden(frame)>> \o CodesTo(frame, j)
HeardTo(frame, j) == [i \in 1..j |-> Everything(Gone(frame, i))]
Before(frame, j) == IF j = 0 THEN <<>> ELSE Gone(frame, j)

\* The j-th pass puts one more code behind what went in before.
LEMMA GoneGrows ==
  ASSUME NEW frame, NEW j \in Nat
  PROVE  /\ IsSeq(Before(frame, j)) /\ IsSeq(Input(frame, j + 1))
         /\ Before(frame, j) \o Input(frame, j + 1) = Gone(frame, j + 1)
         /\ Len(Before(frame, j)) + Len(Input(frame, j + 1)) = Len(Gone(frame, j + 1))
         /\ Len(Input(frame, j + 1)) \in Nat \ {0}
         /\ IsSeq(Gone(frame, j + 1))
<1> DEFINE H == <<Hidden(frame)>>
<1>1. \A k \in Nat : IsSeq(CodesTo(frame, k)) /\ Len(CodesTo(frame, k)) = k
  <2> SUFFICES ASSUME NEW k \in Nat PROVE IsSeq(CodesTo(frame, k)) /\ Len(CodesTo(frame, k)) = k
    OBVIOUS
  <2>1. CodesTo(frame, k) = [i \in 1..k |-> CodesTo(frame, k)[i]]
    BY DEF CodesTo
  <2> QED BY <2>1, TableIsSeq
<1>2. IsSeq(H) /\ Len(H) = 1
  BY OneIsSeq
<1>3. \A k \in Nat : IsSeq(Gone(frame, k)) /\ Len(Gone(frame, k)) = k + 1
  <2> SUFFICES ASSUME NEW k \in Nat PROVE IsSeq(Gone(frame, k)) /\ Len(Gone(frame, k)) = k + 1
    OBVIOUS
  <2>1. /\ IsSeq(CodesTo(frame, k)) /\ Len(CodesTo(frame, k)) = k
        /\ Gone(frame, k) = H \o CodesTo(frame, k)
    BY <1>1 DEF Gone
  <2> HIDE DEF H
  <2>2. /\ IsSeq(H \o CodesTo(frame, k))
        /\ Len(H \o CodesTo(frame, k)) = Len(H) + Len(CodesTo(frame, k))
    BY <1>2, <2>1, Concat
  <2> QED BY <1>2, <2>1, <2>2
<1>4. CASE j = 0
  <2>1. Input(frame, 1) = <<Hidden(frame), Code(frame, 0)>>
    BY DEF Input
  <2>2. CodesTo(frame, 1) = <<Code(frame, 0)>>
    BY DEF CodesTo
  <2>3. H \o <<Code(frame, 0)>> = <<Hidden(frame), Code(frame, 0)>>
    <3> DEFINE a == Hidden(frame)
               b == Code(frame, 0)
    <3> HIDE DEF a, b
    <3>1. /\ IsSeq(<<a>>) /\ Len(<<a>>) = 1 /\ <<a>>[1] = a
          /\ IsSeq(<<b>>) /\ Len(<<b>>) = 1 /\ <<b>>[1] = b
      BY OneIsSeq
    <3>2. IsSeq(<<a, b>>) /\ Len(<<a, b>>) = 2 /\ <<a, b>>[1] = a /\ <<a, b>>[2] = b
      <4>1. <<a, b>> \in Seq({a, b})
        OBVIOUS
      <4> QED BY <4>1, TypedIsSeq
    <3> DEFINE v == <<a, b>>
               u == <<a>>
               t == <<b>>
    <3> HIDE DEF u, v, t
    <3>4. /\ IsSeq(u \o t) /\ Len(u \o t) = Len(u) + Len(t)
          /\ \A i \in 1..Len(u) : (u \o t)[i] = u[i]
          /\ \A i \in 1..Len(t) : (u \o t)[Len(u) + i] = t[i]
      <4>1. IsSeq(u) /\ IsSeq(t)
        BY <3>1 DEF u, t
      <4> QED BY <4>1, Concat
    <3>5. (u \o t)[1] = v[1] /\ (u \o t)[2] = v[2] /\ Len(u \o t) = 2
      BY <3>1, <3>2, <3>4 DEF u, t, v
    <3>6. \A i \in 1..2 : (u \o t)[i] = v[i]
      BY <3>5
    <3>3. u \o t = v
      BY <3>2, <3>4, <3>5, <3>6, SameSeq DEF v
    <3> QED BY <3>3 DEF a, b, u, t, v
  <2>4. Gone(frame, 1) = <<Hidden(frame), Code(frame, 0)>>
    BY <2>2, <2>3 DEF Gone
  <2>5. IsSeq(<<>>) /\ Len(<<>>) = 0 /\ Before(frame, 0) = <<>>
    BY EmptyIsSeq DEF Before
  <2>6. IsSeq(Gone(frame, 1)) /\ Len(Gone(frame, 1)) = 2
    <3>1. 1 \in Nat /\ 1 + 1 = 2
      OBVIOUS
    <3> QED BY <1>3, <3>1
  <2> DEFINE w == <<Hidden(frame), Code(frame, 0)>>
  <2> HIDE DEF w
  <2>7. IsSeq(w) /\ Len(w) = 2 /\ w = Gone(frame, 1) /\ w = Input(frame, 1)
    BY <2>1, <2>4, <2>6 DEF w
  <2>8. <<>> \o w = w
    BY <2>7, ConcatEmptySeq DEF IsSeq
  <2>9. j + 1 = 1
    BY <1>4
  <2>10. Before(frame, j) = <<>> /\ Input(frame, j + 1) = w /\ Gone(frame, j + 1) = w
    BY <1>4, <2>5, <2>7, <2>9
  <2> HIDE <1>4, <2>9
  <2> QED
    BY <2>5, <2>7, <2>8, <2>10
<1>5. CASE j # 0
  <2> DEFINE c == <<Code(frame, j)>>
  <2>1. Input(frame, j + 1) = c /\ IsSeq(c) /\ Len(c) = 1 /\ c[1] = Code(frame, j)
    <3>1. j + 1 # 1 /\ (j + 1) - 1 = j
      BY <1>5
    <3> QED BY <3>1, OneIsSeq DEF Input
  <2>2. Before(frame, j) = H \o CodesTo(frame, j)
    BY <1>5 DEF Before, Gone
  <2>3. /\ IsSeq(CodesTo(frame, j)) /\ Len(CodesTo(frame, j)) = j
        /\ IsSeq(CodesTo(frame, j + 1)) /\ Len(CodesTo(frame, j + 1)) = j + 1
    BY <1>1
  <2>4. /\ \A i \in 1..j : CodesTo(frame, j)[i] = Code(frame, i - 1)
        /\ \A i \in 1..j + 1 : CodesTo(frame, j + 1)[i] = Code(frame, i - 1)
    BY DEF CodesTo
  <2> HIDE DEF c, H
  <2>5. /\ IsSeq(CodesTo(frame, j) \o c)
          /\ Len(CodesTo(frame, j) \o c) = j + 1
        /\ \A i \in 1..j + 1 :
             (CodesTo(frame, j) \o c)[i] = IF i <= j THEN CodesTo(frame, j)[i] ELSE c[i - j]
    <3>1. /\ IsSeq(CodesTo(frame, j) \o c)
          /\ Len(CodesTo(frame, j) \o c) = Len(CodesTo(frame, j)) + Len(c)
          /\ \A i \in 1..Len(CodesTo(frame, j)) + Len(c) :
               (CodesTo(frame, j) \o c)[i] =
                 IF i <= Len(CodesTo(frame, j)) THEN CodesTo(frame, j)[i]
                 ELSE c[i - Len(CodesTo(frame, j))]
      <4> DEFINE b == CodesTo(frame, j)
      <4>1. IsSeq(b) /\ IsSeq(c)
        BY <2>1, <2>3
      <4> HIDE DEF b
      <4>2. /\ IsSeq(b \o c) /\ Len(b \o c) = Len(b) + Len(c)
            /\ \A i \in 1..Len(b) + Len(c) :
                 (b \o c)[i] = IF i <= Len(b) THEN b[i] ELSE c[i - Len(b)]
        BY ONLY <4>1, Concat
      <4> QED BY <4>2 DEF b
    <3> QED BY <2>1, <2>3, <3>1
  <2>6. CodesTo(frame, j) \o c = CodesTo(frame, j + 1)
    <3>1. ASSUME NEW i \in 1..j + 1 PROVE (CodesTo(frame, j) \o c)[i] = CodesTo(frame, j + 1)[i]
      <4>1. CASE i <= j
        BY <2>4, <2>5, <4>1
      <4>2. CASE ~(i <= j)
        <5>1. i = j + 1 /\ i - j = 1 /\ i - 1 = j
          BY <4>2
        <5> QED BY <2>1, <2>4, <2>5, <4>2, <5>1
      <4> QED BY <4>1, <4>2
    <3> QED BY <2>3, <2>5, <3>1, SameSeq
  <2>7. (H \o CodesTo(frame, j)) \o c = H \o (CodesTo(frame, j) \o c)
    <3> DEFINE S == Own(H) \union Own(CodesTo(frame, j)) \union Own(c)
    <3>1. Own(H) \subseteq S /\ Own(CodesTo(frame, j)) \subseteq S /\ Own(c) \subseteq S
      OBVIOUS
    <3> HIDE DEF S
    <3>2. H \in Seq(S) /\ CodesTo(frame, j) \in Seq(S) /\ c \in Seq(S)
      BY <1>2, <2>1, <2>3, <3>1, Wider DEF IsSeq
    <3> QED BY <3>2, ConcatAssociative
  <2>8. Gone(frame, j + 1) = H \o CodesTo(frame, j + 1)
    BY DEF Gone, H
  <2>9. /\ IsSeq(Before(frame, j)) /\ Len(Before(frame, j)) = j + 1
        /\ IsSeq(Gone(frame, j + 1)) /\ Len(Gone(frame, j + 1)) = (j + 1) + 1
    BY <1>3, <1>5 DEF Before
  <2>10. Before(frame, j) \o Input(frame, j + 1) = Gone(frame, j + 1)
    BY <2>1, <2>2, <2>6, <2>7, <2>8
  <2> QED BY <2>1, <2>9, <2>10
<1> QED BY <1>4, <1>5

\* Each code the predictor gives was made from the hidden state and all the codes
\* before it, and nothing of the frame before: the cache was cleared.
LEMMA PredictorHears ==
  ASSUME NEW cache, NEW frame
  PROVE  Predicted(cache, frame).codes =
           [j \in 1..SubCodes |->
              Everything(<<Hidden(frame)>> \o [i \in 1..j |-> Code(frame, i - 1)])]
<1>1. PICK g : IsMade(g, cache, frame, SubCodes) /\ Predicted(cache, frame) = g[SubCodes]
  BY PredictedIsMade
<1>2. /\ g[0] = Started(cache)
      /\ \A j \in 0..(SubCodes - 1) : g[j + 1] = Made(g[j], frame, j + 1)
  <2>1. g = [j \in 0..SubCodes |-> IF j = 0 THEN Started(cache) ELSE Made(g[j - 1], frame, j)]
    BY <1>1 DEF IsMade
  <2>2. 0 \in 0..SubCodes
    BY TalkerAssumption
  <2>3. \A j \in 0..(SubCodes - 1) : j + 1 \in 0..SubCodes /\ j + 1 # 0 /\ (j + 1) - 1 = j
    BY TalkerAssumption
  <2>4. \A j \in 0..SubCodes : g[j] = IF j = 0 THEN Started(cache) ELSE Made(g[j - 1], frame, j)
    BY <2>1
  <2> QED
    BY <2>2, <2>3, <2>4
<1> DEFINE P == {j \in 0..SubCodes :
                   Holds(g[j].cache, Before(frame, j)) /\ g[j].codes = HeardTo(frame, j)}
<1>3. 0 \in P
  <2>1. Before(frame, 0) = <<>> /\ g[0].cache = NoKeys /\ g[0].codes = <<>>
    BY <1>2 DEF Before, Started, Cleared
  <2>2. Holds(NoKeys, <<>>)
    <3>1. NoKeys.store = <<>> /\ NoKeys.offset = 0
      BY DEF NoKeys
    <3>2. Fetched(NoKeys) = <<>>
      BY <3>1 DEF Fetched
    <3>3. Keyed(<<>>) = <<>>
      BY EmptyIsSeq DEF Keyed
    <3> QED BY <3>1, <3>2, <3>3, EmptyIsSeq DEF Holds
  <2>3. HeardTo(frame, 0) = <<>>
    BY DEF HeardTo
  <2>4. 0 \in 0..SubCodes
    BY TalkerAssumption
  <2> QED BY <2>1, <2>2, <2>3, <2>4
<1>4. ASSUME NEW j \in 0..(SubCodes - 1), j \in P PROVE j + 1 \in P
  <2> DEFINE x == Input(frame, j + 1)
             s == Before(frame, j)
             pass == Forward(g[j].cache, x)
  <2>1. j \in Nat /\ j + 1 \in 0..SubCodes /\ j + 1 # 0
    BY TalkerAssumption
  <2>2. /\ IsSeq(s) /\ IsSeq(x) /\ s \o x = Gone(frame, j + 1) /\ Len(x) \in Nat \ {0}
        /\ Len(s) + Len(x) = Len(s \o x) /\ IsSeq(s \o x)
    BY <2>1, GoneGrows
  <2>3. Holds(g[j].cache, s) /\ g[j].codes = HeardTo(frame, j)
    BY <1>4
  <2>4. g[j + 1] = [cache |-> pass.cache, codes |-> Append(HeardTo(frame, j), pass.out[Len(x)])]
    BY <1>2, <2>3 DEF Made
  <2> HIDE DEF x, s, pass, P
  <2>5. /\ Holds(pass.cache, s \o x)
        /\ pass.out[Len(x)] = Everything(SubSeq(s \o x, 1, Len(s) + Len(x)))
    <3>1. Len(x) \in 1..Len(x)
      BY <2>2
    <3> QED
      <4>1. /\ Holds(pass.cache, s \o x)
            /\ \A r \in 1..Len(x) : pass.out[r] = Everything(SubSeq(s \o x, 1, Len(s) + r))
        <5>1. IsSeq(s) /\ IsSeq(x) /\ Holds(g[j].cache, s)
          BY <2>2, <2>3
        <5>2. /\ Holds(Forward(g[j].cache, x).cache, s \o x)
              /\ \A r \in 1..Len(x) :
                   Forward(g[j].cache, x).out[r] = Everything(SubSeq(s \o x, 1, Len(s) + r))
          BY ONLY <5>1, ForwardSees
        <5> QED BY <5>2 DEF pass
      <4> QED BY <3>1, <4>1
  <2>6. SubSeq(s \o x, 1, Len(s \o x)) = s \o x
    <3>1. s \o x \in Seq(Own(s \o x))
      BY <2>2 DEF IsSeq
    <3> QED BY <3>1, SubSeqFull
  <2>7. pass.out[Len(x)] = Everything(Gone(frame, j + 1))
    BY <2>2, <2>5, <2>6
  <2>8. Append(HeardTo(frame, j), Everything(Gone(frame, j + 1))) = HeardTo(frame, j + 1)
    <3> DEFINE e == Everything(Gone(frame, j + 1))
               a == HeardTo(frame, j)
    <3>1. IsSeq(a) /\ Len(a) = j /\ \A i \in 1..j : a[i] = Everything(Gone(frame, i))
      <4>1. a = [i \in 1..j |-> a[i]] /\ \A i \in 1..j : a[i] = Everything(Gone(frame, i))
        BY DEF HeardTo
      <4> QED BY <2>1, <4>1, TableIsSeq
    <3>2. /\ HeardTo(frame, j + 1) = [i \in 1..j + 1 |-> HeardTo(frame, j + 1)[i]]
          /\ \A i \in 1..j + 1 : HeardTo(frame, j + 1)[i] = Everything(Gone(frame, i))
      BY DEF HeardTo
    <3> HIDE DEF e, a
    <3>3. IsSeq(<<e>>) /\ Len(<<e>>) = 1 /\ <<e>>[1] = e
      BY OneIsSeq
    <3>4. /\ Append(a, e) = a \o <<e>> /\ IsSeq(a \o <<e>>) /\ Len(a \o <<e>>) = j + 1
          /\ \A i \in 1..j : (a \o <<e>>)[i] = a[i] /\ (a \o <<e>>)[j + 1] = e
      <4>1. Append(a, e) = a \o <<e>>
        BY <3>1, Appended
      <4>2. /\ IsSeq(a \o <<e>>) /\ Len(a \o <<e>>) = Len(a) + Len(<<e>>)
            /\ \A i \in 1..Len(a) : (a \o <<e>>)[i] = a[i]
            /\ \A i \in 1..Len(<<e>>) : (a \o <<e>>)[Len(a) + i] = <<e>>[i]
        BY <3>1, <3>3, Concat
      <4> QED BY <3>1, <3>3, <4>1, <4>2
    <3>5. (a \o <<e>>)[j + 1] = e
      <4>2. \A i \in 1..Len(<<e>>) : (a \o <<e>>)[Len(a) + i] = <<e>>[i]
        BY <3>1, <3>3, Concat
      <4>3. 1 \in 1..Len(<<e>>)
        BY <3>3
      <4> QED BY <3>1, <3>3, <4>2, <4>3
    <3> DEFINE w == HeardTo(frame, j + 1)
               v == a \o <<e>>
    <3>6. IsSeq(w) /\ Len(w) = j + 1
      <4>1. j + 1 \in Nat
        BY <2>1
      <4> QED BY <3>2, <4>1, TableIsSeq
    <3>7. ASSUME NEW i \in 1..j + 1 PROVE v[i] = w[i]
      <4>1. CASE i = j + 1
        BY <3>2, <3>5, <4>1 DEF e
      <4>2. CASE i # j + 1
        <5>1. i \in 1..j
          BY <2>1, <4>2
        <5> QED BY <3>1, <3>2, <3>4, <5>1
      <4> QED BY <4>1, <4>2
    <3> HIDE DEF w, v
    <3>8. v = w
      BY <3>4, <3>6, <3>7, SameSeq DEF v
    <3> QED BY <3>4, <3>8 DEF v, w, a, e
  <2>9. Before(frame, j + 1) = Gone(frame, j + 1)
    BY <2>1 DEF Before
  <2> QED
    <3>1. Holds(g[j + 1].cache, Before(frame, j + 1))
      BY <2>2, <2>4, <2>5, <2>9
    <3>2. g[j + 1].codes = HeardTo(frame, j + 1)
      BY <2>4, <2>7, <2>8
    <3> QED BY <2>1, <3>1, <3>2 DEF P
<1> HIDE DEF P
<1>5. SubCodes \in P
  <2>1. SubCodes \in Nat /\ SubCodes \in 0..SubCodes
    BY TalkerAssumption
  <2> QED
    BY <1>3, <1>4, <2>1, Reached
<1>6. g[SubCodes].codes = HeardTo(frame, SubCodes)
  BY <1>5 DEF P
<1> QED
  BY <1>1, <1>6 DEF Gone, HeardTo, CodesTo
-----------------------------------------------------------------------------
(***************************************************************************)
(* The prompts are sequences, for every call.                              *)
(***************************************************************************)
\* A table over 1..n is a sequence for any integer n.
LEMMA SpanIsSeq ==
  ASSUME NEW n \in Int, NEW s, s = [i \in 1..n |-> s[i]]
  PROVE  IsSeq(s)
<1>1. CASE n >= 0
  <2>1. n \in Nat
    BY <1>1
  <2> QED BY <2>1, TableIsSeq
<1>2. CASE n < 0
  <2>1. 1..n = 1..0
    BY <1>2
  <2>2. s = [i \in 1..0 |-> s[i]]
    BY <2>1
  <2> QED BY <2>2, TableIsSeq
<1> QED BY <1>1, <1>2

\* So is any piece, and
LEMMA AnySub == ASSUME NEW s, NEW a \in Int, NEW b \in Int PROVE IsSeq(SubSeq(s, a, b))
<1> DEFINE S == {s[i] : i \in a..b}
<1>1. \A i \in a..b : s[i] \in S
  OBVIOUS
<1> HIDE DEF S
<1>2. SubSeq(s, a, b) \in Seq(S)
  BY <1>1, SubSeqProperties
<1> QED BY <1>2, TypedIsSeq

\* every small tuple.
LEMMA Tuples ==
  /\ \A a : IsSeq(<<a>>)
  /\ \A a, b : IsSeq(<<a, b>>)
  /\ \A a, b, c : IsSeq(<<a, b, c>>)
  /\ \A a, b, c, d : IsSeq(<<a, b, c, d>>)
<1>1. ASSUME NEW a PROVE IsSeq(<<a>>)
  BY OneIsSeq
<1>2. ASSUME NEW a, NEW b PROVE IsSeq(<<a, b>>)
  <2>1. <<a, b>> \in Seq({a, b})
    OBVIOUS
  <2> QED BY <2>1, TypedIsSeq
<1>3. ASSUME NEW a, NEW b, NEW c PROVE IsSeq(<<a, b, c>>)
  <2>1. <<a, b, c>> \in Seq({a, b, c})
    OBVIOUS
  <2> QED BY <2>1, TypedIsSeq
<1>4. ASSUME NEW a, NEW b, NEW c, NEW d PROVE IsSeq(<<a, b, c, d>>)
  <2>1. <<a, b, c, d>> \in Seq({a, b, c, d})
    OBVIOUS
  <2> QED BY <2>1, TypedIsSeq
<1> QED BY <1>1, <1>2, <1>3, <1>4

\* What the prompts are put together from are sequences:
LEMMA PositionsAreSeqs ==
  ASSUME NEW texts, IsSeq(texts), NEW e
  PROVE  /\ IsSeq(TextOnly(texts)) /\ IsSeq(Over(texts, e)) /\ IsSeq(Under(e, texts))
         /\ IsSeq(Prefixed(texts)) /\ IsSeq(Append(texts, e))
         /\ \A k \in Int : IsSeq(Stripped(texts, k))
<1>1. Len(texts) \in Nat /\ DOMAIN texts = 1..Len(texts)
  BY SeqIsTable
<1>2. IsSeq(TextOnly(texts))
  <2> DEFINE t == TextOnly(texts)
  <2>1. t = [i \in 1..Len(texts) |-> t[i]]
    BY <1>1 DEF TextOnly
  <2> HIDE DEF t
  <2>2. IsSeq(t)
    BY <1>1, <2>1, TableIsSeq
  <2> QED BY <2>2 DEF t
<1>3. IsSeq(Over(texts, e))
  <2> DEFINE t == Over(texts, e)
  <2>1. t = [i \in 1..Len(texts) |-> t[i]]
    BY <1>1 DEF Over
  <2> HIDE DEF t
  <2>2. IsSeq(t)
    BY <1>1, <2>1, TableIsSeq
  <2> QED BY <2>2 DEF t
<1>4. IsSeq(Under(e, texts))
  <2> DEFINE t == Under(e, texts)
  <2>1. t = [i \in 1..Len(texts) |-> t[i]]
    BY <1>1 DEF Under
  <2> HIDE DEF t
  <2>2. IsSeq(t)
    BY <1>1, <2>1, TableIsSeq
  <2> QED BY <2>2 DEF t
<1>5. IsSeq(Prefixed(texts))
  <2> DEFINE t == Prefixed(texts)
             n == Len(texts) - 1
  <2>1. t = [i \in 1..n |-> t[i]]
    BY DEF Prefixed
  <2>2. n \in Int
    BY <1>1
  <2> HIDE DEF t, n
  <2>3. IsSeq(t)
    BY <2>1, <2>2, SpanIsSeq
  <2> QED BY <2>3 DEF t
<1>6. ASSUME NEW k \in Int PROVE IsSeq(Stripped(texts, k))
  BY <1>1, AnySub DEF Stripped
<1> QED BY <1>2, <1>3, <1>4, <1>5, <1>6, Appended

\* the texts without their role and end tokens,
LEMMA StrippedIsSeq == \A ids : IsSeq(ids) => IsSeq(Stripped(ids, 2)) /\ IsSeq(Stripped(ids, 5))
<1> SUFFICES ASSUME NEW ids, IsSeq(ids) PROVE IsSeq(Stripped(ids, 2)) /\ IsSeq(Stripped(ids, 5))
  OBVIOUS
<1>1. \A k \in Int : IsSeq(Stripped(ids, k))
  BY PositionsAreSeqs
<1> QED BY <1>1

\* what is joined of two, and
LEMMA Joins2 == \A s, t : IsSeq(s) /\ IsSeq(t) => IsSeq(s \o t)
BY Concat

\* the codec prefix, the speaker, the roles and the names.
LEMMA PromptParts ==
  /\ \A language \in BOOLEAN : \A s : IsSeq(s) => IsSeq(CodecPrefix(language, s))
  /\ IsSeq(Speaker) /\ IsSeq(Role) /\ IsSeq(User) /\ IsSeq(EndOfTurn)
  /\ \A name : \A n \in Nat : IsSeq(Tokens(name, n))
<1>1. IsSeq(Speaker) /\ IsSeq(Role) /\ IsSeq(User) /\ IsSeq(EndOfTurn)
  BY Tuples DEF Speaker, Role, User, EndOfTurn
<1>2. ASSUME NEW language \in BOOLEAN, NEW s, IsSeq(s) PROVE IsSeq(CodecPrefix(language, s))
  <2> DEFINE p == IF language
                  THEN <<Token("think"), Token("think_bos"), Token("language"), Token("think_eos")>>
                              ELSE <<Token("nothink"), Token("think_bos"), Token("think_eos")>>
             q == <<CodecPad, CodecBos>>
  <2>1. IsSeq(p) /\ IsSeq(q)
    BY Tuples
  <2>2. CodecPrefix(language, s) = (p \o s) \o q
    BY DEF CodecPrefix
  <2> HIDE DEF p, q
  <2> QED BY <1>2, <2>1, <2>2, Joins2
<1>3. ASSUME NEW name, NEW n \in Nat PROVE IsSeq(Tokens(name, n))
  <2> DEFINE t == Tokens(name, n)
  <2>1. t = [i \in 1..n |-> t[i]]
    BY DEF Tokens
  <2> HIDE DEF t
  <2>2. IsSeq(t)
    BY <2>1, TableIsSeq
  <2> QED BY <2>2 DEF t
<1> QED BY <1>1, <1>2, <1>3

\* Whoever calls, the prompt is a sequence.
LEMMA PromptIsSeq ==
  ASSUME req \in Request, session \in [kind : Kinds, language : BOOLEAN]
  PROVE  IsSeq(Call.prompt)
<1>1. /\ IsSeq(RefIds) /\ IsSeq(RefCodes) /\ IsSeq(Text) /\ IsSeq(Ids) /\ IsSeq(SpokenText)
      /\ IsSeq(Description)
  <2>1. req.tokens \in Nat
    BY NativeAssumption DEF Request
  <2>2. IsSeq(RefCodes) /\ IsSeq(Text) /\ IsSeq(Description) /\ IsSeq(Tokens("ref", RefTokens))
    BY <2>1, PipelineAssumption, PromptParts DEF RefCodes, Text, Description
  <2>3. IsSeq(RefIds)
    BY <2>2, PromptParts, Joins2 DEF RefIds, ReferenceIds
  <2>4. IsSeq(Ids)
    BY <2>2, PromptParts, Joins2 DEF Ids, SynthesisIds
  <2>5. IsSeq(SpokenText)
    BY <2>2, Appended DEF SpokenText
  <2> QED BY <2>2, <2>3, <2>4, <2>5
<1>2. ASSUME NEW ids, IsSeq(ids)
      PROVE  IsSeq(PlainPrompt(ids)) /\ IsSeq(XvectorPrompt(ids))
  <2>1. IsSeq(TextOnly(SubSeq(ids, 1, 3)))
    BY AnySub, PositionsAreSeqs
  <2>2. IsSeq(Over(Append(Stripped(ids, 5), Eos), CodecPad))
    <3>1. IsSeq(Stripped(ids, 5))
      BY <1>2, PositionsAreSeqs
    <3>2. IsSeq(Append(Stripped(ids, 5), Eos))
      BY <3>1, PositionsAreSeqs
    <3> QED BY <3>2, PositionsAreSeqs
  <2>3. IsSeq(Prefixed(CodecPrefix(TRUE, Speaker)))
    BY PromptParts, PositionsAreSeqs
  <2>4. IsSeq(PlainPrompt(ids))
    <3>1. IsSeq(<<Position(Pad, CodecBos)>>)
      BY Tuples
    <3> QED BY <2>1, <2>2, <2>3, <3>1, Joins2 DEF PlainPrompt
  <2>5. IsSeq(XvectorPrompt(ids))
    <3> DEFINE before ==
                 <<Token("think"), Token("think_bos"), Token("language"), Token("think_eos")>>
               prefix == before \o Speaker \o <<CodecPad, CodecBos>>
               last == <<Position(Pad, prefix[7])>>
    <3>1. IsSeq(before) /\ IsSeq(<<CodecPad, CodecBos>>) /\ IsSeq(last)
      BY Tuples
    <3>2. XvectorPrompt(ids) = TextOnly(SubSeq(ids, 1, 3)) \o Prefixed(prefix)
            \o Over(Append(Stripped(ids, 5), Eos), CodecPad) \o last
      BY DEF XvectorPrompt
    <3> HIDE DEF before, last
    <3>3. IsSeq(prefix)
      BY <3>1, PromptParts, Joins2
    <3> HIDE DEF prefix
    <3>4. IsSeq(Prefixed(prefix))
      BY <3>3, PositionsAreSeqs
    <3> QED BY <2>1, <2>2, <3>1, <3>2, <3>4, Joins2
  <2> QED BY <2>4, <2>5
<1>3. IsSeq(InstructPrompt(Description, Ids))
  <2>1. IsSeq(PlainPrompt(Ids))
    BY <1>1, <1>2
  <2>2. IsSeq(User \o Description \o EndOfTurn)
    BY <1>1, PromptParts, Joins2
  <2>3. IsSeq(Over(User \o Description \o EndOfTurn, CodecPad))
    BY <2>2, PositionsAreSeqs
  <2> DEFINE p == IF Description = <<>> THEN <<>>
                  ELSE Over(User \o Description \o EndOfTurn, CodecPad)
  <2>4. IsSeq(p)
    BY <2>3, EmptyIsSeq
  <2>5. InstructPrompt(Description, Ids) = p \o PlainPrompt(Ids)
    BY DEF InstructPrompt
  <2> HIDE DEF p
  <2> QED BY <2>1, <2>4, <2>5, Joins2
<1>4. ASSUME NEW language \in BOOLEAN
      PROVE  /\ IsSeq(IclPrompt(RefIds, Ids, RefCodes, language))
             /\ IsSeq(FromCache(PromptCache(RefIds, RefCodes, language), Ids))
  <2> DEFINE a == TextOnly(SubSeq(RefIds, 1, 3))
             b == Prefixed(CodecPrefix(language, Speaker))
             c == Stripped(RefIds, 2)
             d == Stripped(Ids, 5)
             e == <<Eos>>
             f == Under(Pad, <<CodecBos>> \o RefCodes)
  <2>1. IsSeq(a)
    BY AnySub, PositionsAreSeqs
  <2>2. IsSeq(b)
    BY PromptParts, PositionsAreSeqs
  <2>3. IsSeq(c) /\ IsSeq(d) /\ IsSeq(e)
    <3>1. IsSeq(Stripped(RefIds, 2)) /\ IsSeq(Stripped(Ids, 5))
      BY <1>1, StrippedIsSeq
    <3> QED BY <3>1, Tuples
  <2>4. IsSeq(f)
    <3>1. IsSeq(<<CodecBos>> \o RefCodes)
      BY <1>1, Tuples, Joins2
    <3> QED BY <3>1, PositionsAreSeqs
  <2>5. /\ IclPrompt(RefIds, Ids, RefCodes, language) = a \o b \o Over(c \o d \o e, CodecPad) \o f
        /\ FromCache(PromptCache(RefIds, RefCodes, language), Ids)
             = a \o b \o Over(c \o d \o e, CodecPad) \o f
    BY DEF IclPrompt, FromCache, PromptCache
  <2> HIDE DEF a, b, c, d, e, f
  <2>6. IsSeq(c \o d \o e)
    BY <2>3, Joins2
  <2>7. IsSeq(Over(c \o d \o e, CodecPad))
    BY <2>6, PositionsAreSeqs
  <2> QED BY <2>1, <2>2, <2>4, <2>5, <2>7, Joins2
<1>5. ASSUME NEW language \in BOOLEAN
      PROVE  IsSeq(DesignPrompt(Description, SpokenText, language))
  <2>1. IsSeq(User \o Description \o EndOfTurn)
    BY <1>1, PromptParts, Joins2
  <2>2. IsSeq(TextOnly(User \o Description \o EndOfTurn)) /\ IsSeq(TextOnly(Role))
    BY <2>1, PromptParts, PositionsAreSeqs
  <2>3. IsSeq(Prefixed(CodecPrefix(language, <<>>)))
    BY EmptyIsSeq, PromptParts, PositionsAreSeqs
  <2>4. IsSeq(<<Position(SpokenText[1], CodecBos)>>)
    BY Tuples
  <2> QED BY <2>2, <2>3, <2>4, Joins2 DEF DesignPrompt
<1>6. session.kind \in Kinds /\ session.language \in BOOLEAN
  OBVIOUS
<1> USE DEF Streams, AllAtOnce
<1>7. /\ IsSeq(GenerateWithParams.prompt) /\ IsSeq(GenerateWithInstruct.prompt)
      /\ IsSeq(GenerateWithXvector.prompt)
  BY <1>1, <1>2, <1>3 DEF GenerateWithParams, GenerateWithInstruct, GenerateWithXvector
<1>8. /\ IsSeq(GenerateWithIcl.prompt) /\ IsSeq(GenerateWithIclTimed.prompt)
      /\ IsSeq(TraceWithIcl.prompt) /\ IsSeq(GenerateWithIclStreaming.prompt)
      /\ IsSeq(GenerateWithIclSession.prompt)
  BY <1>4, <1>6 DEF GenerateWithIcl, GenerateWithIclTimed, TraceWithIcl, GenerateWithIclStreaming,
     GenerateWithIclSession
<1>9. IsSeq(GenerateWithDesignSession.prompt)
  BY <1>5, <1>6 DEF GenerateWithDesignSession
<1> QED BY <1>6, <1>7, <1>8, <1>9 DEF Kinds, Call
-----------------------------------------------------------------------------
(***************************************************************************)
(* The talker: it keeps all it was fed.                                    *)
(***************************************************************************)
\* What the talker keeps, on either backend, is what it was fed.
TalkerInv ==
  /\ step \in Nat /\ IsSeq(fed)
  /\ Holds(talker.blocks, fed) /\ talker.joined = Keyed(fed)
  /\ TalkerSees(fed)
  /\ step > 0 => PredictorSees(step)

SeesAll(out, s) ==
  \A r \in DOMAIN out : out[r] = Everything(SubSeq(s, 1, Len(s) - Len(out) + r))

\* A pass keeps the talker at what it was fed.
LEMMA PassedOn ==
  ASSUME NEW s, IsSeq(s), NEW x, IsSeq(x), NEW t, Holds(t.blocks, s), t.joined = Keyed(s)
  PROVE  /\ IsSeq(s \o x)
         /\ Holds(Passed(t, x).blocks, s \o x) /\ Passed(t, x).joined = Keyed(s \o x)
         /\ SeesAll(Forward(t.blocks, x).out, s \o x)
<1> DEFINE pass == Forward(t.blocks, x)
           out == pass.out
<1>1. /\ Holds(pass.cache, s \o x) /\ IsSeq(out) /\ Len(out) = Len(x)
      /\ \A r \in 1..Len(x) : out[r] = Everything(SubSeq(s \o x, 1, Len(s) + r))
  BY ForwardSees
<1>2. Len(Keyed(s)) = Len(s) /\ Keyed(s) \o Rotated(x, Len(s)) = Keyed(s \o x)
  BY KeyedGrows
<1>3. Passed(t, x).blocks = pass.cache
  BY DEF Passed
<1>4. Passed(t, x).joined = Keyed(s \o x)
  BY <1>2 DEF Passed, Concatenated
<1>5. Fetched(pass.cache) = Keyed(s \o x)
  BY <1>1 DEF Holds
<1>6. IsSeq(s \o x) /\ Len(s \o x) = Len(s) + Len(x) /\ Len(s) \in Nat /\ Len(x) \in Nat
  BY Concat, SeqIsTable
<1>7. DOMAIN out = 1..Len(x)
  BY <1>1, SeqIsTable
<1> HIDE DEF pass, out
<1>8. SeesAll(out, s \o x)
  <2> SUFFICES ASSUME NEW r \in 1..Len(x)
               PROVE  out[r] = Everything(SubSeq(s \o x, 1, Len(s \o x) - Len(out) + r))
    BY <1>7 DEF SeesAll
  <2>1. Len(s \o x) - Len(out) + r = Len(s) + r
    BY <1>1, <1>6
  <2> QED BY <1>1, <2>1
<1> QED BY <1>1, <1>3, <1>4, <1>5, <1>6, <1>8 DEF pass, out

\* No keys hold nothing.
LEMMA NothingHeld == Holds(NoKeys, <<>>) /\ Keyed(<<>>) = <<>>
<1>1. NoKeys.store = <<>> /\ NoKeys.offset = 0
  BY DEF NoKeys
<1>2. Fetched(NoKeys) = <<>>
  BY <1>1 DEF Fetched
<1>3. Keyed(<<>>) = <<>>
  BY EmptyIsSeq DEF Keyed
<1> QED BY <1>1, <1>2, <1>3, EmptyIsSeq DEF Holds

\* The first pass sees its own prompt.
LEMMA FirstPass ==
  ASSUME NEW x, IsSeq(x), NEW t, t.blocks = NoKeys, t.joined = <<>>
  PROVE  /\ Holds(Passed(t, x).blocks, x) /\ Passed(t, x).joined = Keyed(x)
         /\ SeesAll(Forward(NoKeys, x).out, x)
<1>1. \E s : IsSeq(s) /\ Holds(t.blocks, s) /\ t.joined = Keyed(s) /\ s \o x = x
  <2>1. IsSeq(<<>>) /\ Holds(t.blocks, <<>>) /\ t.joined = Keyed(<<>>)
    BY NothingHeld, EmptyIsSeq
  <2>2. <<>> \o x = x
    BY ConcatEmptySeq DEF IsSeq
  <2> QED BY <2>1, <2>2
<1>2. PICK s : IsSeq(s) /\ Holds(t.blocks, s) /\ t.joined = Keyed(s) /\ s \o x = x
  BY <1>1
<1>3. /\ Holds(Passed(t, x).blocks, s \o x) /\ Passed(t, x).joined = Keyed(s \o x)
      /\ SeesAll(Forward(t.blocks, x).out, s \o x)
  <2>1. IsSeq(s) /\ Holds(t.blocks, s) /\ t.joined = Keyed(s)
    BY <1>2
  <2> QED BY ONLY <2>1, IsSeq(x), PassedOn
<1>4. s \o x = x
  BY <1>2
<1> QED BY ONLY <1>3, <1>4, t.blocks = NoKeys

\* The prompt went through first,
LEMMA TalkerInit == PInit => TalkerInv
<1> SUFFICES ASSUME PInit PROVE TalkerInv
  OBVIOUS
<1> DEFINE x == Call.prompt
           t == [blocks |-> NoKeys, joined |-> <<>>]
<1>1. /\ req \in Request /\ session \in [kind : Kinds, language : BOOLEAN] /\ step = 0
      /\ fed = x /\ Prefill(x)
  BY DEF PInit, Init
<1>2. IsSeq(x)
  BY <1>1, PromptIsSeq
<1> HIDE DEF x
<1>4. t.blocks = NoKeys /\ t.joined = <<>>
  OBVIOUS
<1>5. talker = Passed(t, x) /\ heard = Forward(NoKeys, x).out
  BY <1>1 DEF Prefill
<1> HIDE DEF t
<1>7. /\ Holds(Passed(t, x).blocks, x) /\ Passed(t, x).joined = Keyed(x)
      /\ SeesAll(Forward(NoKeys, x).out, x)
  BY <1>2, <1>4, FirstPass
<1> QED BY <1>1, <1>2, <1>5, <1>7 DEF TalkerInv, TalkerSees, SeesAll, Holds

\* and one frame with every further pass.
LEMMA TalkerNext == TalkerInv /\ [PNext]_plvars => TalkerInv'
<1> SUFFICES ASSUME TalkerInv, [PNext]_plvars PROVE TalkerInv'
  OBVIOUS
<1>1. CASE UNCHANGED <<fed, tvars, step>>
  BY <1>1 DEF TalkerInv, TalkerSees, PredictorSees, tvars
<1>2. CASE PNext /\ step' # step
  <2> DEFINE p == Position(TextStep(Call.trailing, step), <<"frame", step'>>)
  <2>1. fed' = Append(fed, p) /\ TalkerStep(step', p)
    BY <1>2 DEF PNext, Feed
  <2>2. step' \in Nat
    BY <1>2 DEF PNext, Next, Generate, EndOfSpeech, HitCap, ChunkReady, FinalBatch, Return,
       Finished, vars, TalkerInv
  <2> HIDE DEF p
  <2> DEFINE x == <<p>>
  <2>3. IsSeq(fed) /\ IsSeq(x) /\ fed' = fed \o x
    BY <2>1, OneIsSeq, Appended DEF TalkerInv
  <2>4. talker' = Passed(talker, x) /\ heard' = Forward(talker.blocks, x).out
    BY <2>1 DEF TalkerStep
  <2> HIDE DEF x
  <2>5. /\ IsSeq(fed') /\ Holds(talker'.blocks, fed') /\ talker'.joined = Keyed(fed')
        /\ SeesAll(heard', fed')
    <3>1. Holds(talker.blocks, fed) /\ talker.joined = Keyed(fed)
      BY DEF TalkerInv
    <3>2. /\ IsSeq(fed \o x)
          /\ Holds(Passed(talker, x).blocks, fed \o x) /\ Passed(talker, x).joined = Keyed(fed \o x)
          /\ SeesAll(Forward(talker.blocks, x).out, fed \o x)
      BY ONLY <2>3, <3>1, PassedOn
    <3> QED BY <2>3, <2>4, <3>2
  <2>6. PredictorSees(step)'
    <3>1. subCodes' = Predicted(predictor, step').codes
      BY <2>1 DEF TalkerStep
    <3> QED BY <3>1, PredictorHears DEF PredictorSees
  <2> QED BY <2>2, <2>5, <2>6 DEF TalkerInv, TalkerSees, SeesAll, Holds
<1>3. CASE PNext /\ step' = step
  BY <1>1, <1>3 DEF PNext, Feed
<1>4. CASE UNCHANGED plvars
  BY <1>1, <1>4 DEF plvars, vars
<1> QED BY <1>2, <1>3, <1>4

\* Talker and predictor see the whole prompt and every code before, on either
\* backend, however the caches grew and however often they were cleared.
THEOREM TalkerHearsAll == PSpec => []TalkerSeesAll
<1>1. TalkerInv => TalkerSeesAll
  BY DEF TalkerInv, TalkerSeesAll
<1> QED BY <1>1, TalkerInit, TalkerNext, PTL DEF PSpec
-----------------------------------------------------------------------------
(***************************************************************************)
(* The penalty of a code that was sampled before.                          *)
(***************************************************************************)
\* Dividing and multiplying by the penalty, rounded down, go to either side.
LEMMA DividedIs ==
  ASSUME NEW s \in Int
  PROVE  /\ Divided(s) \in Int /\ Multiplied(s) \in Int
         /\ s > 0 => Divided(s) <= s /\ s <= Multiplied(s)
         /\ s <= 0 => Multiplied(s) <= s /\ s <= Divided(s)
<1> DEFINE U == PenaltyUp
           D == PenaltyDown
           a == s * D
           b == s * U
<1>1. U \in Nat \ {0} /\ D \in Nat \ {0} /\ U >= D
  BY SamplerAssumption
<1>2. a \in Int /\ b \in Int
  BY <1>1
<1>3. (s > 0 => a <= b) /\ (s <= 0 => b <= a)
  <2>1. U - D \in Nat /\ s * (U - D) = b - a
    BY <1>1
  <2> DEFINE d == U - D
  <2>2. d \in Nat /\ (s > 0 => s * d >= 0) /\ (s <= 0 => s * d <= 0)
    <3>1. d \in Nat
      BY <2>1
    <3> HIDE DEF d
    <3>2. \A x, y \in Nat : x * y \in Nat
      OBVIOUS
    <3>3. s > 0 => s * d >= 0
      BY <3>1, <3>2
    <3>4. s <= 0 => (-s) * d >= 0 /\ (-s) * d = -(s * d)
      BY <3>1, <3>2
    <3>5. s * d \in Int
      BY <3>1
    <3> QED BY <3>1, <3>3, <3>4, <3>5
  <2> HIDE DEF a, b
  <2> QED BY <1>2, <2>1, <2>2
<1>4. ASSUME NEW x \in Int, NEW m \in Nat \ {0}
      PROVE  /\ x \div m \in Int /\ (x \div m) * m \in Int
             /\ (x \div m) * m <= x /\ x < (x \div m) * m + m
  <2>1. x \div m \in Int
    OBVIOUS
  <2>2. (x \div m) * m <= x
    OBVIOUS
  <2>3. x < (x \div m) * m + m
    OBVIOUS
  <2> DEFINE q == x \div m
  <2>4. q * m \in Int
    BY <2>1
  <2> QED BY <2>1, <2>2, <2>3, <2>4
<1>5. ASSUME NEW x \in Int, NEW m \in Nat \ {0}, NEW t \in Int
      PROVE  (x <= t * m => x \div m <= t) /\ (t * m <= x => t <= x \div m)
  <2> DEFINE q == x \div m
             p == q * m
             r == t * m
  <2>1. q \in Int /\ p \in Int /\ p <= x /\ x < p + m /\ r \in Int
    BY <1>4
  <2> HIDE DEF q
  <2>2. \A y, z \in Int : y >= 1 /\ z >= 1 => y * z >= z
    OBVIOUS
  <2>3. CASE q > t
    <3>1. (q - t) * m >= m /\ (q - t) * m = p - r
      BY <2>1, <2>2, <2>3
    <3> HIDE DEF p, r
    <3>2. ~(x <= r)
      BY <2>1, <3>1
    <3>3. t <= q
      BY <2>1, <2>3
    <3> QED BY <3>2, <3>3 DEF q, r
  <2>4. CASE q < t
    <3>1. (t - q) * m >= m /\ (t - q) * m = r - p
      BY <2>1, <2>2, <2>4
    <3> HIDE DEF p, r
    <3>2. ~(r <= x)
      BY <2>1, <3>1
    <3>3. q <= t
      BY <2>1, <2>4
    <3> QED BY <3>2, <3>3 DEF q, r
  <2>5. CASE q = t
    BY <2>1, <2>5 DEF q
  <2> QED BY <2>1, <2>3, <2>4, <2>5
<1>6. Divided(s) = a \div U /\ Multiplied(s) = b \div D
  BY DEF Divided, Multiplied
<1> DEFINE aU == a \div U
           bD == b \div D
<1>7. aU \in Int /\ bD \in Int
  BY <1>1, <1>2, <1>4
<1>8. (a <= s * U => aU <= s) /\ (s * U <= a => s <= aU)
  BY <1>1, <1>2, <1>5
<1>9. (b <= s * D => bD <= s) /\ (s * D <= b => s <= bD)
  BY <1>1, <1>2, <1>5
<1>10. (a <= b => aU <= s /\ s <= bD) /\ (b <= a => bD <= s /\ s <= aU)
  BY <1>8, <1>9
<1> HIDE DEF aU, bD, a, b
<1> QED BY <1>3, <1>6, <1>7, <1>10 DEF aU, bD

\* Where a logit is positive the division is the lesser one.
PenaltyOf(s) == IF s > 0 THEN Divided(s) ELSE Multiplied(s)

\* It is what the code takes.
LEMMA LesserIs ==
  ASSUME NEW s \in Int
  PROVE  /\ PenaltyOf(s) = Lesser(Divided(s), Multiplied(s))
         /\ PenaltyOf(s) \in Int
<1> DEFINE d == Divided(s)
           m == Multiplied(s)
<1>1. d \in Int /\ m \in Int /\ (s > 0 => d <= s /\ s <= m) /\ (s <= 0 => m <= s /\ s <= d)
  BY DividedIs
<1> HIDE DEF d, m
<1>2. CASE s > 0
  <2>1. d <= m
    BY <1>1, <1>2
  <2> QED BY <1>1, <1>2, <2>1 DEF PenaltyOf, Lesser, d, m
<1>3. CASE ~(s > 0)
  <2>1. m <= d
    BY <1>1, <1>3
  <2>2. d <= m => d = m
    BY <1>1, <2>1
  <2> QED BY <1>1, <1>3, <2>2 DEF PenaltyOf, Lesser, d, m
<1> QED BY <1>2, <1>3
-----------------------------------------------------------------------------
(***************************************************************************)
(* The penalty as the test penalty_tests states it.                        *)
(***************************************************************************)
\* The state of the rule after each code.
Untouched(logits) == [seen |-> {}, logits |-> logits]
IsHost(g, logits, past, n) ==
  g = [i \in 0..n |-> IF i = 0 THEN Untouched(logits) ELSE HostStep(g[i - 1], past[i])]

\* The rule can be followed to the n-th code.
LEMMA Hostable ==
  ASSUME NEW logits, NEW past, NEW n \in Nat
  PROVE  \E g : IsHost(g, logits, past, n)
<1> DEFINE P == {k \in 0..n : \E g : IsHost(g, logits, past, k)}
<1>1. 0 \in P
  <2> DEFINE g == [j \in 0..0 |-> Untouched(logits)]
  <2>1. IsHost(g, logits, past, 0)
    BY DEF IsHost
  <2> QED BY <2>1
<1>2. ASSUME NEW k \in 0..(n - 1), k \in P PROVE k + 1 \in P
  <2>1. PICK g : IsHost(g, logits, past, k)
    BY <1>2
  <2> DEFINE h == [j \in 0..k + 1 |-> IF j = k + 1 THEN HostStep(g[k], past[k + 1]) ELSE g[j]]
  <2>2. \A j \in 0..k : h[j] = g[j]
    OBVIOUS
  <2>3. h = [j \in 0..k + 1 |-> IF j = 0 THEN Untouched(logits) ELSE HostStep(h[j - 1], past[j])]
    <3>1. ASSUME NEW j \in 0..k + 1
          PROVE  h[j] = IF j = 0 THEN Untouched(logits) ELSE HostStep(h[j - 1], past[j])
      <4>1. CASE j = k + 1
        <5>1. j # 0 /\ j - 1 = k /\ h[j - 1] = g[k]
          BY <4>1
        <5> QED BY <4>1, <5>1
      <4>2. CASE j # k + 1
        <5>1. j \in 0..k /\ h[j] = g[j] /\ (j # 0 => j - 1 \in 0..k /\ h[j - 1] = g[j - 1])
          BY <4>2
        <5> HIDE DEF h
        <5>2. g[j] = IF j = 0 THEN Untouched(logits) ELSE HostStep(g[j - 1], past[j])
          BY <2>1, <5>1 DEF IsHost
        <5> QED BY <5>1, <5>2
      <4> QED BY <4>1, <4>2
    <3>2. h = [j \in 0..k + 1 |-> h[j]]
      OBVIOUS
    <3> HIDE DEF h
    <3> QED BY <3>1, <3>2
  <2> HIDE DEF h
  <2>4. IsHost(h, logits, past, k + 1)
    BY <2>3 DEF IsHost
  <2>5. k + 1 \in 0..n
    OBVIOUS
  <2> QED BY <2>4, <2>5
<1> HIDE DEF P
<1>3. n \in P
  BY <1>1, <1>2, Reached
<1> QED BY <1>3 DEF P

\* The logits when the codes S have had their penalty.
After(logits, S) == [c \in Codes |-> IF c \in S THEN PenaltyOf(logits[c]) ELSE logits[c]]
SpokenTo(past, i) == {past[j] : j \in 1..i}
HostAfter(logits, S) == [seen |-> S, logits |-> After(logits, S)]

\* One more code adds its penalty, unless it had it.
LEMMA OneMore ==
  ASSUME NEW logits \in [Codes -> Int], NEW S, NEW code \in Codes
  PROVE  HostStep(HostAfter(logits, S), code) = HostAfter(logits, S \cup {code})
<1> DEFINE a == After(logits, S)
<1>1. CASE code \in S
  <2>1. S \cup {code} = S
    BY <1>1
  <2> QED BY <1>1, <2>1 DEF HostStep, HostAfter
<1>2. CASE code \notin S
  <2> DEFINE T == S \cup {code}
             s == logits[code]
  <2>1. a[code] = s
    BY <1>2 DEF After
  <2>2. [a EXCEPT ![code] = PenaltyOf(s)] = After(logits, T)
    BY DEF After
  <2> HIDE DEF a, T, s
  <2> QED BY <1>2, <2>1, <2>2 DEF HostStep, HostAfter, PenaltyOf, a, T
<1> QED BY <1>1, <1>2

\* Code after code, each once: that is what the mask of the codes so far gives.
LEMMA HostIsPenalized ==
  ASSUME NEW logits \in [Codes -> Int], NEW past \in Seq(Codes)
  PROVE  HostPenalized(logits, past) = Penalized(logits, past)
<1> DEFINE n == Len(past)
           g == CHOOSE g : IsHost(g, logits, past, n)
           P == {i \in 0..n : g[i] = HostAfter(logits, SpokenTo(past, i))}
<1>1. n \in Nat /\ DOMAIN past = 1..n /\ \A i \in 1..n : past[i] \in Codes
  OBVIOUS
<1>2. IsHost(g, logits, past, n)
  <2> HIDE DEF n
  <2> QED BY <1>1, Hostable
<1>3. HostPenalized(logits, past) = g[n].logits
  BY DEF HostPenalized, IsHost, Untouched
<1> HIDE DEF g, n
<1>4. /\ g[0] = Untouched(logits)
      /\ \A i \in 0..n - 1 : g[i + 1] = HostStep(g[i], past[i + 1])
  <2>1. \A i \in 0..n : g[i] = IF i = 0 THEN Untouched(logits) ELSE HostStep(g[i - 1], past[i])
    BY <1>2 DEF IsHost
  <2>2. \A i \in 0..n - 1 : i + 1 \in 0..n /\ i + 1 # 0 /\ (i + 1) - 1 = i
    BY <1>1
  <2> QED BY <1>1, <2>1, <2>2
<1>5. 0 \in P
  <2>1. SpokenTo(past, 0) = {}
    BY DEF SpokenTo
  <2>2. After(logits, {}) = logits
    BY DEF After
  <2>3. g[0] = HostAfter(logits, SpokenTo(past, 0))
    BY <1>4, <2>1, <2>2 DEF Untouched, HostAfter
  <2> QED BY <1>1, <2>3
<1>6. ASSUME NEW i \in 0..n - 1, i \in P PROVE i + 1 \in P
  <2>1. i + 1 \in 1..n /\ past[i + 1] \in Codes
    BY <1>1
  <2>2. SpokenTo(past, i + 1) = SpokenTo(past, i) \cup {past[i + 1]}
    <3>1. \A j \in 1..i + 1 : j \in 1..i \/ j = i + 1
      OBVIOUS
    <3>2. 1..i \subseteq 1..i + 1 /\ i + 1 \in 1..i + 1
      OBVIOUS
    <3> QED BY <3>1, <3>2 DEF SpokenTo
  <2> DEFINE S == SpokenTo(past, i)
             code == past[i + 1]
  <2>3. g[i] = HostAfter(logits, S) /\ g[i + 1] = HostStep(g[i], code)
    BY <1>4, <1>6
  <2>4. HostStep(HostAfter(logits, S), code) = HostAfter(logits, S \cup {code})
    <3> HIDE DEF S, code
    <3>1. code \in Codes
      BY <2>1 DEF code
    <3> QED BY <3>1, OneMore
  <2>5. g[i + 1] = HostAfter(logits, SpokenTo(past, i + 1))
    BY <2>2, <2>3, <2>4
  <2>6. i + 1 \in 0..n
    BY <1>1
  <2> QED BY <2>5, <2>6
<1>7. n \in P
  <2> HIDE DEF P
  <2>1. n \in Nat /\ 0 \in P /\ \A i \in 0..(n - 1) : i \in P => i + 1 \in P
    BY <1>1, <1>5, <1>6
  <2>2. \A i \in 0..n : i \in P
    BY ONLY <2>1, Reached
  <2> QED BY <2>1, <2>2
<1>8. g[n].logits = After(logits, SpokenTo(past, n))
  BY <1>7 DEF HostAfter
<1>9. After(logits, SpokenTo(past, n)) = Penalized(logits, past)
  <2>1. ASSUME NEW c \in Codes
        PROVE  /\ PenaltyOf(logits[c]) = Lesser(Divided(logits[c]), Multiplied(logits[c]))
               /\ c \in SpokenTo(past, n) <=> \E i \in DOMAIN past : past[i] = c
    <3>1. logits[c] \in Int
      OBVIOUS
    <3>2. PenaltyOf(logits[c]) = Lesser(Divided(logits[c]), Multiplied(logits[c]))
      BY <3>1, LesserIs
    <3>3. c \in SpokenTo(past, n) <=> \E i \in DOMAIN past : past[i] = c
      BY <1>1 DEF SpokenTo
    <3> QED BY <3>2, <3>3
  <2> QED BY <2>1 DEF After, Penalized
<1> QED BY <1>3, <1>8, <1>9
-----------------------------------------------------------------------------
(***************************************************************************)
(* The threshold of top-k.                                                 *)
(***************************************************************************)
\* Of some of the codes one has the highest score.
LEMMA OneIsHighest ==
  ASSUME NEW s \in [Codes -> Int], NEW M \in SUBSET Codes, M # {}
  PROVE  \E c \in M : \A d \in M : s[d] <= s[c]
<1> DEFINE Up(i) == {m \in M : m <= i}
           n == Vocabulary - 1
           P == {i \in 0..n : Up(i) = {} \/ \E c \in Up(i) : \A d \in Up(i) : s[d] <= s[c]}
<1>1. n \in Nat /\ Codes = 0..n
  BY SamplerAssumption DEF Codes
<1> HIDE DEF n
<1>2. \A c \in Codes : s[c] \in Int /\ c \in 0..n
  BY <1>1
<1>3. 0 \in P
  <2>1. \A m \in Up(0) : m = 0
    BY <1>2
  <2>2. \A m \in Up(0) : s[m] \in Int
    BY <1>2
  <2>3. Up(0) = {} \/ \E c \in Up(0) : \A d \in Up(0) : s[d] <= s[c]
    <3> HIDE DEF Up
    <3>1. CASE Up(0) # {}
      <4>1. PICK c \in Up(0) : TRUE
        BY <3>1
      <4>2. \A d \in Up(0) : s[d] <= s[c]
        BY <2>1, <2>2, <4>1
      <4> QED BY <4>1, <4>2
    <3> QED BY <3>1
  <2> QED BY <1>1, <2>3
<1>4. ASSUME NEW i \in 0..n - 1, i \in P PROVE i + 1 \in P
  <2>1. i + 1 \in 0..n /\ i \in Nat
    BY <1>1
  <2>2. \A m \in Up(i + 1) : (m \in Up(i) \/ m = i + 1) /\ m \in M /\ s[m] \in Int
    BY <1>2
  <2>3. \A m \in Up(i) : m \in Up(i + 1)
    BY <1>2
  <2>4. Up(i) = {} \/ \E c \in Up(i) : \A d \in Up(i) : s[d] <= s[c]
    BY <1>4
  <2> DEFINE j == i + 1
             A == Up(i)
             B == Up(j)
  <2>5. B = {} \/ \E c \in B : \A d \in B : s[d] <= s[c]
    <3>1. (\A m \in B : (m \in A \/ m = j) /\ s[m] \in Int) /\ A \subseteq B
      BY <2>2, <2>3
    <3>2. A = {} \/ \E c \in A : \A d \in A : s[d] <= s[c]
      BY <2>4
    <3> HIDE DEF A, B, j
    <3>3. CASE j \notin B
      <4>1. A = B
        BY <3>1, <3>3
      <4> QED BY <3>2, <4>1
    <3>4. CASE j \in B /\ A = {}
      <4>1. \A d \in B : s[d] <= s[j]
        BY <3>1, <3>4
      <4> QED BY <3>4, <4>1
    <3>5. CASE j \in B /\ A # {}
      <4>1. PICK c \in A : \A d \in A : s[d] <= s[c]
        BY <3>2, <3>5
      <4>2. s[c] \in Int /\ s[j] \in Int /\ c \in B
        BY <3>1, <3>5
      <4>3. CASE s[c] <= s[j]
        <5>1. \A d \in B : s[d] <= s[j]
          BY <3>1, <4>1, <4>2, <4>3
        <5> QED BY <3>5, <5>1
      <4>4. CASE s[j] <= s[c]
        <5>1. \A d \in B : s[d] <= s[c]
          BY <3>1, <4>1, <4>4
        <5> QED BY <4>2, <5>1
      <4> QED BY <4>2, <4>3, <4>4
    <3> QED BY <3>3, <3>4, <3>5
  <2> QED BY <2>1, <2>5
<1>5. n \in P
  <2> HIDE DEF P
  <2>1. n \in Nat /\ 0 \in P /\ \A i \in 0..(n - 1) : i \in P => i + 1 \in P
    BY <1>1, <1>3, <1>4
  <2>2. \A i \in 0..n : i \in P
    BY ONLY <2>1, Reached
  <2> QED BY <2>1, <2>2
<1>6. Up(n) = M
  <2>1. \A m \in M : m <= n
    BY <1>1, <1>2
  <2> QED BY <2>1
<1> HIDE DEF Up
<1> QED BY <1>5, <1>6

\* Among that many codes there is a k-th highest score.
LEMMA ThresholdIs ==
  ASSUME NEW s \in [Codes -> Int], NEW k \in Nat, k <= Vocabulary
  PROVE  Threshold(s, k) \in Int
<1> DEFINE Atop(v) == {c \in Codes : s[c] >= v}
           M == {c \in Codes : Cardinality(Atop(s[c])) >= k}
           T == {v \in {s[c] : c \in Codes} : Cardinality(Atop(v)) >= k}
<1>1. Vocabulary \in Nat \ {0} /\ Codes # {} /\ Cardinality(Codes) = Vocabulary
  <2>1. Vocabulary \in Nat \ {0} /\ 0 \in 0..Vocabulary - 1
    BY SamplerAssumption
  <2> DEFINE n == Vocabulary - 1
  <2>2. n \in Int /\ 0 \in Int /\ 0 <= n /\ n - 0 + 1 = Vocabulary
    BY <2>1
  <2> HIDE DEF n
  <2>3. Cardinality(0..n) = n - 0 + 1
    <3>1. Cardinality(0..n) = IF 0 > n THEN 0 ELSE n - 0 + 1
      BY ONLY <2>2, FS_Interval
    <3> QED BY <2>2, <3>1
  <2> QED BY <2>1, <2>2, <2>3 DEF Codes, n
<1>2. M # {}
  <2> DEFINE t == [c \in Codes |-> -s[c]]
  <2>1. t \in [Codes -> Int]
    OBVIOUS
  <2>2. PICK c \in Codes : \A d \in Codes : t[d] <= t[c]
    <3>1. Codes \in SUBSET Codes /\ Codes # {}
      BY <1>1
    <3> HIDE DEF t
    <3> QED BY ONLY <2>1, <3>1, OneIsHighest
  <2>3. \A d \in Codes : s[d] >= s[c]
    BY <2>2
  <2>4. Atop(s[c]) = Codes
    BY <2>3
  <2>5. Cardinality(Atop(s[c])) >= k
    BY <1>1, <2>4
  <2> QED BY <2>2, <2>5
<1>3. PICK c \in M : \A d \in M : s[d] <= s[c]
  <2>1. M \in SUBSET Codes
    OBVIOUS
  <2> HIDE DEF M
  <2> QED BY <1>2, <2>1, OneIsHighest
<1>4. s[c] \in T /\ \A v \in T : s[c] >= v /\ v \in Int
  <2>1. s[c] \in T
    BY <1>3
  <2>2. ASSUME NEW v \in T PROVE s[c] >= v /\ v \in Int
    <3>1. PICK d \in Codes : v = s[d]
      OBVIOUS
    <3>2. d \in M /\ s[d] \in Int /\ s[c] \in Int
      BY <3>1
    <3> QED BY <1>3, <3>1, <3>2
  <2> QED BY <2>1, <2>2
<1>5. Threshold(s, k) = CHOOSE x \in T : \A v \in T : x >= v
  BY DEF Threshold, Max
<1> HIDE DEF T
<1> QED BY <1>4, <1>5
-----------------------------------------------------------------------------
(***************************************************************************)
(* What can be sampled.                                                    *)
(***************************************************************************)
\* The end is scored as it is, a special code behind the mask.
LEMMA ScoresAre ==
  ASSUME NEW logits \in AllLogits, NEW past \in Seq(Speech)
  PROVE  /\ Scored(logits, past) \in [Codes -> Int]
         /\ Scored(logits, past)[EosCode] = logits[EosCode] /\ logits[EosCode] \in Levels
         /\ \A c \in Special : /\ Scored(logits, past)[c] = logits[c] + NEG
                               /\ logits[c] \in Levels
<1> DEFINE s == Suppressed(logits)
           t == Penalized(s, past)
<1>1. NEG \in Int /\ EosCode \in Codes /\ \A l \in Levels : l \in Int
  BY SamplerAssumption
<1>2. \A c \in Codes : logits[c] \in Levels /\ logits[c] \in Int
  BY <1>1 DEF AllLogits
<1>3. s = [c \in Codes |-> s[c]] /\ \A c \in Codes : s[c] \in Int
  BY <1>1, <1>2 DEF Suppressed
<1>4. EosCode \notin Special /\ Special \subseteq Codes
  BY DEF Special
<1>5. s[EosCode] = logits[EosCode] /\ \A c \in Special : s[c] = logits[c] + NEG
  BY <1>1, <1>4 DEF Suppressed
<1> HIDE DEF s
<1>6. \A i \in DOMAIN past : past[i] \in Speech
  OBVIOUS
<1>7. \A c \in Special \cup {EosCode} : ~\E i \in DOMAIN past : past[i] = c
  BY <1>6 DEF Speech
<1>8. t = [c \in Codes |-> t[c]] /\ \A c \in Codes \ Speech : t[c] = s[c]
  BY <1>7 DEF Penalized, Speech
<1>9. ASSUME NEW c \in Codes PROVE t[c] \in Int
  <2>1. s[c] \in Int
    BY <1>3
  <2>2. Lesser(Divided(s[c]), Multiplied(s[c])) \in Int
    BY <2>1, LesserIs
  <2>3. t[c] = s[c] \/ t[c] = Lesser(Divided(s[c]), Multiplied(s[c]))
    BY DEF Penalized
  <2> HIDE DEF t
  <2> QED BY <2>1, <2>2, <2>3
<1> HIDE DEF t
<1>10. t[EosCode] = s[EosCode] /\ \A c \in Special : t[c] = s[c]
  BY <1>1, <1>4, <1>8 DEF Speech
<1>11. t \in [Codes -> Int]
  BY <1>8, <1>9
<1>12. Scored(logits, past) = t
  BY DEF Scored, t, s
<1> QED BY <1>1, <1>2, <1>4, <1>5, <1>10, <1>11, <1>12

\* What the mask leaves of a special code is below everything a network gives.
LEMMA MaskedIs ==
  ASSUME NEW l \in Levels, NEW m \in Levels
  PROVE  /\ NEG \in Int /\ l \in Int /\ 2 * l > NEG /\ ~(2 * (l + NEG) > NEG) /\ ~(2 * NEG > NEG)
         /\ ~(m <= l + NEG)
<1>1. NEG \in Int /\ NEG < 0 /\ l \in Int /\ m \in Int
  BY SamplerAssumption
<1>2. NEG < 2 * l /\ 2 * l < -NEG /\ NEG < 2 * m
  BY MaskAssumption
<1> QED BY <1>1, <1>2

\* Top-k leaves the end, and of the others the best.
LEMMA FilteredIs ==
  ASSUME NEW s \in [Codes -> Int], NEW k \in Nat, k < Vocabulary, s[EosCode] \in Levels
  PROVE  LET can == Chosen(Filtered(s, k)) IN
         /\ EosCode \in can /\ can \subseteq Chosen(s)
         /\ \A c \in can \ {EosCode}, d \in Codes \ can : s[c] >= s[d]
<1> DEFINE can == Chosen(Filtered(s, k))
           v == Threshold(s, k)
<1>1. v \in Int
  BY ThresholdIs, SamplerAssumption
<1> HIDE DEF v
<1>2. /\ NEG \in Int /\ EosCode \in Codes /\ ~(2 * NEG > NEG) /\ 2 * s[EosCode] > NEG
  BY SamplerAssumption, MaskedIs
<1>3. \A c \in Codes : Filtered(s, k)[c] = IF s[c] < v /\ c # EosCode THEN NEG ELSE s[c]
  BY DEF Filtered, v
<1>4. ASSUME NEW c \in Codes
      PROVE  c \in can <=> (c = EosCode \/ ~(s[c] < v)) /\ 2 * s[c] > NEG
  <2>1. c \in can <=> 2 * Filtered(s, k)[c] > NEG
    BY DEF Chosen
  <2> HIDE DEF can
  <2> QED BY <1>2, <1>3, <2>1
<1>5. can \subseteq Codes
  BY DEF Chosen
<1> HIDE DEF can
<1>6. EosCode \in can
  BY <1>2, <1>4
<1>7. can \subseteq Chosen(s)
  BY <1>4, <1>5 DEF Chosen
<1>8. ASSUME NEW c \in can \ {EosCode}, NEW d \in Codes \ can PROVE s[c] >= s[d]
  <2>1. c \in Codes /\ s[c] \in Int /\ s[d] \in Int
    BY <1>5
  <2>2. ~(s[c] < v) /\ 2 * s[c] > NEG /\ c # EosCode
    BY <1>4, <1>5
  <2>3. s[d] < v \/ ~(2 * s[d] > NEG)
    BY <1>4, <1>6
  <2> QED BY <1>1, <1>2, <2>1, <2>2, <2>3
<1> QED BY <1>6, <1>7, <1>8 DEF can

\* The codes sampled before.
LEMMA PastIsSeq == ASSUME NEW past \in Pasts PROVE past \in Seq(Speech)
BY SamplerAssumption DEF Pasts

\* The end can be sampled whatever is filtered, a special code never.
LEMMA EndCanBeReached == EndIsReachable
<1> SUFFICES ASSUME NEW logits \in AllLogits, NEW past \in Pasts
             PROVE  /\ \A k \in TopKs :
                         LET can == Sampled(logits, past, k) IN
                         /\ EosCode \in can /\ can \cap Special = {}
                         /\ \A c \in can \ {EosCode}, d \in Speech \ can :
                              Scored(logits, past)[c] >= Scored(logits, past)[d]
                    /\ Greedy(logits, past) \cap Special = {}
  BY DEF EndIsReachable
<1> DEFINE s == Scored(logits, past)
<1>1. /\ s \in [Codes -> Int] /\ s[EosCode] \in Levels
      /\ \A c \in Special : \E l \in Levels : s[c] = l + NEG
  BY PastIsSeq, ScoresAre
<1> HIDE DEF s
<1>2. EosCode \in Codes /\ Vocabulary \in Nat /\ NEG \in Int /\ Special \subseteq Codes
  BY SamplerAssumption DEF Special
<1>3. \A c \in Special : ~(2 * s[c] > NEG) /\ ~(s[EosCode] <= s[c])
  BY <1>1, MaskedIs
<1>4. 2 * s[EosCode] > NEG
  BY <1>1, MaskedIs
<1>5. Chosen(s) \cap Special = {} /\ EosCode \in Chosen(s)
  BY <1>2, <1>3, <1>4 DEF Chosen
<1>6. ASSUME NEW k \in TopKs
      PROVE  LET can == Sampled(logits, past, k) IN
             /\ EosCode \in can /\ can \cap Special = {}
             /\ \A c \in can \ {EosCode}, d \in Speech \ can : s[c] >= s[d]
  <2> DEFINE can == Sampled(logits, past, k)
  <2>1. k \in Nat
    BY SamplerAssumption
  <2>2. can = Chosen(IF k > 0 /\ k < Vocabulary THEN Filtered(s, k) ELSE s)
    BY DEF Sampled, s
  <2> HIDE DEF can
  <2>3. CASE k > 0 /\ k < Vocabulary
    <3>1. can = Chosen(Filtered(s, k))
      BY <2>2, <2>3
    <3>2. /\ EosCode \in Chosen(Filtered(s, k)) /\ Chosen(Filtered(s, k)) \subseteq Chosen(s)
          /\ \A c \in Chosen(Filtered(s, k)) \ {EosCode}, d \in Codes \ Chosen(Filtered(s, k)) :
               s[c] >= s[d]
      BY <1>1, <2>1, <2>3, FilteredIs
    <3> QED BY <1>5, <3>1, <3>2 DEF can, Speech
  <2>4. CASE ~(k > 0 /\ k < Vocabulary)
    <3>1. can = Chosen(s)
      BY <2>2, <2>4
    <3>2. \A c \in Chosen(s), d \in Codes \ Chosen(s) : s[c] >= s[d]
      BY <1>1, <1>2 DEF Chosen
    <3> QED BY <1>5, <3>1, <3>2 DEF can, Speech
  <2> QED BY <2>3, <2>4
<1>7. Greedy(logits, past) \cap Special = {}
  BY <1>2, <1>3 DEF Greedy, s
<1> QED BY <1>6, <1>7 DEF s

\* And a code is penalized once, however often it was sampled.
LEMMA PenalizedOnce == PenaltyIsOnce
<1> SUFFICES ASSUME NEW logits \in AllLogits, NEW past \in Pasts
             PROVE  Penalized(logits, past) = HostPenalized(logits, past)
  BY DEF PenaltyIsOnce
<1>1. logits \in [Codes -> Int]
  BY SamplerAssumption DEF AllLogits
<1>2. past \in Seq(Codes)
  <2>1. past \in Seq(Speech) /\ Speech \subseteq Codes
    BY PastIsSeq DEF Speech
  <2> QED BY <2>1
<1> QED BY <1>1, <1>2, HostIsPenalized

\* Whatever the network gives: every synthesis can end before each frame, no special
\* code is spoken, and the penalty is the one the test penalty_tests states.
THEOREM CanAlwaysEnd == PSpec => []SamplesSpeechOrEnd
<1>1. SamplesSpeechOrEnd
  BY EndCanBeReached, PenalizedOnce DEF SamplesSpeechOrEnd
<1> QED BY <1>1, PTL
-----------------------------------------------------------------------------
(***************************************************************************)
(* A causal convolution of the vocoder, sample by sample.                  *)
(***************************************************************************)
IsConv(c) == c.k \in Nat \ {0} /\ c.d \in Nat \ {0}

\* A convolution remembers the last samples, padding in front of the first.
Full(c, s) == Zeros(Padding(c)) \o s
Remembers(c, s, buffer) ==
  buffer = LastOf(Padding(c), Full(c, s)) \/ (buffer = <<>> /\ s = <<>>)

\* The kernel reaches no further back than the padding.
LEMMA Taps ==
  ASSUME NEW c, IsConv(c)
  PROVE  Padding(c) \in Nat /\ \A j \in 1..c.k : (j - 1) * c.d \in 0..Padding(c)
<1> DEFINE k == c.k
           d == c.d
<1>1. k \in Nat \ {0} /\ d \in Nat \ {0}
  BY DEF IsConv
<1> HIDE DEF k, d
<1>2. (k - 1) * d \in Nat
  BY <1>1
<1>3. ASSUME NEW j \in 1..k PROVE (j - 1) * d \in Nat /\ (j - 1) * d <= (k - 1) * d
  <2>1. (k - j) * d \in Nat /\ (j - 1) * d \in Nat
    BY <1>1
  <2>2. (k - 1) * d = (j - 1) * d + (k - j) * d
    BY <1>1
  <2> QED BY <2>1, <2>2, <1>2
<1> QED BY <1>2, <1>3 DEF Padding, k, d

\* The padded input, place by place.
LEMMA FullIs ==
  ASSUME NEW c, IsConv(c), NEW s, IsSeq(s)
  PROVE  /\ IsSeq(Full(c, s)) /\ Len(Full(c, s)) = Padding(c) + Len(s)
         /\ \A i \in 1..Padding(c) + Len(s) :
              Full(c, s)[i] = IF i <= Padding(c) THEN 0 ELSE s[i - Padding(c)]
<1> DEFINE p == Padding(c)
           z == Zeros(p)
<1>1. p \in Nat
  BY Taps
<1> HIDE DEF p
<1>2. z = [i \in 1..p |-> z[i]] /\ \A i \in 1..p : z[i] = 0
  BY DEF Zeros
<1>3. Full(c, s) = z \o s
  BY DEF Full, p
<1> HIDE DEF z
<1>4. IsSeq(z) /\ Len(z) = p
  BY <1>1, <1>2, TableIsSeq
<1> DEFINE f == z \o s
<1> HIDE DEF f
<1>5. /\ IsSeq(f) /\ Len(f) = Len(z) + Len(s)
      /\ \A i \in 1..Len(z) + Len(s) : f[i] = IF i <= Len(z) THEN z[i] ELSE s[i - Len(z)]
  BY <1>4, Concat DEF f
<1>6. Len(s) \in Nat
  BY SeqIsTable
<1>7. \A i \in 1..p + Len(s) : f[i] = IF i <= p THEN 0 ELSE s[i - p]
  BY <1>1, <1>2, <1>4, <1>5, <1>6
<1>8. Len(f) = p + Len(s) /\ Full(c, s) = f
  BY <1>3, <1>4, <1>5 DEF f
<1> QED BY <1>5, <1>7, <1>8 DEF p

\* The last n places.
LEMMA LastOfIs ==
  ASSUME NEW s, IsSeq(s), NEW n \in Nat, n <= Len(s)
  PROVE  /\ IsSeq(LastOf(n, s)) /\ Len(LastOf(n, s)) = n
         /\ \A i \in 1..n : LastOf(n, s)[i] = s[(Len(s) - n) + i]
<1> DEFINE a == Len(s) - n + 1
           b == Len(s)
<1>1. /\ Len(s) \in Nat /\ a \in Nat /\ a >= 1 /\ b \in Int /\ b >= a - 1 /\ b <= Len(s)
      /\ b - a + 1 = n /\ \A i \in 1..n : a + i - 1 = (Len(s) - n) + i
  BY SeqIsTable
<1>2. LastOf(n, s) = SubSeq(s, a, b)
  BY DEF LastOf
<1> HIDE DEF a, b
<1>3. /\ IsSeq(SubSeq(s, a, b)) /\ Len(SubSeq(s, a, b)) = b - a + 1
      /\ \A i \in 1..(b - a + 1) : SubSeq(s, a, b)[i] = s[a + i - 1]
  BY <1>1, Sub
<1> DEFINE t == SubSeq(s, a, b)
<1> HIDE DEF t
<1>4. IsSeq(t) /\ Len(t) = n /\ \A i \in 1..n : t[i] = s[(Len(s) - n) + i]
  BY <1>1, <1>3 DEF t
<1> QED BY <1>2, <1>4 DEF t

\* What one sample of output is made of.
Window(c, w, t) == [j \in 1..c.k |-> w[t + (j - 1) * c.d]]

\* A convolution, place by place.
LEMMA ConvIs ==
  ASSUME NEW c, IsConv(c), NEW w, IsSeq(w), Len(w) >= Padding(c)
  PROVE  /\ IsSeq(Conv(c, w)) /\ Len(Conv(c, w)) = Len(w) - Padding(c)
         /\ \A t \in 1..(Len(w) - Padding(c)) :
              Conv(c, w)[t] = Window(c, w, t)
<1> DEFINE n == Len(w) - Padding(c)
           v == Conv(c, w)
<1>1. n \in Nat
  BY Taps, SeqIsTable
<1>2. /\ v = [t \in 1..n |-> v[t]]
      /\ \A t \in 1..n : v[t] = Window(c, w, t)
  BY DEF Conv, Window
<1> HIDE DEF n, v
<1>3. IsSeq(v) /\ Len(v) = n
  BY <1>1, <1>2, TableIsSeq
<1> QED BY <1>2, <1>3 DEF n, v

\* A place of a batch, and the places behind it that the kernel reaches.
LEMMA SameTaps ==
  ASSUME NEW c, IsConv(c), NEW v, NEW w, NEW t \in Int, NEW u \in Int,
         \A i \in 0..Padding(c) : v[t + i] = w[u + i]
  PROVE  Window(c, v, t) = Window(c, w, u)
<1>1. ASSUME NEW j \in 1..c.k PROVE v[t + (j - 1) * c.d] = w[u + (j - 1) * c.d]
  <2>1. (j - 1) * c.d \in 0..Padding(c)
    BY Taps
  <2> DEFINE i == (j - 1) * c.d
  <2> HIDE DEF i
  <2>2. v[t + i] = w[u + i]
    BY <2>1 DEF i
  <2> QED BY <2>2 DEF i
<1> QED BY <1>1 DEF Window

\* With an empty or a filled buffer, a step reads the last samples and the batch.
LEMMA PaddedIs ==
  ASSUME NEW c, IsConv(c), NEW s, IsSeq(s), NEW buffer, Remembers(c, s, buffer), NEW x
  PROVE  Padded(c, x, buffer) = LastOf(Padding(c), Full(c, s)) \o x
<1> DEFINE p == Padding(c)
           f == Full(c, s)
           l == LastOf(p, f)
           z == Zeros(p)
<1>1. p \in Nat /\ Len(s) \in Nat /\ IsSeq(f) /\ Len(f) = p + Len(s)
      /\ \A i \in 1..p + Len(s) : f[i] = IF i <= p THEN 0 ELSE s[i - p]
  BY Taps, SeqIsTable, FullIs
<1> HIDE DEF p, f
<1>2. IsSeq(l) /\ Len(l) = p /\ \A i \in 1..p : l[i] = f[(Len(f) - p) + i]
  <2>1. IsSeq(f) /\ p \in Nat /\ p <= Len(f)
    BY <1>1
  <2> QED BY ONLY <2>1, LastOfIs DEF l
<1>3. IsSeq(z) /\ Len(z) = p /\ \A i \in 1..p : z[i] = 0
  <2>1. z = [i \in 1..p |-> z[i]] /\ \A i \in 1..p : z[i] = 0
    BY DEF Zeros
  <2> HIDE DEF z
  <2> QED BY <1>1, <2>1, TableIsSeq
<1>4. Padded(c, x, buffer) = (IF buffer = <<>> THEN z ELSE buffer) \o x
  BY DEF Padded, p
<1>5. buffer = l \/ (buffer = <<>> /\ s = <<>>)
  BY DEF Remembers, p, f
<1> HIDE DEF l, z
<1>6. CASE buffer # <<>>
  BY <1>4, <1>5, <1>6 DEF l, p, f
<1>7. CASE buffer = <<>> /\ buffer = l
  <2>1. p = 0
    BY <1>2, <1>7, EmptyIsSeq
  <2>2. z = l
    BY <1>2, <1>3, <2>1, SameSeq
  <2> QED BY <1>4, <1>7, <2>2 DEF l, p, f
<1>8. CASE buffer = <<>> /\ s = <<>>
  <2>1. Len(s) = 0
    BY <1>8, EmptyIsSeq
  <2>2. \A i \in 1..p : l[i] = z[i]
    BY <1>1, <1>2, <1>3, <2>1
  <2>3. z = l
    BY <1>2, <1>3, <2>2, SameSeq
  <2> QED BY <1>4, <1>8, <2>3 DEF l, p, f
<1> QED BY <1>5, <1>6, <1>7, <1>8
-----------------------------------------------------------------------------
(***************************************************************************)
(* A convolution in batches is the convolution of everything.              *)
(***************************************************************************)
\* A batch through a convolution gives what the whole would give behind the rest,
\* and leaves what the next batch needs.
LEMMA ConvContinues ==
  ASSUME NEW c, IsConv(c), NEW s, IsSeq(s), NEW x, IsSeq(x), NEW buffer, Remembers(c, s, buffer)
  PROVE  /\ IsSeq(ConvForward(c, s)) /\ Len(ConvForward(c, s)) = Len(s)
         /\ IsSeq(ConvStep(c, x, buffer).out) /\ Len(ConvStep(c, x, buffer).out) = Len(x)
         /\ ConvForward(c, s \o x) = ConvForward(c, s) \o ConvStep(c, x, buffer).out
         /\ Remembers(c, s \o x, ConvStep(c, x, buffer).keeps)
<1> DEFINE p == Padding(c)
           m == Len(s)
           n == Len(x)
           y == s \o x
           f == Full(c, s)
           g == Full(c, y)
           l == LastOf(p, f)
           w == l \o x
           a == Conv(c, f)
           b == Conv(c, w)
           h == Conv(c, g)
<1>1. p \in Nat /\ m \in Nat /\ n \in Nat
  BY Taps, SeqIsTable
<1>2. IsSeq(y) /\ Len(y) = m + n /\ \A i \in 1..m + n : y[i] = IF i <= m THEN s[i] ELSE x[i - m]
  BY Concat
<1>3. /\ IsSeq(f) /\ Len(f) = p + m
      /\ \A i \in 1..p + m : f[i] = IF i <= p THEN 0 ELSE s[i - p]
  BY FullIs
<1> HIDE DEF y
<1>4. /\ IsSeq(g) /\ Len(g) = p + Len(y)
      /\ \A i \in 1..p + Len(y) : g[i] = IF i <= p THEN 0 ELSE y[i - p]
  BY <1>2, FullIs
<1> HIDE DEF f, g, m, n, p
<1>5. IsSeq(l) /\ Len(l) = p /\ \A i \in 1..p : l[i] = f[m + i]
  <2>1. IsSeq(f) /\ p \in Nat /\ p <= Len(f)
    BY <1>1, <1>3
  <2>2. IsSeq(l) /\ Len(l) = p /\ \A i \in 1..p : l[i] = f[(Len(f) - p) + i]
    BY ONLY <2>1, LastOfIs DEF l
  <2>3. Len(f) - p = m
    BY <1>1, <1>3
  <2> QED BY <2>2, <2>3
<1> HIDE DEF l
<1>6. IsSeq(w) /\ Len(w) = p + n /\ \A i \in 1..p + n : w[i] = IF i <= p THEN l[i] ELSE x[i - p]
  <2>1. /\ IsSeq(w) /\ Len(w) = Len(l) + Len(x)
        /\ \A i \in 1..Len(l) + Len(x) : w[i] = IF i <= Len(l) THEN l[i] ELSE x[i - Len(l)]
    <3>1. IsSeq(l) /\ IsSeq(x)
      BY <1>5
    <3> QED BY ONLY <3>1, Concat DEF w
  <2> QED BY <1>5, <2>1 DEF n
<1> HIDE DEF w
\* The whole is the beginning, and what is remembered with the batch behind it.
<1>7. \A i \in 1..p + m : g[i] = f[i]
  <2> SUFFICES ASSUME NEW i \in 1..p + m PROVE g[i] = f[i]
    OBVIOUS
  <2>1. i \in 1..p + Len(y)
    BY <1>1, <1>2
  <2>2. CASE i <= p
    BY <1>3, <1>4, <2>1, <2>2
  <2>3. CASE ~(i <= p)
    <3>1. i - p \in 1..m + n /\ i - p <= m
      BY <1>1, <2>3
    <3> QED BY <1>2, <1>3, <1>4, <2>1, <2>3, <3>1
  <2> QED BY <2>2, <2>3
<1>8. \A i \in 1..p + n : g[m + i] = w[i]
  <2> SUFFICES ASSUME NEW i \in 1..p + n PROVE g[m + i] = w[i]
    OBVIOUS
  <2>1. m + i \in 1..p + Len(y)
    BY <1>1, <1>2
  <2>2. CASE i <= p
    <3>1. m + i \in 1..p + m /\ i \in 1..p
      BY <1>1, <2>2
    <3> QED BY <1>5, <1>6, <1>7, <2>2, <3>1
  <2>3. CASE ~(i <= p)
    <3>1. /\ (m + i) - p \in 1..m + n /\ ~((m + i) - p <= m) /\ ((m + i) - p) - m = i - p
          /\ ~(m + i <= p)
      BY <1>1, <2>3
    <3> QED BY <1>2, <1>4, <1>6, <2>1, <2>3, <3>1
  <2> QED BY <2>2, <2>3
<1>9. /\ IsSeq(a) /\ Len(a) = m
      /\ \A t \in 1..m : a[t] = Window(c, f, t)
  <2>1. IsSeq(f) /\ Len(f) >= p /\ Len(f) - p = m
    BY <1>1, <1>3
  <2>2. /\ IsSeq(a) /\ Len(a) = Len(f) - p
        /\ \A t \in 1..(Len(f) - p) : a[t] = Window(c, f, t)
    BY <2>1, ConvIs DEF p
  <2> QED BY <2>1, <2>2
<1>10. /\ IsSeq(b) /\ Len(b) = n
       /\ \A t \in 1..n : b[t] = Window(c, w, t)
  <2>1. IsSeq(w) /\ Len(w) >= p /\ Len(w) - p = n
    BY <1>1, <1>6
  <2>2. /\ IsSeq(b) /\ Len(b) = Len(w) - p
        /\ \A t \in 1..(Len(w) - p) : b[t] = Window(c, w, t)
    BY <2>1, ConvIs DEF p
  <2> QED BY <2>1, <2>2
<1>11. /\ IsSeq(h) /\ Len(h) = m + n
       /\ \A t \in 1..m + n : h[t] = Window(c, g, t)
  <2>1. IsSeq(g) /\ Len(g) >= p /\ Len(g) - p = m + n
    BY <1>1, <1>2, <1>4
  <2>2. /\ IsSeq(h) /\ Len(h) = Len(g) - p
        /\ \A t \in 1..(Len(g) - p) : h[t] = Window(c, g, t)
    BY <2>1, ConvIs DEF p
  <2> QED BY <2>1, <2>2
<1> HIDE DEF a, b, h
<1>12. \A t \in 1..m : h[t] = a[t]
  <2> SUFFICES ASSUME NEW t \in 1..m PROVE h[t] = a[t]
    OBVIOUS
  <2>1. \A i \in 0..p : g[t + i] = f[t + i]
    BY <1>1, <1>7
  <2>2. t \in Int /\ t \in 1..m + n
    BY <1>1
  <2>3. Window(c, g, t) = Window(c, f, t)
    BY <2>1, <2>2, SameTaps DEF p
  <2> QED BY <1>9, <1>11, <2>2, <2>3
<1>13. \A t \in 1..n : h[m + t] = b[t]
  <2> SUFFICES ASSUME NEW t \in 1..n PROVE h[m + t] = b[t]
    OBVIOUS
  <2>1. \A i \in 0..p : g[(m + t) + i] = w[t + i]
    <3> SUFFICES ASSUME NEW i \in 0..p PROVE g[(m + t) + i] = w[t + i]
      OBVIOUS
    <3>1. t + i \in 1..p + n /\ m + (t + i) = (m + t) + i
      BY <1>1
    <3> QED BY <1>8, <3>1
  <2>2. t \in Int /\ m + t \in Int /\ m + t \in 1..m + n
    BY <1>1
  <2>3. Window(c, g, m + t) = Window(c, w, t)
    BY <2>1, <2>2, SameTaps DEF p
  <2> QED BY <1>10, <1>11, <2>2, <2>3
<1>14. h = a \o b
  <2>1. /\ IsSeq(a \o b) /\ Len(a \o b) = m + n
        /\ \A i \in 1..m + n : (a \o b)[i] = IF i <= m THEN a[i] ELSE b[i - m]
    <3>1. IsSeq(a) /\ IsSeq(b)
      BY <1>9, <1>10
    <3>2. /\ IsSeq(a \o b) /\ Len(a \o b) = Len(a) + Len(b)
          /\ \A i \in 1..Len(a) + Len(b) : (a \o b)[i] = IF i <= Len(a) THEN a[i] ELSE b[i - Len(a)]
      BY ONLY <3>1, Concat
    <3> QED BY <1>9, <1>10, <3>2
  <2>2. ASSUME NEW i \in 1..m + n PROVE h[i] = (a \o b)[i]
    <3>1. CASE i <= m
      <4>1. i \in 1..m
        BY <1>1, <3>1
      <4> QED BY <1>12, <2>1, <3>1, <4>1
    <3>2. CASE ~(i <= m)
      <4>1. i - m \in 1..n /\ m + (i - m) = i
        BY <1>1, <3>2
      <4> QED BY <1>13, <2>1, <3>2, <4>1
    <3> QED BY <3>1, <3>2
  <2> QED BY <1>11, <2>1, <2>2, SameSeq
<1>15. ConvForward(c, s) = a /\ ConvForward(c, y) = h
  BY DEF ConvForward, Full, a, h, f, g, p
<1>16. Padded(c, x, buffer) = w
  BY PaddedIs DEF w, l, f, p
<1>17. ConvStep(c, x, buffer).out = b
  BY <1>16 DEF ConvStep, b
<1>18. ConvStep(c, x, buffer).keeps = LastOf(p, w)
  BY <1>16 DEF ConvStep, Buffered, p
<1>19. LastOf(p, w) = LastOf(p, g)
  <2>1. IsSeq(w) /\ p \in Nat /\ p <= Len(w) /\ IsSeq(g) /\ p <= Len(g)
    BY <1>1, <1>2, <1>4, <1>6
  <2> DEFINE u == LastOf(p, w)
             v == LastOf(p, g)
  <2>2. IsSeq(u) /\ Len(u) = p /\ \A i \in 1..p : u[i] = w[(Len(w) - p) + i]
    BY ONLY <2>1, LastOfIs
  <2>3. IsSeq(v) /\ Len(v) = p /\ \A i \in 1..p : v[i] = g[(Len(g) - p) + i]
    BY ONLY <2>1, LastOfIs
  <2> HIDE DEF u, v
  <2>4. ASSUME NEW i \in 1..p PROVE u[i] = v[i]
    <3>1. Len(w) - p = n /\ Len(g) - p = m + n
      BY <1>1, <1>2, <1>4, <1>6
    <3>2. n + i \in 1..p + n /\ m + (n + i) = (m + n) + i
      BY <1>1
    <3>3. u[i] = w[n + i] /\ v[i] = g[(m + n) + i]
      BY <2>2, <2>3, <3>1
    <3> QED BY <1>8, <3>2, <3>3
  <2>5. u = v
    BY <2>2, <2>3, <2>4, SameSeq
  <2> QED BY <2>5 DEF u, v
<1>20. Remembers(c, y, ConvStep(c, x, buffer).keeps)
  BY <1>18, <1>19 DEF Remembers, p, g
<1> QED BY <1>9, <1>10, <1>14, <1>15, <1>17, <1>20 DEF y, m, n
-----------------------------------------------------------------------------
(***************************************************************************)
(* Residual units and ConvNeXt blocks.                                     *)
(***************************************************************************)
\* Adding keeps the shape,
LEMMA PlusIs ==
  ASSUME NEW a, IsSeq(a), NEW b
  PROVE  /\ IsSeq(Plus(a, b)) /\ Len(Plus(a, b)) = Len(a)
         /\ \A i \in 1..Len(a) : Plus(a, b)[i] = <<a[i], b[i]>>
<1> DEFINE v == Plus(a, b)
           n == Len(a)
<1>1. n \in Nat /\ DOMAIN a = 1..n
  BY SeqIsTable
<1>2. v = [i \in 1..n |-> v[i]] /\ \A i \in 1..n : v[i] = <<a[i], b[i]>>
  BY <1>1 DEF Plus
<1> HIDE DEF v, n
<1>3. IsSeq(v) /\ Len(v) = n
  BY <1>1, <1>2, TableIsSeq
<1> QED BY <1>2, <1>3 DEF v, n

\* and adds batch to batch.
LEMMA PlusGrows ==
  ASSUME NEW a, IsSeq(a), NEW b, IsSeq(b), Len(a) = Len(b),
         NEW x, IsSeq(x), NEW y, IsSeq(y), Len(x) = Len(y)
  PROVE  Plus(a \o x, b \o y) = Plus(a, b) \o Plus(x, y)
<1> DEFINE m == Len(a)
           n == Len(x)
           ax == a \o x
           by == b \o y
           p == Plus(a, b)
           q == Plus(x, y)
           w == Plus(ax, by)
<1>1. m \in Nat /\ n \in Nat
  BY SeqIsTable
<1>2. IsSeq(ax) /\ Len(ax) = m + n /\ \A i \in 1..m + n : ax[i] = IF i <= m THEN a[i] ELSE x[i - m]
  BY Concat
<1>3. by = b \o y /\ \A i \in 1..m + n : by[i] = IF i <= m THEN b[i] ELSE y[i - m]
  BY Concat
<1> HIDE DEF ax, by, m, n
<1>4. IsSeq(p) /\ Len(p) = m /\ \A i \in 1..m : p[i] = <<a[i], b[i]>>
  BY PlusIs DEF m
<1>5. IsSeq(q) /\ Len(q) = n /\ \A i \in 1..n : q[i] = <<x[i], y[i]>>
  BY PlusIs DEF n
<1>6. IsSeq(w) /\ Len(w) = m + n /\ \A i \in 1..m + n : w[i] = <<ax[i], by[i]>>
  BY <1>2, PlusIs
<1> HIDE DEF p, q, w
<1>7. IsSeq(p \o q) /\ Len(p \o q) = m + n
      /\ \A i \in 1..m + n : (p \o q)[i] = IF i <= m THEN p[i] ELSE q[i - m]
  <2>1. IsSeq(p) /\ IsSeq(q)
    BY <1>4, <1>5
  <2>2. IsSeq(p \o q) /\ Len(p \o q) = Len(p) + Len(q)
        /\ \A i \in 1..Len(p) + Len(q) : (p \o q)[i] = IF i <= Len(p) THEN p[i] ELSE q[i - Len(p)]
    BY ONLY <2>1, Concat
  <2> QED BY <1>4, <1>5, <2>2
<1>8. ASSUME NEW i \in 1..m + n PROVE w[i] = (p \o q)[i]
  <2>1. CASE i <= m
    <3>1. i \in 1..m
      BY <1>1, <2>1
    <3>2. ax[i] = a[i] /\ by[i] = b[i]
      BY <1>2, <1>3, <2>1
    <3>3. p[i] = <<a[i], b[i]>> /\ (p \o q)[i] = p[i]
      BY <1>4, <1>7, <2>1, <3>1
    <3> QED BY <1>6, <3>2, <3>3
  <2>2. CASE ~(i <= m)
    <3>1. i - m \in 1..n
      BY <1>1, <2>2
    <3>2. ax[i] = x[i - m] /\ by[i] = y[i - m]
      BY <1>2, <1>3, <2>2
    <3>3. q[i - m] = <<x[i - m], y[i - m]>> /\ (p \o q)[i] = q[i - m]
      BY <1>5, <1>7, <2>2, <3>1
    <3> QED BY <1>6, <3>2, <3>3
  <2> QED BY <2>1, <2>2
<1>9. w = p \o q
  BY <1>6, <1>7, <1>8, SameSeq
<1> QED BY <1>9 DEF w, p, q, ax, by

\* A ConvNeXt block continues where it stopped.
LEMMA ConvNeXtContinues ==
  ASSUME NEW c, IsConv(c), NEW s, IsSeq(s), NEW x, IsSeq(x), NEW buffer, Remembers(c, s, buffer)
  PROVE  /\ IsSeq(ConvNeXtForward(c, s)) /\ Len(ConvNeXtForward(c, s)) = Len(s)
         /\ IsSeq(ConvNeXtStep(c, x, buffer).out) /\ Len(ConvNeXtStep(c, x, buffer).out) = Len(x)
         /\ ConvNeXtForward(c, s \o x) = ConvNeXtForward(c, s) \o ConvNeXtStep(c, x, buffer).out
         /\ Remembers(c, s \o x, ConvNeXtStep(c, x, buffer).keeps)
<1> DEFINE hidden == ConvStep(c, x, buffer)
           h == hidden.out
           k == hidden.keeps
           f == ConvForward(c, s)
           g == ConvForward(c, s \o x)
<1>1. IsSeq(f) /\ Len(f) = Len(s) /\ IsSeq(h) /\ Len(h) = Len(x)
  BY ConvContinues
<1>2. g = f \o h /\ Remembers(c, s \o x, k)
  BY ConvContinues
<1>3. /\ ConvNeXtForward(c, s) = Plus(s, f) /\ ConvNeXtForward(c, s \o x) = Plus(s \o x, g)
      /\ ConvNeXtStep(c, x, buffer).out = Plus(x, h) /\ ConvNeXtStep(c, x, buffer).keeps = k
  BY DEF ConvNeXtForward, ConvNeXtStep
<1> HIDE DEF hidden, h, k, f, g
<1>4. IsSeq(Plus(s, f)) /\ Len(Plus(s, f)) = Len(s) /\ IsSeq(Plus(x, h)) /\ Len(Plus(x, h)) = Len(x)
  BY PlusIs
<1>5. Plus(s \o x, g) = Plus(s, f) \o Plus(x, h)
  <2>1. IsSeq(s) /\ IsSeq(f) /\ Len(s) = Len(f) /\ IsSeq(x) /\ IsSeq(h) /\ Len(x) = Len(h)
    BY <1>1
  <2>2. Plus(s \o x, f \o h) = Plus(s, f) \o Plus(x, h)
    BY ONLY <2>1, PlusGrows
  <2> QED BY <1>2, <2>2
<1> QED BY <1>2, <1>3, <1>4, <1>5

RemembersUnit(c, s, buffers) ==
  Remembers(c, s, buffers[1]) /\ Remembers(POINT, ConvForward(c, s), buffers[2])

\* So does a residual unit, behind both its convolutions.
LEMMA UnitContinues ==
  ASSUME NEW c, IsConv(c), NEW s, IsSeq(s), NEW x, IsSeq(x),
         NEW buffers, RemembersUnit(c, s, buffers)
  PROVE  /\ IsSeq(UnitForward(c, s)) /\ Len(UnitForward(c, s)) = Len(s)
         /\ IsSeq(UnitStep(c, x, buffers).out) /\ Len(UnitStep(c, x, buffers).out) = Len(x)
         /\ UnitForward(c, s \o x) = UnitForward(c, s) \o UnitStep(c, x, buffers).out
         /\ RemembersUnit(c, s \o x, UnitStep(c, x, buffers).keeps)
<1> DEFINE first == ConvStep(c, x, buffers[1])
           a == first.out
           f == ConvForward(c, s)
           g == ConvForward(c, s \o x)
           second == ConvStep(POINT, a, buffers[2])
           b == second.out
           ff == ConvForward(POINT, f)
           gg == ConvForward(POINT, g)
<1>0. IsConv(POINT)
  BY DEF POINT, IsConv
<1>1. Remembers(c, s, buffers[1]) /\ Remembers(POINT, f, buffers[2])
  BY DEF RemembersUnit
<1>2. IsSeq(f) /\ Len(f) = Len(s) /\ IsSeq(a) /\ Len(a) = Len(x)
  BY <1>1, ConvContinues
<1>3. g = f \o a /\ Remembers(c, s \o x, first.keeps)
  BY <1>1, ConvContinues
<1>4. /\ UnitForward(c, s) = Plus(s, ff) /\ UnitForward(c, s \o x) = Plus(s \o x, gg)
      /\ UnitStep(c, x, buffers).out = Plus(x, b)
      /\ UnitStep(c, x, buffers).keeps = <<first.keeps, second.keeps>>
  BY DEF UnitForward, UnitStep
<1>5. ff = ConvForward(POINT, f) /\ gg = ConvForward(POINT, g) /\ g = ConvForward(c, s \o x)
  OBVIOUS
<1> HIDE DEF first, a, f, g
<1>6. IsSeq(ff) /\ Len(ff) = Len(f) /\ IsSeq(b) /\ Len(b) = Len(a)
  BY <1>0, <1>1, <1>2, ConvContinues
<1>7. ConvForward(POINT, f \o a) = ff \o b /\ Remembers(POINT, f \o a, second.keeps)
  BY <1>0, <1>1, <1>2, ConvContinues
<1>8. gg = ff \o b
  BY <1>3, <1>7
<1> HIDE DEF second, b, ff, gg
<1>9. /\ IsSeq(Plus(s, ff)) /\ Len(Plus(s, ff)) = Len(s)
      /\ IsSeq(Plus(x, b)) /\ Len(Plus(x, b)) = Len(x)
  BY PlusIs
<1>10. Plus(s \o x, gg) = Plus(s, ff) \o Plus(x, b)
  <2>1. /\ IsSeq(s) /\ IsSeq(ff) /\ Len(s) = Len(ff)
        /\ IsSeq(x) /\ IsSeq(b) /\ Len(x) = Len(b)
    BY <1>2, <1>6
  <2>2. Plus(s \o x, ff \o b) = Plus(s, ff) \o Plus(x, b)
    BY ONLY <2>1, PlusGrows
  <2> QED BY <1>8, <2>2
<1>11. RemembersUnit(c, s \o x, <<first.keeps, second.keeps>>)
  <2>1. Remembers(POINT, g, second.keeps)
    BY <1>3, <1>7
  <2> QED BY <1>3, <1>5, <2>1 DEF RemembersUnit
<1> QED BY <1>4, <1>9, <1>10, <1>11
-----------------------------------------------------------------------------
(***************************************************************************)
(* A transposed convolution: what a sample is made of.                     *)
(***************************************************************************)
IsTrans(u) == u.s \in Nat \ {0} /\ u.k \in Nat /\ u.k >= u.s

\* What goes into a sample of output, and the borders whose overlap it lies in.
Terms(u, x, o) ==
  {<<x[i], o - (i - 1) * u.s>> : i \in {n \in 1..Len(x) : o - (n - 1) * u.s \in 1..u.k}}
Crossed(u, B, o) == {b \in B \ {0} : o - b * u.s \in 1..RightPad(u)}
Carry(C) == [e \in IF C = {} THEN {} ELSE {Bias} |-> Cardinality(C)]
OneOf(T) == SetToBag({Bias} \cup T)

\* A term of a sample comes from one place of the input.
LEMMA TermsAre ==
  ASSUME NEW u, NEW x, NEW o
  PROVE  \A e : e \in Terms(u, x, o) <=>
           \E i \in 1..Len(x) : o - (i - 1) * u.s \in 1..u.k /\ e = <<x[i], o - (i - 1) * u.s>>
BY DEF Terms

\* Where the strides of the places before and behind a border lie.
LEMMA Places ==
  ASSUME NEW u, IsTrans(u), NEW m \in Nat, NEW q \in Int
  PROVE  /\ m * u.s \in Nat
         /\ \A i \in Int : (i - 1) * u.s \in Int
         /\ \A i \in Int : i >= m + 1 => (i - 1) * u.s >= m * u.s
         /\ \A i \in Int : i <= m => (i - 1) * u.s <= m * u.s - u.s
         /\ \A i \in Int : (m * u.s + q) - ((m + i) - 1) * u.s = q - (i - 1) * u.s
<1> DEFINE S == u.s
<1>1. S \in Nat \ {0}
  BY DEF IsTrans
<1> HIDE DEF S
<1>2. m * S \in Nat /\ \A i \in Int : (i - 1) * S \in Int
  BY <1>1
<1>3. ASSUME NEW i \in Int, i >= m + 1 PROVE (i - 1) * S >= m * S
  <2>1. ((i - 1) - m) * S >= 0
    BY <1>1, <1>3
  <2>2. (i - 1) * S = m * S + ((i - 1) - m) * S
    BY <1>1
  <2> DEFINE a == (i - 1) * S
             b == m * S
             c == ((i - 1) - m) * S
  <2>3. a \in Int /\ b \in Int /\ c \in Int
    BY <1>1
  <2>4. a = b + c /\ c >= 0
    BY <2>1, <2>2
  <2> HIDE DEF a, b, c
  <2>5. a >= b
    BY <2>3, <2>4
  <2> QED BY <2>5 DEF a, b
<1>4. ASSUME NEW i \in Int, i <= m PROVE (i - 1) * S <= m * S - S
  <2>1. (m - i) * S >= 0
    BY <1>1, <1>4
  <2>2. m * S = (i - 1) * S + (m - i) * S + S
    BY <1>1
  <2>3. (m - i) * S \in Int
    BY <1>1
  <2> QED BY <1>1, <1>2, <2>1, <2>2, <2>3
<1>5. ASSUME NEW i \in Int PROVE (m * S + q) - ((m + i) - 1) * S = q - (i - 1) * S
  <2>1. ((m + i) - 1) * S = m * S + (i - 1) * S
    BY <1>1
  <2> QED BY <1>2, <2>1
<1> QED BY <1>2, <1>3, <1>4, <1>5 DEF S

\* Up to the border the batch behind it is not heard.
LEMMA TermsBefore ==
  ASSUME NEW u, IsTrans(u), NEW s, IsSeq(s), NEW x, IsSeq(x), NEW o \in Int, o <= Len(s) * u.s
  PROVE  Terms(u, s \o x, o) = Terms(u, s, o)
<1> DEFINE m == Len(s)
           n == Len(x)
           y == s \o x
           at(i) == o - (i - 1) * u.s
<1>1. m \in Nat /\ n \in Nat
  BY SeqIsTable
<1>2. Len(y) = m + n /\ \A i \in 1..m + n : y[i] = IF i <= m THEN s[i] ELSE x[i - m]
  BY Concat
<1> HIDE DEF y
<1>3. \A i \in 1..m + n : at(i) \in 1..u.k => i <= m
  <2> SUFFICES ASSUME NEW i \in 1..m + n, at(i) \in 1..u.k, i >= m + 1 PROVE FALSE
    BY <1>1
  <2>1. (i - 1) * u.s >= m * u.s /\ (i - 1) * u.s \in Int /\ m * u.s \in Nat
    <3>1. i \in Int /\ i >= m + 1 /\ 0 \in Int
      BY <1>1
    <3> HIDE DEF m, at
    <3>2. /\ m * u.s \in Nat
          /\ \A j \in Int : (j - 1) * u.s \in Int
          /\ \A j \in Int : j >= m + 1 => (j - 1) * u.s >= m * u.s
      BY <1>1, <3>1, Places
    <3> QED BY <3>1, <3>2
  <2>2. ~(at(i) >= 1)
    BY <2>1
  <2> QED BY <2>2
<1>4. \A i \in 1..m : y[i] = s[i] /\ i \in 1..m + n
  BY <1>1, <1>2
<1> SUFFICES ASSUME NEW e PROVE e \in Terms(u, y, o) <=> e \in Terms(u, s, o)
  BY DEF y
<1>5. e \in Terms(u, y, o) <=> \E i \in 1..m + n : at(i) \in 1..u.k /\ e = <<y[i], at(i)>>
  BY <1>2, TermsAre
<1>6. e \in Terms(u, s, o) <=> \E i \in 1..m : at(i) \in 1..u.k /\ e = <<s[i], at(i)>>
  BY TermsAre
<1> HIDE DEF at, m, n
<1>7. \A i \in 1..m + n : i <= m => i \in 1..m
  BY <1>1
<1> QED BY <1>3, <1>4, <1>5, <1>6, <1>7

\* Behind it both are heard, each from its own place.
LEMMA TermsBehind ==
  ASSUME NEW u, IsTrans(u), NEW s, IsSeq(s), NEW x, IsSeq(x), NEW q \in Int, q >= 1
  PROVE  Terms(u, s \o x, Len(s) * u.s + q) = Terms(u, x, q) \cup Terms(u, s, Len(s) * u.s + q)
<1> DEFINE m == Len(s)
           n == Len(x)
           y == s \o x
           o == m * u.s + q
           at(i) == o - (i - 1) * u.s
           in(i) == q - (i - 1) * u.s
<1>1. m \in Nat /\ n \in Nat
  BY SeqIsTable
<1>2. /\ Len(y) = m + n /\ \A i \in 1..m : y[i] = s[i]
      /\ \A i \in 1..n : y[m + i] = x[i]
  BY Concat
<1> HIDE DEF y
<1>3. \A i \in 1..n : at(m + i) = in(i)
  <2> HIDE DEF m, n
  <2>1. \A i \in Int : (m * u.s + q) - ((m + i) - 1) * u.s = q - (i - 1) * u.s
    BY <1>1, Places
  <2>2. \A i \in 1..n : i \in Int
    BY <1>1
  <2> QED BY <2>1, <2>2
<1> SUFFICES ASSUME NEW e
             PROVE  e \in Terms(u, y, o) <=> e \in Terms(u, x, q) \/ e \in Terms(u, s, o)
  BY DEF y
<1>4. e \in Terms(u, y, o) <=> \E i \in 1..m + n : at(i) \in 1..u.k /\ e = <<y[i], at(i)>>
  BY <1>2, TermsAre
<1>5. e \in Terms(u, s, o) <=> \E i \in 1..m : at(i) \in 1..u.k /\ e = <<s[i], at(i)>>
  BY TermsAre
<1>6. e \in Terms(u, x, q) <=> \E i \in 1..n : in(i) \in 1..u.k /\ e = <<x[i], in(i)>>
  BY TermsAre
<1> HIDE DEF at, in, m, n
<1>7. \A i \in 1..m + n : i \in 1..m \/ (i - m \in 1..n /\ m + (i - m) = i)
  BY <1>1
<1>8. /\ \A i \in 1..m : i \in 1..m + n
      /\ \A i \in 1..n : m + i \in 1..m + n
  BY <1>1
<1>9. ASSUME e \in Terms(u, y, o) PROVE e \in Terms(u, x, q) \/ e \in Terms(u, s, o)
  <2>1. PICK i \in 1..m + n : at(i) \in 1..u.k /\ e = <<y[i], at(i)>>
    BY <1>4, <1>9
  <2>2. CASE i \in 1..m
    BY <1>2, <1>5, <2>1, <2>2
  <2>3. CASE i - m \in 1..n /\ m + (i - m) = i
    <3>1. at(i) = in(i - m) /\ y[i] = x[i - m]
      BY <1>2, <1>3, <2>3
    <3> QED BY <1>6, <2>1, <2>3, <3>1
  <2> QED BY <1>7, <2>2, <2>3
<1>10. ASSUME e \in Terms(u, x, q) PROVE e \in Terms(u, y, o)
  <2>1. PICK i \in 1..n : in(i) \in 1..u.k /\ e = <<x[i], in(i)>>
    BY <1>6, <1>10
  <2>2. m + i \in 1..m + n /\ at(m + i) = in(i) /\ y[m + i] = x[i]
    BY <1>2, <1>3, <1>8
  <2> QED BY <1>4, <2>1, <2>2
<1>11. ASSUME e \in Terms(u, s, o) PROVE e \in Terms(u, y, o)
  <2>1. PICK i \in 1..m : at(i) \in 1..u.k /\ e = <<s[i], at(i)>>
    BY <1>5, <1>11
  <2>2. i \in 1..m + n /\ y[i] = s[i]
    BY <1>2, <1>8
  <2> QED BY <1>4, <2>1, <2>2
<1> QED BY <1>9, <1>10, <1>11

\* A term of the batch before is further along its kernel than any of this one.
LEMMA TermsApart ==
  ASSUME NEW u, IsTrans(u), NEW s, IsSeq(s), NEW x, IsSeq(x), NEW q \in Int, q >= 1
  PROVE  /\ Terms(u, x, q) \cap Terms(u, s, Len(s) * u.s + q) = {}
         /\ Bias \notin Terms(u, x, q) \cup Terms(u, s, Len(s) * u.s + q)
         /\ q > RightPad(u) => Terms(u, s, Len(s) * u.s + q) = {}
<1> DEFINE m == Len(s)
           n == Len(x)
           o == m * u.s + q
<1>1. m \in Nat /\ n \in Nat /\ u.s \in Nat \ {0} /\ u.k \in Nat
  BY SeqIsTable DEF IsTrans
<1> HIDE DEF m, n
<1>2. ASSUME NEW e \in Terms(u, x, q) PROVE e[2] \in 1..u.k /\ e[2] <= q
  <2>1. PICK i \in 1..n : q - (i - 1) * u.s \in 1..u.k /\ e = <<x[i], q - (i - 1) * u.s>>
    BY TermsAre DEF n
  <2>2. (i - 1) * u.s \in Nat
    BY <1>1
  <2> QED BY <2>1, <2>2
<1>3. ASSUME NEW e \in Terms(u, s, o) PROVE e[2] \in 1..u.k /\ e[2] >= q + u.s
  <2>1. PICK i \in 1..m : o - (i - 1) * u.s \in 1..u.k /\ e = <<s[i], o - (i - 1) * u.s>>
    BY TermsAre DEF m
  <2>2. (i - 1) * u.s \in Int /\ m * u.s \in Nat /\ (i - 1) * u.s <= m * u.s - u.s
    BY <1>1, Places
  <2>3. o - (i - 1) * u.s >= q + u.s
    BY <1>1, <2>2
  <2> QED BY <2>1, <2>3
<1>4. Terms(u, x, q) \cap Terms(u, s, o) = {}
  <2> SUFFICES ASSUME NEW e \in Terms(u, x, q), e \in Terms(u, s, o) PROVE FALSE
    OBVIOUS
  <2> DEFINE j == e[2]
  <2>1. j \in 1..u.k /\ j <= q /\ j >= q + u.s
    BY <1>2, <1>3
  <2> HIDE DEF j
  <2> QED BY <1>1, <2>1
<1>5. Bias[2] = 0
  BY DEF Bias
<1>6. Bias \notin Terms(u, x, q) \cup Terms(u, s, o)
  <2> SUFFICES ASSUME Bias \in Terms(u, x, q) \/ Bias \in Terms(u, s, o) PROVE FALSE
    OBVIOUS
  <2>1. Bias[2] \in 1..u.k
    BY <1>2, <1>3
  <2>2. 0 \in 1..u.k
    BY <1>5, <2>1
  <2> QED BY <1>1, <2>2
<1>7. ASSUME q > RightPad(u) PROVE Terms(u, s, o) = {}
  <2> SUFFICES ASSUME NEW e \in Terms(u, s, o) PROVE FALSE
    OBVIOUS
  <2> DEFINE j == e[2]
  <2>1. j \in 1..u.k /\ j >= q + u.s
    BY <1>3
  <2> HIDE DEF j
  <2> QED BY <1>1, <1>7, <2>1 DEF RightPad
<1> QED BY <1>4, <1>6, <1>7 DEF m
-----------------------------------------------------------------------------
(***************************************************************************)
(* The bias that every batch adds to the overlap behind its border.        *)
(***************************************************************************)
\* A border adds no bias in front of it,
LEMMA CrossedBefore ==
  ASSUME NEW u, IsTrans(u), NEW B, NEW m \in Nat, NEW o \in Int, o <= m * u.s
  PROVE  Crossed(u, B \cup {m}, o) = Crossed(u, B, o)
<1>1. m * u.s \in Nat
  BY Places
<1>2. ~(o - m * u.s >= 1)
  BY <1>1
<1>3. RightPad(u) \in Int
  BY DEF RightPad, IsTrans
<1>4. o - m * u.s \notin 1..RightPad(u)
  BY <1>2, <1>3
<1> QED BY <1>4 DEF Crossed

\* and one to each sample of its overlap.
LEMMA CrossedBehind ==
  ASSUME NEW u, IsTrans(u), NEW m \in Nat, NEW B \in SUBSET (0..m - 1), NEW q \in Int, q >= 1
  PROVE  /\ q <= RightPad(u) /\ m # 0 =>
              Crossed(u, B \cup {m}, m * u.s + q) = Crossed(u, B, m * u.s + q) \cup {m}
         /\ q > RightPad(u) => Crossed(u, B \cup {m}, m * u.s + q) = {}
         /\ m = 0 => Crossed(u, B \cup {m}, m * u.s + q) = {}
         /\ m \notin Crossed(u, B, m * u.s + q)
<1> DEFINE o == m * u.s + q
           p == RightPad(u)
<1>1. m * u.s \in Nat /\ u.s \in Nat \ {0} /\ p \in Nat
  BY Places DEF RightPad, IsTrans
<1> HIDE DEF p
<1>2. o - m * u.s = q
  BY <1>1
<1>3. m \notin Crossed(u, B, o)
  <2>1. m \notin B
    OBVIOUS
  <2> QED BY <2>1 DEF Crossed
<1>4. ASSUME q <= p, m # 0
      PROVE  Crossed(u, B \cup {m}, o) = Crossed(u, B, o) \cup {m}
  <2>1. o - m * u.s \in 1..p
    BY <1>1, <1>2, <1>4
  <2> HIDE DEF o
  <2> QED BY <1>4, <2>1 DEF Crossed, p
<1>5. ASSUME NEW b \in B, q > p PROVE o - b * u.s \notin 1..p
  <2>1. b \in Nat /\ b <= m - 1
    OBVIOUS
  <2>2. b * u.s <= m * u.s /\ b * u.s \in Int
    <3>1. b + 1 \in Int /\ b + 1 <= m /\ (b + 1) - 1 = b
      BY <2>1
    <3>2. ((b + 1) - 1) * u.s \in Int /\ ((b + 1) - 1) * u.s <= m * u.s - u.s
      BY <3>1, Places
    <3> HIDE DEF o
    <3>3. b * u.s \in Int /\ b * u.s <= m * u.s - u.s
      BY <3>1, <3>2
    <3> QED BY <1>1, <3>3
  <2> QED BY <1>1, <1>5, <2>2
<1>6. ASSUME q > p PROVE Crossed(u, B \cup {m}, o) = {}
  <2>1. o - m * u.s \notin 1..p
    BY <1>1, <1>2, <1>6
  <2> HIDE DEF o
  <2> QED BY <1>5, <1>6, <2>1 DEF Crossed, p
<1>7. m = 0 => Crossed(u, B \cup {m}, o) = {}
  <2>1. m = 0 => B \cup {m} = {0}
    <3>1. m = 0 => 0..m - 1 = {}
      OBVIOUS
    <3> QED BY <3>1
  <2> HIDE DEF o
  <2> QED BY <2>1 DEF Crossed
<1> QED BY <1>3, <1>4, <1>6, <1>7 DEF p

\* A sample that the overlap of the batch before is added to: the terms of both,
\* and the bias once more.
LEMMA BagsMeet ==
  ASSUME NEW A, NEW Z, Bias \notin A \cup Z, A \cap Z = {}, NEW C, IsFiniteSet(C), NEW c, c \notin C
  PROVE  OneOf(A \cup Z) (+) Carry(C \cup {c}) = OneOf(A) (+) (OneOf(Z) (+) Carry(C))
<1> DEFINE v == OneOf(A \cup Z) (+) Carry(C \cup {c})
           z == OneOf(Z) (+) Carry(C)
           w == OneOf(A) (+) z
           n == Cardinality(C)
<1>1. n \in Nat /\ Cardinality(C \cup {c}) = n + 1 /\ (C = {} => n = 0)
  BY FS_CardinalityType, FS_AddElement, FS_EmptySet
<1>2. /\ DOMAIN Carry(C \cup {c}) = {Bias} /\ Carry(C \cup {c})[Bias] = n + 1
      /\ DOMAIN Carry(C) = (IF C = {} THEN {} ELSE {Bias}) /\ (C # {} => Carry(C)[Bias] = n)
  BY <1>1 DEF Carry
<1>3. \A T : DOMAIN OneOf(T) = {Bias} \cup T /\ \A e \in {Bias} \cup T : OneOf(T)[e] = 1
  BY DEF OneOf, SetToBag
<1> HIDE DEF n
<1>4. z = [e \in {Bias} \cup Z |-> IF e = Bias THEN 1 + n ELSE 1]
  <2>1. z = [e \in (DOMAIN OneOf(Z)) \cup (DOMAIN Carry(C)) |->
               (IF e \in DOMAIN OneOf(Z) THEN OneOf(Z)[e] ELSE 0)
               + (IF e \in DOMAIN Carry(C) THEN Carry(C)[e] ELSE 0)]
    BY DEF (+)
  <2>2. (DOMAIN OneOf(Z)) \cup (DOMAIN Carry(C)) = {Bias} \cup Z
    BY <1>2, <1>3
  <2>3. ASSUME NEW e \in {Bias} \cup Z PROVE z[e] = IF e = Bias THEN 1 + n ELSE 1
    <3>1. z[e] = OneOf(Z)[e] + (IF e \in DOMAIN Carry(C) THEN Carry(C)[e] ELSE 0)
      BY <1>3, <2>1
    <3>2. OneOf(Z)[e] = 1
      BY <1>3
    <3>3. (IF e \in DOMAIN Carry(C) THEN Carry(C)[e] ELSE 0) = IF e = Bias THEN n ELSE 0
      BY <1>1, <1>2
    <3> HIDE DEF z
    <3> QED BY <1>1, <3>1, <3>2, <3>3
  <2>4. z = [e \in {Bias} \cup Z |-> z[e]]
    BY <2>1, <2>2
  <2> HIDE DEF z
  <2> QED BY <2>3, <2>4
<1> HIDE DEF z
<1>5. DOMAIN z = {Bias} \cup Z /\ \A e \in {Bias} \cup Z : z[e] = IF e = Bias THEN 1 + n ELSE 1
  BY <1>4
<1>6. w = [e \in {Bias} \cup A \cup Z |-> IF e = Bias THEN 1 + (1 + n) ELSE 1]
  <2>1. w = [e \in (DOMAIN OneOf(A)) \cup (DOMAIN z) |->
               (IF e \in DOMAIN OneOf(A) THEN OneOf(A)[e] ELSE 0)
               + (IF e \in DOMAIN z THEN z[e] ELSE 0)]
    BY DEF (+)
  <2>2. (DOMAIN OneOf(A)) \cup (DOMAIN z) = {Bias} \cup A \cup Z
    BY <1>3, <1>5
  <2>3. ASSUME NEW e \in {Bias} \cup A \cup Z PROVE w[e] = IF e = Bias THEN 1 + (1 + n) ELSE 1
    <3>1. w[e] = (IF e \in DOMAIN OneOf(A) THEN OneOf(A)[e] ELSE 0)
                 + (IF e \in DOMAIN z THEN z[e] ELSE 0)
      BY <2>1, <2>2
    <3>2. (IF e \in DOMAIN OneOf(A) THEN OneOf(A)[e] ELSE 0) = IF e = Bias \/ e \in A THEN 1 ELSE 0
      BY <1>3
    <3>3. (IF e \in DOMAIN z THEN z[e] ELSE 0)
          = IF e = Bias THEN 1 + n ELSE IF e \in Z THEN 1 ELSE 0
      BY <1>5
    <3> HIDE DEF w
    <3> QED BY <1>1, <3>1, <3>2, <3>3
  <2>4. w = [e \in {Bias} \cup A \cup Z |-> w[e]]
    BY <2>1, <2>2
  <2> HIDE DEF w
  <2> QED BY <2>3, <2>4
<1>7. v = [e \in {Bias} \cup A \cup Z |-> IF e = Bias THEN 1 + (1 + n) ELSE 1]
  <2> DEFINE y == Carry(C \cup {c})
             t == OneOf(A \cup Z)
  <2>1. v = [e \in (DOMAIN t) \cup (DOMAIN y) |->
               (IF e \in DOMAIN t THEN t[e] ELSE 0) + (IF e \in DOMAIN y THEN y[e] ELSE 0)]
    BY DEF (+)
  <2>0. DOMAIN t = {Bias} \cup (A \cup Z) /\ DOMAIN y = {Bias}
    BY <1>2, <1>3
  <2>2. (DOMAIN t) \cup (DOMAIN y) = {Bias} \cup A \cup Z
    BY ONLY <2>0
  <2>3. ASSUME NEW e \in {Bias} \cup A \cup Z PROVE v[e] = IF e = Bias THEN 1 + (1 + n) ELSE 1
    <3>1. v[e] = (IF e \in DOMAIN t THEN t[e] ELSE 0) + (IF e \in DOMAIN y THEN y[e] ELSE 0)
      BY <2>1, <2>2
    <3>2. (IF e \in DOMAIN t THEN t[e] ELSE 0) = 1
      <4>1. DOMAIN t = {Bias} \cup (A \cup Z) /\ \A a \in {Bias} \cup (A \cup Z) : t[a] = 1
        BY ONLY <1>3
      <4> HIDE DEF t
      <4> QED BY ONLY <4>1, e \in {Bias} \cup A \cup Z
    <3>3. (IF e \in DOMAIN y THEN y[e] ELSE 0) = IF e = Bias THEN n + 1 ELSE 0
      BY <1>2
    <3> HIDE DEF v, t, y
    <3> QED BY <1>1, <3>1, <3>2, <3>3
  <2>4. v = [e \in {Bias} \cup A \cup Z |-> v[e]]
    BY <2>1, <2>2
  <2> HIDE DEF v
  <2> QED BY <2>3, <2>4
<1> HIDE DEF v, w
<1>8. v = w
  BY <1>6, <1>7
<1> QED BY <1>8 DEF v, w, z

\* Where nothing is carried a sample has its own terms.
LEMMA NoCarry ==
  ASSUME NEW T, NEW C, C = {}
  PROVE  OneOf(T) (+) Carry(C) = OneOf(T)
<1> DEFINE a == OneOf(T)
           b == Carry(C)
           v == a (+) b
<1>1. DOMAIN b = {}
  BY DEF Carry
<1>2. a = [e \in {Bias} \cup T |-> 1]
  BY DEF OneOf, SetToBag
<1>3. v = [e \in (DOMAIN a) \cup (DOMAIN b) |->
             (IF e \in DOMAIN a THEN a[e] ELSE 0) + (IF e \in DOMAIN b THEN b[e] ELSE 0)]
  BY DEF (+)
<1> HIDE DEF a, b
<1>4. (DOMAIN a) \cup (DOMAIN b) = {Bias} \cup T
  BY <1>1, <1>2
<1>5. \A e \in {Bias} \cup T : v[e] = 1
  BY <1>1, <1>2, <1>3, <1>4
<1>6. v = [e \in {Bias} \cup T |-> v[e]]
  BY <1>3, <1>4
<1> HIDE DEF v
<1>7. v = a
  BY <1>2, <1>5, <1>6
<1> QED BY <1>7 DEF v, a, b
-----------------------------------------------------------------------------
(***************************************************************************)
(* What a transposed convolution gives of all batches in a row.            *)
(***************************************************************************)
\* All but the last n places.
LEMMA ButLastIs ==
  ASSUME NEW s, IsSeq(s), NEW n \in Nat, n <= Len(s)
  PROVE  /\ IsSeq(ButLast(n, s)) /\ Len(ButLast(n, s)) = Len(s) - n
         /\ \A i \in 1..Len(s) - n : ButLast(n, s)[i] = s[i]
<1> DEFINE b == Len(s) - n
<1>1. /\ Len(s) \in Nat /\ b \in Int /\ b >= 1 - 1 /\ b <= Len(s) /\ b - 1 + 1 = b
      /\ \A i \in 1..b : 1 + i - 1 = i
  BY SeqIsTable
<1>2. ButLast(n, s) = SubSeq(s, 1, b)
  BY DEF ButLast
<1> HIDE DEF b
<1>3. /\ IsSeq(SubSeq(s, 1, b)) /\ Len(SubSeq(s, 1, b)) = b - 1 + 1
      /\ \A i \in 1..(b - 1 + 1) : SubSeq(s, 1, b)[i] = s[1 + i - 1]
  BY <1>1, Sub
<1> DEFINE t == SubSeq(s, 1, b)
<1> HIDE DEF t
<1>4. IsSeq(t) /\ Len(t) = b /\ \A i \in 1..b : t[i] = s[i]
  BY <1>1, <1>3 DEF t
<1> QED BY <1>2, <1>4 DEF t, b

\* The end of what was joined is the end of its second part.
LEMMA EndOfJoined ==
  ASSUME NEW a, IsSeq(a), NEW b, IsSeq(b), NEW n \in Nat, n <= Len(b)
  PROVE  /\ ButLast(n, a \o b) = a \o ButLast(n, b)
         /\ LastOf(n, a \o b) = LastOf(n, b)
<1> DEFINE c == a \o b
           k == Len(a)
           m == Len(b)
<1>1. k \in Nat /\ m \in Nat
  BY SeqIsTable
<1>2. IsSeq(c) /\ Len(c) = k + m /\ \A i \in 1..k + m : c[i] = IF i <= k THEN a[i] ELSE b[i - k]
  BY Concat
<1> HIDE DEF c
<1>3. n <= Len(c)
  BY <1>1, <1>2
<1> HIDE DEF k, m
<1>4. LastOf(n, c) = LastOf(n, b)
  <2> DEFINE u == LastOf(n, c)
             v == LastOf(n, b)
  <2>1. IsSeq(u) /\ Len(u) = n /\ \A i \in 1..n : u[i] = c[(Len(c) - n) + i]
    BY <1>2, <1>3, LastOfIs
  <2>2. IsSeq(v) /\ Len(v) = n /\ \A i \in 1..n : v[i] = b[(m - n) + i]
    BY LastOfIs DEF m
  <2> HIDE DEF u, v
  <2>3. ASSUME NEW i \in 1..n PROVE u[i] = v[i]
    <3> DEFINE j == (Len(c) - n) + i
    <3>1. j \in 1..k + m /\ ~(j <= k) /\ j - k = (m - n) + i
      BY <1>1, <1>2 DEF m
    <3> HIDE DEF j
    <3>2. c[j] = b[j - k]
      BY <1>2, <3>1
    <3> QED BY <2>1, <2>2, <3>1, <3>2 DEF j
  <2>4. u = v
    BY <2>1, <2>2, <2>3, SameSeq
  <2> QED BY <2>4 DEF u, v
<1>5. ButLast(n, c) = a \o ButLast(n, b)
  <2> DEFINE u == ButLast(n, c)
             v == ButLast(n, b)
             w == a \o v
  <2>1. IsSeq(u) /\ Len(u) = Len(c) - n /\ \A i \in 1..Len(c) - n : u[i] = c[i]
    BY <1>2, <1>3, ButLastIs
  <2>2. IsSeq(v) /\ Len(v) = m - n /\ \A i \in 1..m - n : v[i] = b[i]
    BY ButLastIs DEF m
  <2> HIDE DEF u, v
  <2>3. /\ IsSeq(w) /\ Len(w) = Len(a) + Len(v)
        /\ \A i \in 1..Len(a) + Len(v) : w[i] = IF i <= Len(a) THEN a[i] ELSE v[i - Len(a)]
    <3>1. IsSeq(a) /\ IsSeq(v)
      BY <2>2
    <3> QED BY ONLY <3>1, Concat
  <2> HIDE DEF w
  <2>4. Len(c) - n = k + (m - n) /\ Len(a) + Len(v) = k + (m - n)
    BY <1>1, <1>2, <2>2 DEF k
  <2>5. ASSUME NEW i \in 1..k + (m - n) PROVE u[i] = w[i]
    <3>1. u[i] = c[i] /\ w[i] = (IF i <= k THEN a[i] ELSE v[i - k])
      BY <2>1, <2>3, <2>4 DEF k
    <3>2. i \in 1..k + m
      BY <1>1 DEF m
    <3>3. CASE i <= k
      BY <1>2, <3>1, <3>2, <3>3
    <3>4. CASE ~(i <= k)
      <4>1. i - k \in 1..m - n
        BY <1>1, <3>4 DEF m
      <4> QED BY <1>2, <2>2, <3>1, <3>2, <3>4, <4>1
    <3> QED BY <3>3, <3>4
  <2>6. u = w
    BY <2>1, <2>3, <2>4, <2>5, SameSeq
  <2> QED BY <2>6 DEF u, w, v
<1> QED BY <1>4, <1>5 DEF c

\* Everything a transposed convolution makes of x, the overlap with what may come
\* included, where the batches began at B.
Spread(u, x, B) ==
  [o \in 1..Len(x) * u.s + RightPad(u) |-> OneOf(Terms(u, x, o)) (+) Carry(Crossed(u, B, o))]
Samples(u, x, B) == ButLast(RightPad(u), Spread(u, x, B))

\* How long what is spread is.
LEMMA Lengths ==
  ASSUME NEW u, IsTrans(u), NEW x, IsSeq(x)
  PROVE  /\ Len(x) \in Nat /\ u.s \in Nat \ {0} /\ RightPad(u) \in Nat
         /\ Len(x) * u.s \in Nat /\ Len(x) * u.s + RightPad(u) \in Nat
         /\ (Len(x) - 1) * u.s + u.k = Len(x) * u.s + RightPad(u)
<1> DEFINE n == Len(x)
           S == u.s
           k == u.k
<1>1. n \in Nat /\ S \in Nat \ {0} /\ k \in Nat /\ k >= S
  BY SeqIsTable DEF IsTrans
<1>2. RightPad(u) = k - S
  BY DEF RightPad
<1> HIDE DEF n, S, k
<1>3. n * S \in Nat /\ (n - 1) * S = n * S - S
  BY <1>1
<1> DEFINE w == n * S
           z == (n - 1) * S
<1>4. w \in Nat /\ z = w - S
  BY <1>3
<1> HIDE DEF w, z
<1>5. k - S \in Nat /\ w + (k - S) \in Nat /\ z + k = w + (k - S)
  BY <1>1, <1>4
<1>6. w = n * S /\ z = (n - 1) * S
  BY DEF w, z
<1> QED BY <1>1, <1>2, <1>4, <1>5, <1>6 DEF n, S, k

\* A transposed convolution of one batch, sample by sample.
LEMMA RawIs ==
  ASSUME NEW u, IsTrans(u), NEW x, IsSeq(x)
  PROVE  /\ IsSeq(RawForward(u, x)) /\ Len(RawForward(u, x)) = Len(x) * u.s + RightPad(u)
         /\ DOMAIN RawForward(u, x) = 1..Len(x) * u.s + RightPad(u)
         /\ \A o \in 1..Len(x) * u.s + RightPad(u) : RawForward(u, x)[o] = OneOf(Terms(u, x, o))
<1> DEFINE r == RawForward(u, x)
           n == Len(x) * u.s + RightPad(u)
<1>1. n \in Nat /\ (Len(x) - 1) * u.s + u.k = n
  BY Lengths
<1>2. RawForward(u, x) = [o \in 1..((Len(x) - 1) * u.s + u.k) |-> OneOf(Terms(u, x, o))]
  BY DEF RawForward, OneOf, Terms
<1> HIDE DEF n
<1>3. r = [o \in 1..n |-> OneOf(Terms(u, x, o))]
  BY <1>1, <1>2
<1>4. r = [o \in 1..n |-> r[o]] /\ \A o \in 1..n : r[o] = OneOf(Terms(u, x, o))
  BY <1>3
<1> HIDE DEF r
<1>5. IsSeq(r) /\ Len(r) = n /\ DOMAIN r = 1..n
  BY <1>1, <1>4, TableIsSeq
<1> QED BY <1>4, <1>5 DEF r, n

\* The same of all batches in a row, with what was carried.
LEMMA SpreadIs ==
  ASSUME NEW u, IsTrans(u), NEW x, IsSeq(x), NEW B
  PROVE  /\ IsSeq(Spread(u, x, B)) /\ Len(Spread(u, x, B)) = Len(x) * u.s + RightPad(u)
         /\ \A o \in 1..Len(x) * u.s + RightPad(u) :
              Spread(u, x, B)[o] = OneOf(Terms(u, x, o)) (+) Carry(Crossed(u, B, o))
         /\ IsSeq(Samples(u, x, B)) /\ Len(Samples(u, x, B)) = Len(x) * u.s
         /\ \A o \in 1..Len(x) * u.s : Samples(u, x, B)[o] = Spread(u, x, B)[o]
<1> DEFINE r == Spread(u, x, B)
           m == Len(x) * u.s
           p == RightPad(u)
           n == m + p
<1>1. m \in Nat /\ n \in Nat /\ p \in Nat
  BY Lengths
<1>2. r = [o \in 1..n |-> r[o]]
      /\ \A o \in 1..n : r[o] = OneOf(Terms(u, x, o)) (+) Carry(Crossed(u, B, o))
  BY DEF Spread
<1> HIDE DEF r, n
<1>3. IsSeq(r) /\ Len(r) = n
  BY <1>1, <1>2, TableIsSeq
<1>4. p <= Len(r) /\ Len(r) - p = m
  BY <1>1, <1>3 DEF n
<1> HIDE DEF m, p
<1>5. /\ IsSeq(ButLast(p, r)) /\ Len(ButLast(p, r)) = Len(r) - p
      /\ \A i \in 1..Len(r) - p : ButLast(p, r)[i] = r[i]
  BY <1>1, <1>3, <1>4, ButLastIs
<1> QED BY <1>2, <1>3, <1>4, <1>5 DEF Samples, r, m, p, n

\* What an overlap is, behind s.
Overlap(u, s, B, overflow) ==
  overflow = IF Len(s) = 0 THEN <<>> ELSE LastOf(RightPad(u), Spread(u, s, B))

\* The overlap, sample by sample.
LEMMA OverlapIs ==
  ASSUME NEW u, IsTrans(u), NEW s, IsSeq(s), NEW B, NEW overflow, Overlap(u, s, B, overflow)
  PROVE  /\ IsSeq(overflow)
         /\ Len(s) = 0 => Len(overflow) = 0
         /\ Len(s) # 0 => /\ Len(overflow) = RightPad(u)
                          /\ \A q \in 1..RightPad(u) :
                               overflow[q] = Spread(u, s, B)[Len(s) * u.s + q]
<1> DEFINE m == Len(s) * u.s
           p == RightPad(u)
           r == Spread(u, s, B)
<1>1. m \in Nat /\ p \in Nat
  BY Lengths
<1>2. IsSeq(r) /\ Len(r) = m + p
  BY SpreadIs
<1> HIDE DEF m, p, r
<1>3. p <= Len(r) /\ Len(r) - p = m
  BY <1>1, <1>2
<1>4. CASE Len(s) = 0
  BY <1>4, EmptyIsSeq DEF Overlap
<1>5. CASE Len(s) # 0
  <2>1. overflow = LastOf(p, r)
    BY <1>5 DEF Overlap, p, r
  <2>2. /\ IsSeq(LastOf(p, r)) /\ Len(LastOf(p, r)) = p
        /\ \A i \in 1..p : LastOf(p, r)[i] = r[(Len(r) - p) + i]
    BY <1>1, <1>2, <1>3, LastOfIs
  <2> QED BY <1>3, <1>5, <2>1, <2>2 DEF m, p, r
<1> QED BY <1>4, <1>5

\* A batch on top of the overlap, sample by sample.
LEMMA MergedIs ==
  ASSUME NEW u, IsTrans(u), NEW x, IsSeq(x), NEW overflow
  PROVE  /\ IsSeq(Merged(u, x, overflow))
         /\ Len(Merged(u, x, overflow)) = Len(x) * u.s + RightPad(u)
         /\ \A o \in 1..Len(x) * u.s + RightPad(u) :
              Merged(u, x, overflow)[o] =
                IF o <= Len(overflow) THEN OneOf(Terms(u, x, o)) (+) overflow[o]
                                      ELSE OneOf(Terms(u, x, o))
<1> DEFINE r == Merged(u, x, overflow)
           w == RawForward(u, x)
           n == Len(x) * u.s + RightPad(u)
<1>1. n \in Nat
  BY Lengths
<1>2. DOMAIN w = 1..n /\ \A o \in 1..n : w[o] = OneOf(Terms(u, x, o))
  BY RawIs
<1>3. r = [o \in DOMAIN w |-> IF o <= Len(overflow) THEN w[o] (+) overflow[o] ELSE w[o]]
  BY DEF Merged
<1> HIDE DEF w, n
<1>4. r = [o \in 1..n |-> r[o]]
      /\ \A o \in 1..n : r[o] = IF o <= Len(overflow) THEN w[o] (+) overflow[o] ELSE w[o]
  BY <1>2, <1>3
<1> HIDE DEF r
<1>5. IsSeq(r) /\ Len(r) = n
  BY <1>1, <1>4, TableIsSeq
<1>6. \A o \in 1..n : r[o] = IF o <= Len(overflow) THEN OneOf(Terms(u, x, o)) (+) overflow[o]
                                                   ELSE OneOf(Terms(u, x, o))
  BY <1>2, <1>4
<1> QED BY <1>5, <1>6 DEF r, n
-----------------------------------------------------------------------------
(***************************************************************************)
(* A decoder block in batches.                                             *)
(***************************************************************************)
\* Overlap and batch together are what the whole gives, the carried bias included.
LEMMA SpreadGrows ==
  ASSUME NEW u, IsTrans(u), NEW s, IsSeq(s), NEW x, IsSeq(x), NEW B \in SUBSET (0..Len(s) - 1),
         NEW overflow, Overlap(u, s, B, overflow)
  PROVE  Spread(u, s \o x, B \cup {Len(s)}) = Samples(u, s, B) \o Merged(u, x, overflow)
<1> DEFINE m == Len(s)
           n == Len(x)
           p == RightPad(u)
           k == m * u.s
           l == n * u.s
           D == B \cup {m}
           y == s \o x
           v == Spread(u, y, D)
           a == Samples(u, s, B)
           b == Merged(u, x, overflow)
           w == a \o b
<1>1. m \in Nat /\ n \in Nat /\ p \in Nat /\ k \in Nat /\ l \in Nat /\ u.s \in Nat \ {0}
  BY Lengths
<1>2. IsSeq(y) /\ Len(y) = m + n
  BY Concat
<1>3. Len(y) * u.s = k + l
  BY <1>1, <1>2
<1> HIDE DEF y
<1>4. /\ IsSeq(v) /\ Len(v) = k + l + p
      /\ \A o \in 1..k + l + p : v[o] = OneOf(Terms(u, y, o)) (+) Carry(Crossed(u, D, o))
  BY <1>2, <1>3, SpreadIs
<1> HIDE DEF v, D
<1>5. /\ IsSeq(a) /\ Len(a) = k
      /\ \A o \in 1..k : a[o] = Spread(u, s, B)[o]
      /\ \A o \in 1..k + p : Spread(u, s, B)[o] = OneOf(Terms(u, s, o)) (+) Carry(Crossed(u, B, o))
  BY SpreadIs
<1>6. /\ IsSeq(b) /\ Len(b) = l + p
      /\ \A q \in 1..l + p : b[q] = IF q <= Len(overflow) THEN OneOf(Terms(u, x, q)) (+) overflow[q]
                                                          ELSE OneOf(Terms(u, x, q))
  BY MergedIs
<1> HIDE DEF a, b
<1>7. /\ IsSeq(w) /\ Len(w) = k + (l + p)
      /\ \A o \in 1..k + (l + p) : w[o] = IF o <= k THEN a[o] ELSE b[o - k]
  <2>1. IsSeq(a) /\ IsSeq(b)
    BY <1>5, <1>6
  <2>2. /\ IsSeq(w) /\ Len(w) = Len(a) + Len(b)
        /\ \A o \in 1..Len(a) + Len(b) : w[o] = IF o <= Len(a) THEN a[o] ELSE b[o - Len(a)]
    BY ONLY <2>1, Concat
  <2> QED BY <1>5, <1>6, <2>2
<1> HIDE DEF w
<1>8. /\ IsSeq(overflow)
      /\ m = 0 => Len(overflow) = 0
      /\ m # 0 => Len(overflow) = p /\ \A q \in 1..p : overflow[q] = Spread(u, s, B)[k + q]
  BY OverlapIs
<1>9. ASSUME NEW o \in 1..k PROVE v[o] = a[o]
  <2>1. o \in Int /\ o <= k /\ o \in 1..k + l + p /\ o \in 1..k + p
    <3> HIDE DEF k, l, p
    <3> QED BY <1>1
  <2>2. Terms(u, y, o) = Terms(u, s, o)
    <3> HIDE DEF k
    <3>1. o \in Int /\ o <= Len(s) * u.s
      BY <2>1 DEF k, m
    <3> QED BY <3>1, TermsBefore DEF y
  <2>3. Crossed(u, D, o) = Crossed(u, B, o)
    <3>1. o \in Int /\ o <= m * u.s /\ m \in Nat
      BY <1>1, <2>1
    <3> HIDE DEF m
    <3> QED BY <3>1, CrossedBefore DEF D
  <2> QED BY <1>4, <1>5, <2>1, <2>2, <2>3
<1>10. ASSUME NEW q \in 1..l + p PROVE v[k + q] = b[q]
  <2> DEFINE A == Terms(u, x, q)
             Z == Terms(u, s, k + q)
             C == Crossed(u, B, k + q)
  <2>1. q \in Int /\ q >= 1 /\ k + q \in 1..k + l + p
    <3> HIDE DEF k, l, p
    <3> QED BY <1>1
  <2>2. v[k + q] = OneOf(A \cup Z) (+) Carry(Crossed(u, D, k + q))
    <3>1. Terms(u, y, k + q) = A \cup Z
      BY <2>1, TermsBehind DEF y
    <3> QED BY <1>4, <2>1, <3>1
  <2>3. A \cap Z = {} /\ Bias \notin A \cup Z /\ (q > p => Z = {})
    BY <2>1, TermsApart
  <2>4. /\ q <= p /\ m # 0 => Crossed(u, D, k + q) = C \cup {m}
        /\ q > p => Crossed(u, D, k + q) = {}
        /\ m = 0 => Crossed(u, D, k + q) = {}
        /\ m \notin C
    <3>1. m \in Nat /\ B \in SUBSET (0..m - 1) /\ q \in Int /\ q >= 1
      BY <1>1, <2>1
    <3> HIDE DEF m
    <3> QED BY <3>1, CrossedBehind DEF D
  <2>5. IsFiniteSet(C)
    <3>1. C \subseteq B
      BY DEF Crossed
    <3>2. m - 1 \in Int /\ 0 \in Int
      BY <1>1
    <3>3. IsFiniteSet(0..m - 1)
      BY <3>2, FS_Interval
    <3>4. C \subseteq 0..m - 1
      BY <3>1
    <3> QED BY <3>3, <3>4, FS_Subset
  <2>6. CASE q <= p /\ m # 0
    <3>1. b[q] = OneOf(A) (+) Spread(u, s, B)[k + q]
      <4>1. Len(overflow) = p /\ q \in 1..p /\ q <= p /\ q \in 1..l + p
        <5> HIDE DEF k, l, p, m
        <5> QED BY <1>1, <1>8, <2>6
      <4>2. overflow[q] = Spread(u, s, B)[k + q]
        <5> HIDE DEF k, p, m
        <5> QED BY <1>8, <2>6, <4>1
      <4>3. b[q] = OneOf(A) (+) overflow[q]
        <5> HIDE DEF k, l, p
        <5> QED BY <1>6, <4>1 DEF A
      <4> QED BY ONLY <4>2, <4>3
    <3>2. Spread(u, s, B)[k + q] = OneOf(Z) (+) Carry(C)
      <4>1. k + q \in 1..k + p
        <5> HIDE DEF k, p
        <5> QED BY <1>1, <2>6
      <4> QED BY <1>5, <4>1
    <3> HIDE DEF A, Z, C
    <3>3. OneOf(A \cup Z) (+) Carry(C \cup {m}) = OneOf(A) (+) (OneOf(Z) (+) Carry(C))
      BY <2>3, <2>4, <2>5, BagsMeet
    <3> QED BY <2>2, <2>4, <2>6, <3>1, <3>2, <3>3
  <2>7. CASE q > p \/ m = 0
    <3>1. Z = {}
      <4>1. CASE q > p
        BY <2>3, <4>1
      <4>2. CASE m = 0
        <5>1. \A e : e \in Z <=> \E i \in 1..m : (k + q) - (i - 1) * u.s \in 1..u.k
                                               /\ e = <<s[i], (k + q) - (i - 1) * u.s>>
          BY TermsAre
        <5>2. 1..m = {}
          BY <4>2
        <5> QED BY <5>1, <5>2
      <4> QED BY <2>7, <4>1, <4>2
    <3>2. Crossed(u, D, k + q) = {}
      BY <2>4, <2>7
    <3>3. ~(q <= Len(overflow))
      BY <1>1, <1>8, <2>7
    <3>4. b[q] = OneOf(A)
      BY <1>6, <3>3
    <3> HIDE DEF A, Z
    <3>5. A \cup Z = A
      BY <3>1
    <3> QED BY <2>2, <3>2, <3>4, <3>5, NoCarry
  <2> QED BY <1>1, <2>6, <2>7
<1>11. v = w
  <2>1. ASSUME NEW o \in 1..k + l + p PROVE v[o] = w[o]
    <3>1. CASE o <= k
      <4>1. o \in 1..k /\ o \in 1..k + (l + p)
        BY <1>1, <3>1
      <4>2. w[o] = a[o]
        BY <1>7, <3>1, <4>1
      <4> QED BY <1>9, <4>1, <4>2
    <3>2. CASE ~(o <= k)
      <4>1. o - k \in 1..l + p /\ k + (o - k) = o /\ o \in 1..k + (l + p)
        <5> HIDE DEF k, l, p
        <5> QED BY <1>1, <3>2
      <4>2. w[o] = b[o - k]
        BY <1>7, <3>2, <4>1
      <4>3. v[k + (o - k)] = b[o - k]
        BY <1>10, <4>1
      <4> QED BY <4>1, <4>2, <4>3
    <3> QED BY <3>1, <3>2
  <2>2. k + l + p = k + (l + p)
    BY <1>1
  <2> QED BY <1>4, <1>7, <2>1, <2>2, SameSeq
<1> QED BY <1>11 DEF v, w, a, b, y, D, m

\* A decoder block remembers the overlap, and what its unit remembers.
RemembersBlock(u, s, B, state) ==
  /\ Overlap(u, s, B, state.overflow)
  /\ RemembersUnit(u.conv, Samples(u, s, B), state.unit)

\* What it gives, all batches in a row.
BlockOf(u, s, B) == UnitForward(u.conv, Samples(u, s, B))

\* A decoder block continues where it stopped, and remembers what it needs.
LEMMA BlockContinues ==
  ASSUME NEW u, IsTrans(u), IsConv(u.conv), NEW s, IsSeq(s), NEW x, IsSeq(x), Len(x) # 0,
         NEW B \in SUBSET (0..Len(s) - 1), NEW state, RemembersBlock(u, s, B, state)
  PROVE  /\ IsSeq(BlockOf(u, s, B)) /\ Len(BlockOf(u, s, B)) = Len(s) * u.s
         /\ IsSeq(BlockStep(u, x, state).out)
         /\ BlockOf(u, s \o x, B \cup {Len(s)}) = BlockOf(u, s, B) \o BlockStep(u, x, state).out
         /\ RemembersBlock(u, s \o x, B \cup {Len(s)}, BlockStep(u, x, state).keeps)
<1> DEFINE D == B \cup {Len(s)}
           y == s \o x
           p == RightPad(u)
           o == state.overflow
           g == Merged(u, x, o)
           a == Samples(u, s, B)
           h == ButLast(p, g)
           made == BlockStep(u, x, state)
           unit == UnitStep(u.conv, h, state.unit)
<1>1. Len(s) \in Nat /\ Len(x) \in Nat /\ p \in Nat /\ Len(x) * u.s \in Nat
  BY Lengths
<1>2. IsSeq(y) /\ Len(y) = Len(s) + Len(x)
  BY Concat
<1>3. Overlap(u, s, B, o) /\ RemembersUnit(u.conv, a, state.unit)
  BY DEF RemembersBlock
<1>4. Spread(u, y, D) = a \o g
  <2> HIDE DEF o
  <2> QED BY <1>3, SpreadGrows DEF a
<1>5. IsSeq(a) /\ Len(a) = Len(s) * u.s
  BY SpreadIs
<1>6. IsSeq(g) /\ Len(g) = Len(x) * u.s + p
  BY MergedIs
<1> HIDE DEF a, g, y, D, p, o
<1>7. p <= Len(g) /\ Len(g) - p = Len(x) * u.s
  BY <1>1, <1>6
<1>8. IsSeq(h) /\ Len(h) = Len(x) * u.s
  <2>1. IsSeq(h) /\ Len(h) = Len(g) - p
    BY <1>1, <1>6, <1>7, ButLastIs
  <2> QED BY <1>7, <2>1
<1>9. ButLast(p, a \o g) = a \o h /\ LastOf(p, a \o g) = LastOf(p, g)
  <2>1. IsSeq(a) /\ IsSeq(g) /\ p \in Nat /\ p <= Len(g)
    BY <1>1, <1>5, <1>6, <1>7
  <2>2. ButLast(p, a \o g) = a \o ButLast(p, g) /\ LastOf(p, a \o g) = LastOf(p, g)
    BY ONLY <2>1, EndOfJoined
  <2> QED BY <2>2
<1>10. Samples(u, y, D) = a \o h
  BY <1>4, <1>9 DEF Samples, p
<1>11. /\ made.out = unit.out /\ made.keeps.overflow = LastOf(p, g)
       /\ made.keeps.unit = unit.keeps
  BY DEF BlockStep, g, p, o
<1> HIDE DEF h, made, unit
<1>12. /\ IsSeq(UnitForward(u.conv, a)) /\ Len(UnitForward(u.conv, a)) = Len(a)
       /\ IsSeq(unit.out) /\ Len(unit.out) = Len(h)
       /\ UnitForward(u.conv, a \o h) = UnitForward(u.conv, a) \o unit.out
       /\ RemembersUnit(u.conv, a \o h, unit.keeps)
  BY <1>3, <1>5, <1>8, UnitContinues DEF unit
<1>13. Overlap(u, y, D, made.keeps.overflow)
  <2>1. Len(y) # 0
    BY <1>1, <1>2
  <2> QED BY <1>4, <1>9, <1>11, <2>1 DEF Overlap, p
<1>14. RemembersBlock(u, y, D, made.keeps)
  BY <1>10, <1>11, <1>12, <1>13 DEF RemembersBlock
<1>15. BlockOf(u, y, D) = UnitForward(u.conv, a \o h) /\ BlockOf(u, s, B) = UnitForward(u.conv, a)
  BY <1>10 DEF BlockOf, a
<1>16. BlockOf(u, y, D) = BlockOf(u, s, B) \o made.out
  BY <1>11, <1>12, <1>15
<1>17. IsSeq(BlockOf(u, s, B)) /\ Len(BlockOf(u, s, B)) = Len(s) * u.s /\ IsSeq(made.out)
  BY <1>5, <1>11, <1>12, <1>15
<1> QED BY <1>14, <1>16, <1>17 DEF made, y, D
-----------------------------------------------------------------------------
(***************************************************************************)
(* Upsampling and the transformer in batches.                              *)
(***************************************************************************)
\* A transposed convolution at once, sample by sample.
LEMMA TransIs ==
  ASSUME NEW u, IsTrans(u), NEW x, IsSeq(x)
  PROVE  /\ IsSeq(TransForward(u, x)) /\ Len(TransForward(u, x)) = Len(x) * u.s
         /\ \A o \in 1..Len(x) * u.s : TransForward(u, x)[o] = OneOf(Terms(u, x, o))
<1> DEFINE r == RawForward(u, x)
           m == Len(x) * u.s
           p == RightPad(u)
<1>1. m \in Nat /\ p \in Nat
  BY Lengths
<1>2. IsSeq(r) /\ Len(r) = m + p /\ \A o \in 1..m + p : r[o] = OneOf(Terms(u, x, o))
  BY RawIs
<1> HIDE DEF r, m, p
<1>3. p <= Len(r) /\ Len(r) - p = m
  BY <1>1, <1>2
<1>4. /\ IsSeq(ButLast(p, r)) /\ Len(ButLast(p, r)) = m
      /\ \A i \in 1..m : ButLast(p, r)[i] = r[i]
  <2>1. /\ IsSeq(ButLast(p, r)) /\ Len(ButLast(p, r)) = Len(r) - p
        /\ \A i \in 1..Len(r) - p : ButLast(p, r)[i] = r[i]
    BY <1>1, <1>2, <1>3, ButLastIs
  <2> QED BY <1>3, <2>1
<1>5. TransForward(u, x) = ButLast(p, r)
  BY DEF TransForward, p, r
<1>6. \A o \in 1..m : r[o] = OneOf(Terms(u, x, o))
  BY <1>1, <1>2
<1> QED BY <1>4, <1>5, <1>6 DEF m

\* Without a border no bias is carried.
LEMMA SamplesAtOnce ==
  ASSUME NEW u, IsTrans(u), NEW x, IsSeq(x)
  PROVE  Samples(u, x, {}) = TransForward(u, x)
<1> DEFINE v == Samples(u, x, {})
           w == TransForward(u, x)
           m == Len(x) * u.s
<1>1. m \in Nat /\ RightPad(u) \in Nat
  BY Lengths
<1>2. /\ IsSeq(v) /\ Len(v) = m
      /\ \A o \in 1..m : v[o] = Spread(u, x, {})[o]
      /\ \A o \in 1..m + RightPad(u) :
           Spread(u, x, {})[o] = OneOf(Terms(u, x, o)) (+) Carry(Crossed(u, {}, o))
  BY SpreadIs
<1>3. IsSeq(w) /\ Len(w) = m /\ \A o \in 1..m : w[o] = OneOf(Terms(u, x, o))
  BY TransIs
<1> HIDE DEF v, w, m
<1>4. ASSUME NEW o \in 1..m PROVE v[o] = w[o]
  <2>1. o \in 1..m + RightPad(u)
    BY <1>1
  <2>2. Crossed(u, {}, o) = {}
    BY DEF Crossed
  <2>3. OneOf(Terms(u, x, o)) (+) Carry(Crossed(u, {}, o)) = OneOf(Terms(u, x, o))
    BY <2>2, NoCarry
  <2> QED BY <1>2, <1>3, <2>1, <2>3
<1>5. v = w
  BY <1>2, <1>3, <1>4, SameSeq
<1> QED BY <1>5 DEF v, w

\* What the property calls the carried bias is what the batches leave.
LEMMA CarriedIs ==
  ASSUME NEW u, IsTrans(u), NEW x, IsSeq(x)
  PROVE  WithCarriedBias(u, TransForward(u, x)) = Samples(u, x, borders)
<1> DEFINE v == Samples(u, x, borders)
           t == TransForward(u, x)
           w == WithCarriedBias(u, t)
           m == Len(x) * u.s
<1>1. m \in Nat /\ RightPad(u) \in Nat
  BY Lengths
<1>2. /\ IsSeq(v) /\ Len(v) = m
      /\ \A o \in 1..m : v[o] = Spread(u, x, borders)[o]
      /\ \A o \in 1..m + RightPad(u) :
           Spread(u, x, borders)[o] = OneOf(Terms(u, x, o)) (+) Carry(Crossed(u, borders, o))
  BY SpreadIs
<1>3. IsSeq(t) /\ Len(t) = m /\ \A o \in 1..m : t[o] = OneOf(Terms(u, x, o))
  BY TransIs
<1>4. DOMAIN t = 1..m
  BY <1>3, SeqIsTable
<1> HIDE DEF v, t, m
<1>5. w = [o \in DOMAIN t |-> t[o] (+) Carry(Crossed(u, borders, o))]
  BY DEF WithCarriedBias, Carry, Crossed
<1>6. w = [o \in 1..m |-> w[o]] /\ \A o \in 1..m : w[o] = t[o] (+) Carry(Crossed(u, borders, o))
  BY <1>4, <1>5
<1> HIDE DEF w
<1>7. IsSeq(w) /\ Len(w) = m
  BY <1>1, <1>6, TableIsSeq
<1>8. ASSUME NEW o \in 1..m PROVE w[o] = v[o]
  <2>1. o \in 1..m + RightPad(u)
    BY <1>1
  <2>2. v[o] = OneOf(Terms(u, x, o)) (+) Carry(Crossed(u, borders, o))
    BY <1>2, <2>1
  <2>3. t[o] = OneOf(Terms(u, x, o))
    BY <1>3
  <2> QED BY <1>6, <2>2, <2>3
<1>9. w = v
  BY <1>2, <1>7, <1>8, SameSeq
<1> QED BY <1>9 DEF w, v, t

\* A kernel as long as the stride has no overlap to remember.
LEMMA TransGrows ==
  ASSUME NEW u, IsTrans(u), u.k = u.s, NEW s, IsSeq(s), NEW x, IsSeq(x)
  PROVE  TransForward(u, s \o x) = TransForward(u, s) \o TransForward(u, x)
<1> DEFINE y == s \o x
           k == Len(s) * u.s
           l == Len(x) * u.s
           v == TransForward(u, y)
           a == TransForward(u, s)
           b == TransForward(u, x)
           w == a \o b
<1>1. Len(s) \in Nat /\ Len(x) \in Nat /\ k \in Nat /\ l \in Nat /\ u.s \in Nat \ {0}
  BY Lengths
<1>2. IsSeq(y) /\ Len(y) = Len(s) + Len(x)
  BY Concat
<1>3. Len(y) * u.s = k + l
  BY <1>1, <1>2
<1> HIDE DEF y
<1>4. IsSeq(v) /\ Len(v) = k + l /\ \A o \in 1..k + l : v[o] = OneOf(Terms(u, y, o))
  BY <1>2, <1>3, TransIs
<1>5. IsSeq(a) /\ Len(a) = k /\ \A o \in 1..k : a[o] = OneOf(Terms(u, s, o))
  BY TransIs
<1>6. IsSeq(b) /\ Len(b) = l /\ \A o \in 1..l : b[o] = OneOf(Terms(u, x, o))
  BY TransIs
<1> HIDE DEF a, b, v
<1>7. /\ IsSeq(w) /\ Len(w) = k + l
      /\ \A o \in 1..k + l : w[o] = IF o <= k THEN a[o] ELSE b[o - k]
  <2>1. IsSeq(a) /\ IsSeq(b)
    BY <1>5, <1>6
  <2>2. /\ IsSeq(w) /\ Len(w) = Len(a) + Len(b)
        /\ \A o \in 1..Len(a) + Len(b) : w[o] = IF o <= Len(a) THEN a[o] ELSE b[o - Len(a)]
    BY ONLY <2>1, Concat
  <2> QED BY <1>5, <1>6, <2>2
<1> HIDE DEF w
<1>8. ASSUME NEW o \in 1..k + l PROVE v[o] = w[o]
  <2>1. CASE o <= k
    <3>1. o \in 1..k /\ o \in Int
      <4> HIDE DEF k, l
      <4> QED BY <1>1, <2>1
    <3>2. Terms(u, y, o) = Terms(u, s, o)
      BY <2>1, <3>1, TermsBefore DEF y
    <3> QED BY <1>4, <1>5, <1>7, <2>1, <3>1, <3>2
  <2>2. CASE ~(o <= k)
    <3> DEFINE q == o - k
    <3>1. q \in 1..l /\ k + q = o /\ q \in Int /\ q >= 1 /\ q > 0
      <4> HIDE DEF k, l
      <4> QED BY <1>1, <2>2
    <3> HIDE DEF q
    <3>2. Terms(u, y, k + q) = Terms(u, x, q) \cup Terms(u, s, k + q)
      BY <3>1, TermsBehind DEF y
    <3>3. RightPad(u) = 0
      BY <1>1 DEF RightPad
    <3>4. Terms(u, s, k + q) = {}
      BY <3>1, <3>3, TermsApart
    <3>5. Terms(u, y, o) = Terms(u, x, q)
      BY <3>1, <3>2, <3>4
    <3>6. w[o] = b[q]
      BY <1>7, <2>2 DEF q
    <3> QED BY <1>4, <1>6, <3>1, <3>5, <3>6
  <2> QED BY <2>1, <2>2
<1>9. v = w
  BY <1>4, <1>7, <1>8, SameSeq
<1> QED BY <1>9 DEF v, w, a, b, y

\* An upsampling stage continues where it stopped.
LEMMA UpsampleContinues ==
  ASSUME NEW u, IsTrans(u), IsConv(u.conv), u.k = u.s, NEW s, IsSeq(s), NEW x, IsSeq(x),
         NEW buffer, Remembers(u.conv, TransForward(u, s), buffer)
  PROVE  LET made == UpsampleStep(u, x, buffer) IN
         /\ IsSeq(UpsampleForward(u, s)) /\ Len(UpsampleForward(u, s)) = Len(s) * u.s
         /\ IsSeq(made.out)
         /\ UpsampleForward(u, s \o x) = UpsampleForward(u, s) \o made.out
         /\ Remembers(u.conv, TransForward(u, s \o x), made.keeps)
<1> DEFINE a == TransForward(u, s)
           b == TransForward(u, x)
           y == TransForward(u, s \o x)
           made == ConvNeXtStep(u.conv, b, buffer)
<1>1. IsSeq(a) /\ Len(a) = Len(s) * u.s /\ IsSeq(b)
  BY TransIs
<1>2. y = a \o b
  BY TransGrows
<1>3. UpsampleStep(u, x, buffer) = made
  BY DEF UpsampleStep
<1>4. UpsampleForward(u, s) = ConvNeXtForward(u.conv, a)
      /\ UpsampleForward(u, s \o x) = ConvNeXtForward(u.conv, y)
  BY DEF UpsampleForward
<1>5. Remembers(u.conv, a, buffer)
  OBVIOUS
<1> HIDE DEF a, b, y
<1>6. /\ IsSeq(ConvNeXtForward(u.conv, a)) /\ Len(ConvNeXtForward(u.conv, a)) = Len(a)
      /\ IsSeq(made.out)
      /\ ConvNeXtForward(u.conv, a \o b) = ConvNeXtForward(u.conv, a) \o made.out
      /\ Remembers(u.conv, a \o b, made.keeps)
  <2> DEFINE c == u.conv
             t == ConvNeXtStep(c, b, buffer)
  <2>1. IsConv(c) /\ IsSeq(a) /\ IsSeq(b) /\ Remembers(c, a, buffer)
    BY <1>1, <1>5
  <2> HIDE DEF c
  <2>2. /\ IsSeq(ConvNeXtForward(c, a)) /\ Len(ConvNeXtForward(c, a)) = Len(a)
        /\ IsSeq(t.out)
        /\ ConvNeXtForward(c, a \o b) = ConvNeXtForward(c, a) \o t.out
        /\ Remembers(c, a \o b, t.keeps)
    BY ONLY <2>1, ConvNeXtContinues
  <2> QED BY <2>2 DEF c
<1> HIDE DEF made
<1> QED BY <1>1, <1>2, <1>3, <1>4, <1>6 DEF y

\* The transformer's keys are rotated from where its cache ends.
LEMMA KeysAre ==
  ASSUME NEW x, IsSeq(x), NEW offset \in Nat
  PROVE  IsSeq(Keys(x, offset)) /\ Len(Keys(x, offset)) = Len(x)
         /\ Keys(x, offset) = Rotated(x, offset)
<1> DEFINE v == Keys(x, offset)
           w == Rotated(x, offset)
<1>1. Len(x) \in Nat
  BY SeqIsTable
<1>2. v = [i \in 1..Len(x) |-> v[i]] /\ \A i \in 1..Len(x) : v[i] = [of |-> x[i], at |-> offset + i]
  BY DEF Keys
<1>3. IsSeq(w) /\ Len(w) = Len(x) /\ \A i \in 1..Len(x) : w[i] = [of |-> x[i], at |-> offset + i]
  BY RotatedIsKeyed
<1> HIDE DEF v, w
<1>4. IsSeq(v) /\ Len(v) = Len(x)
  BY <1>1, <1>2, TableIsSeq
<1>5. v = w
  BY <1>2, <1>3, <1>4, SameSeq
<1> QED BY <1>4, <1>5 DEF v, w

\* The transformer continues where it stopped, and its cache holds all of it.
LEMMA TransformerContinues ==
  ASSUME NEW s, IsSeq(s), NEW x, IsSeq(x), NEW cache, Holds(cache, s)
  PROVE  LET made == TransformerStep(x, cache) IN
         /\ IsSeq(TransformerForward(s)) /\ Len(TransformerForward(s)) = Len(s)
         /\ IsSeq(made.out)
         /\ TransformerForward(s \o x) = TransformerForward(s) \o made.out
         /\ Holds(made.keeps, s \o x)
<1> DEFINE m == Len(s)
           n == Len(x)
           y == s \o x
           pass == Forward(cache, x)
           a == Attend(Keyed(s), Len(s))
           b == pass.out
           c == Attend(Keyed(y), Len(y))
           made == TransformerStep(x, cache)
<1>1. m \in Nat /\ n \in Nat
  BY SeqIsTable
<1>2. IsSeq(y) /\ Len(y) = m + n /\ \A i \in 1..m : y[i] = s[i]
  BY Concat
<1>3. cache.offset = m
  BY DEF Holds
<1>4. Keys(x, cache.offset) = Rotated(x, cache.offset) /\ Len(Keys(x, cache.offset)) = n
  BY <1>1, <1>3, KeysAre
<1>5. made.out = Plus(x, b) /\ made.keeps = pass.cache
  BY <1>4 DEF TransformerStep, LayerWithCache, AttentionWithCache, Forward
<1>6. \A z : IsSeq(z) => TransformerForward(z) = Plus(z, Attend(Keyed(z), Len(z)))
  <2> SUFFICES ASSUME NEW z, IsSeq(z)
               PROVE  TransformerForward(z) = Plus(z, Attend(Keyed(z), Len(z)))
    OBVIOUS
  <2>1. Len(z) \in Nat
    BY SeqIsTable
  <2>2. Keys(z, 0) = Keyed(z) /\ Len(Keys(z, 0)) = Len(z)
    <3>1. \A i \in 1..Len(z) : 0 + i = i
      BY <2>1
    <3>2. Keys(z, 0) = Keyed(z)
      BY <3>1 DEF Keys, Keyed
    <3> QED BY <3>2, KeysAre
  <2> QED BY <2>2 DEF TransformerForward, LayerForward, AttentionForward
<1>7. /\ Holds(pass.cache, y) /\ IsSeq(b) /\ Len(b) = n
      /\ \A r \in 1..n : b[r] = Everything(SubSeq(y, 1, m + r))
  BY ForwardSees
<1> HIDE DEF y, pass, b, made
<1>8. /\ IsSeq(a) /\ Len(a) = m
      /\ \A r \in 1..m : a[r] = Everything(SubSeq(s, 1, (m - m) + r))
  <2> HIDE DEF m
  <2>1. m \in Nat /\ m <= Len(s) /\ Len(s) = m
    BY <1>1 DEF m
  <2>2. /\ IsSeq(Attend(Keyed(s), m)) /\ Len(Attend(Keyed(s), m)) = m
        /\ \A r \in 1..m : Attend(Keyed(s), m)[r] = Everything(SubSeq(s, 1, (Len(s) - m) + r))
    BY <2>1, AttendsToAll
  <2> QED BY <2>1, <2>2
<1>9. /\ IsSeq(c) /\ Len(c) = m + n
      /\ \A r \in 1..m + n : c[r] = Everything(SubSeq(y, 1, ((m + n) - (m + n)) + r))
  <2> DEFINE k == m + n
  <2>1. k \in Nat /\ k <= Len(y) /\ Len(y) = k
    BY <1>1, <1>2
  <2> HIDE DEF k
  <2>2. /\ IsSeq(Attend(Keyed(y), k)) /\ Len(Attend(Keyed(y), k)) = k
        /\ \A r \in 1..k : Attend(Keyed(y), k)[r] = Everything(SubSeq(y, 1, (Len(y) - k) + r))
    BY <1>2, <2>1, AttendsToAll
  <2> QED BY <2>1, <2>2 DEF k
<1> HIDE DEF a, c, m, n
<1>10. ASSUME NEW r \in 1..m PROVE c[r] = a[r]
  <2>1. r \in 1..m + n /\ ((m + n) - (m + n)) + r = r /\ (m - m) + r = r /\ r \in Nat
    BY <1>1
  <2>2. SubSeq(y, 1, r) = SubSeq(s, 1, r)
    <3> DEFINE v == SubSeq(y, 1, r)
               w == SubSeq(s, 1, r)
    <3>1. /\ IsSeq(y) /\ IsSeq(s) /\ r \in Nat /\ r <= Len(s) /\ r <= Len(y)
          /\ \A i \in 1..r : i \in 1..m
      BY <1>1, <1>2 DEF m
    <3>2. IsSeq(v) /\ Len(v) = r /\ \A i \in 1..r : v[i] = y[i]
      BY ONLY <3>1, PrefixIs DEF v
    <3>3. IsSeq(w) /\ Len(w) = r /\ \A i \in 1..r : w[i] = s[i]
      BY ONLY <3>1, PrefixIs DEF w
    <3> HIDE DEF v, w
    <3>4. \A i \in 1..r : v[i] = w[i]
      BY <1>2, <3>1, <3>2, <3>3
    <3>5. v = w
      BY <3>2, <3>3, <3>4, SameSeq
    <3> QED BY <3>5 DEF v, w
  <2>3. c[r] = Everything(SubSeq(y, 1, r)) /\ a[r] = Everything(SubSeq(s, 1, r))
    BY <1>8, <1>9, <2>1
  <2> QED BY ONLY <2>2, <2>3
<1>11. ASSUME NEW r \in 1..n PROVE c[m + r] = b[r]
  <2>1. m + r \in 1..m + n /\ ((m + n) - (m + n)) + (m + r) = m + r
    BY <1>1
  <2> QED BY <1>7, <1>9, <2>1
<1>12. c = a \o b
  <2> DEFINE w == a \o b
  <2>1. /\ IsSeq(w) /\ Len(w) = m + n
        /\ \A i \in 1..m + n : w[i] = IF i <= m THEN a[i] ELSE b[i - m]
    <3>1. IsSeq(a) /\ IsSeq(b)
      BY <1>7, <1>8
    <3>2. /\ IsSeq(w) /\ Len(w) = Len(a) + Len(b)
          /\ \A i \in 1..Len(a) + Len(b) : w[i] = IF i <= Len(a) THEN a[i] ELSE b[i - Len(a)]
      BY ONLY <3>1, Concat
    <3> QED BY <1>7, <1>8, <3>2
  <2> HIDE DEF w
  <2>2. ASSUME NEW i \in 1..m + n PROVE c[i] = w[i]
    <3>1. CASE i <= m
      <4>1. i \in 1..m
        BY <1>1, <3>1
      <4> QED BY <1>10, <2>1, <3>1, <4>1
    <3>2. CASE ~(i <= m)
      <4>1. i - m \in 1..n /\ m + (i - m) = i
        BY <1>1, <3>2
      <4>2. c[m + (i - m)] = b[i - m]
        BY <1>11, <4>1
      <4> QED BY <2>1, <3>2, <4>1, <4>2
    <3> QED BY <3>1, <3>2
  <2>3. c = w
    BY <1>9, <2>1, <2>2, SameSeq
  <2> QED BY <2>3 DEF w
<1>13. TransformerForward(y) = Plus(y, c) /\ TransformerForward(s) = Plus(s, a)
  BY <1>2, <1>6 DEF c, a
<1>14. Plus(y, a \o b) = Plus(s, a) \o Plus(x, b)
  <2>1. IsSeq(s) /\ IsSeq(a) /\ Len(s) = Len(a) /\ IsSeq(x) /\ IsSeq(b) /\ Len(x) = Len(b)
    BY <1>7, <1>8 DEF m, n
  <2>2. Plus(s \o x, a \o b) = Plus(s, a) \o Plus(x, b)
    BY ONLY <2>1, PlusGrows
  <2> QED BY <2>2 DEF y
<1>15. IsSeq(Plus(s, a)) /\ Len(Plus(s, a)) = m /\ IsSeq(Plus(x, b))
  BY PlusIs DEF m
<1> QED BY <1>5, <1>7, <1>12, <1>13, <1>14, <1>15 DEF y, m, made
-----------------------------------------------------------------------------
(***************************************************************************)
(* The vocoder: what it remembers, and what was heard.                     *)
(***************************************************************************)
\* What is behind the first n places,
LEMMA FromIs ==
  ASSUME NEW s, IsSeq(s), NEW n \in Nat, n <= Len(s)
  PROVE  /\ IsSeq(From(n, s)) /\ Len(From(n, s)) = Len(s) - n
         /\ \A i \in 1..Len(s) - n : From(n, s)[i] = s[n + i]
<1> DEFINE b == Len(s)
           t == SubSeq(s, n + 1, b)
<1>1. /\ b \in Int /\ b \in Nat /\ n + 1 \in Nat /\ n + 1 >= 1 /\ b >= (n + 1) - 1 /\ b <= Len(s)
      /\ b - (n + 1) + 1 = b - n /\ \A i \in 1..b - n : (n + 1) + i - 1 = n + i
  BY SeqIsTable
<1> HIDE DEF b
<1>2. /\ IsSeq(t) /\ Len(t) = b - (n + 1) + 1
      /\ \A i \in 1..(b - (n + 1) + 1) : t[i] = s[(n + 1) + i - 1]
  BY <1>1, Sub
<1> HIDE DEF t
<1>3. IsSeq(t) /\ Len(t) = b - n /\ \A i \in 1..b - n : t[i] = s[n + i]
  BY <1>1, <1>2
<1> QED BY <1>3 DEF From, b, t

\* behind all of them,
LEMMA FromEnd == ASSUME NEW s, IsSeq(s) PROVE From(Len(s), s) = <<>>
<1> DEFINE n == Len(s)
           t == From(n, s)
<1>1. n \in Nat /\ n <= Len(s) /\ Len(s) - n = 0
  BY SeqIsTable
<1> HIDE DEF n
<1>2. IsSeq(t) /\ Len(t) = 0
  <2>1. IsSeq(t) /\ Len(t) = Len(s) - n
    BY <1>1, FromIs
  <2> QED BY <1>1, <2>1
<1> HIDE DEF t
<1>3. t = <<>>
  <2>1. \A i \in 1..Len(t) : t[i] = <<>>[i]
    BY <1>2
  <2> QED BY <1>2, <2>1, EmptyIsSeq, SameSeq
<1> QED BY <1>3 DEF t, n

\* behind none,
LEMMA FromStart == ASSUME NEW s, IsSeq(s) PROVE From(0, s) = s
<1>1. s \in Seq(Own(s)) /\ 0 + 1 = 1
  BY DEF IsSeq
<1> QED BY <1>1, SubSeqFull DEF From

\* and of something that grows.
LEMMA FromGrows ==
  ASSUME NEW a, IsSeq(a), NEW b, IsSeq(b), NEW n \in Nat, n <= Len(a)
  PROVE  From(n, a \o b) = From(n, a) \o b
<1> DEFINE c == a \o b
           k == Len(a)
           m == Len(b)
           u == From(n, c)
           v == From(n, a)
           w == v \o b
<1>1. k \in Nat /\ m \in Nat
  BY SeqIsTable
<1>2. IsSeq(c) /\ Len(c) = k + m /\ \A i \in 1..k + m : c[i] = IF i <= k THEN a[i] ELSE b[i - k]
  BY Concat
<1> HIDE DEF c, k, m
<1>3. n <= Len(c) /\ n <= k /\ Len(c) - n = (k - n) + m
  BY <1>1, <1>2 DEF k
<1>4. IsSeq(u) /\ Len(u) = (k - n) + m /\ \A i \in 1..(k - n) + m : u[i] = c[n + i]
  <2>1. IsSeq(u) /\ Len(u) = Len(c) - n /\ \A i \in 1..Len(c) - n : u[i] = c[n + i]
    BY <1>2, <1>3, FromIs
  <2> QED BY <1>3, <2>1
<1>5. IsSeq(v) /\ Len(v) = k - n /\ \A i \in 1..k - n : v[i] = a[n + i]
  BY FromIs DEF k
<1> HIDE DEF u, v
<1>6. /\ IsSeq(w) /\ Len(w) = (k - n) + m
      /\ \A i \in 1..(k - n) + m : w[i] = IF i <= k - n THEN v[i] ELSE b[i - (k - n)]
  <2>1. IsSeq(v) /\ IsSeq(b)
    BY <1>5
  <2>2. /\ IsSeq(w) /\ Len(w) = Len(v) + Len(b)
        /\ \A i \in 1..Len(v) + Len(b) : w[i] = IF i <= Len(v) THEN v[i] ELSE b[i - Len(v)]
    BY ONLY <2>1, Concat
  <2> QED BY <1>5, <2>2 DEF m
<1> HIDE DEF w
<1>7. ASSUME NEW i \in 1..(k - n) + m PROVE u[i] = w[i]
  <2>1. n + i \in 1..k + m /\ u[i] = c[n + i]
    BY <1>1, <1>3, <1>4
  <2>2. CASE i <= k - n
    <3>1. n + i <= k /\ i \in 1..k - n
      BY <1>1, <2>2
    <3> QED BY <1>2, <1>5, <1>6, <2>1, <2>2, <3>1
  <2>3. CASE ~(i <= k - n)
    <3>1. ~(n + i <= k) /\ (n + i) - k = i - (k - n)
      BY <1>1, <2>3
    <3> QED BY <1>2, <1>6, <2>1, <2>3, <3>1
  <2> QED BY <2>2, <2>3
<1>8. u = w
  BY <1>4, <1>6, <1>7, SameSeq
<1> QED BY <1>8 DEF u, w, v, c

\* What the vocoder keeps behind the frames s, the batches of which began at B.
RemembersAll(v, s, B) ==
  /\ \A c \in Convs : Remembers(c, s, v.convs[c])
  /\ \A u \in Upsamples : Remembers(u.conv, TransForward(u, s), v.upsamples[u])
  /\ \A u \in Blocks : RemembersBlock(u, s, B, v.blocks[u])
  /\ Holds(v.transformer, s)

\* What was heard of them, the first w left out.
AudioIs(a, s, B, w) ==
  /\ \A c \in Convs : a.convs[c] = From(w, ConvForward(c, s))
  /\ \A u \in Blocks : a.blocks[u] = From(w * u.s, BlockOf(u, s, B))
  /\ \A u \in Upsamples : a.upsamples[u] = From(w * u.s, UpsampleForward(u, s))
  /\ a.transformer = From(w, TransformerForward(s))

\* The layers have the shapes that the lemmas ask for.
LEMMA Shapes ==
  /\ \A c \in Convs : IsConv(c)
  /\ \A u \in Blocks \cup Upsamples : IsTrans(u) /\ IsConv(u.conv)
  /\ \A u \in Upsamples : u.k = u.s
BY VocoderAssumption, UpsampleAssumption DEF IsConv, IsTrans

\* More frames make more samples.
LEMMA Times ==
  ASSUME NEW a \in Nat, NEW b \in Nat, a <= b, NEW c \in Nat
  PROVE  a * c \in Nat /\ a * c <= b * c
<1> DEFINE x == a * c
           y == b * c
           z == (b - a) * c
<1>1. x \in Nat /\ y \in Nat /\ z \in Nat
  <2>1. b - a \in Nat
    OBVIOUS
  <2> QED BY <2>1
<1>2. y = x + z
  OBVIOUS
<1> HIDE DEF x, y, z
<1>3. x \in Nat /\ x <= y
  BY <1>1, <1>2
<1> QED BY <1>3 DEF x, y

\* A batch leaves every layer with what the next one needs,
LEMMA DecodeRemembers ==
  ASSUME NEW s, IsSeq(s), NEW x, IsSeq(x), Len(x) # 0, NEW B \in SUBSET (0..Len(s) - 1),
         NEW v, RemembersAll(v, s, B)
  PROVE  /\ RemembersAll(Remembering(v, x), s \o x, B \cup {Len(s)})
         /\ v.transformer.offset = Len(s)
<1> DEFINE r == Remembering(v, x)
           y == s \o x
           D == B \cup {Len(s)}
<1>1. ASSUME NEW c \in Convs PROVE Remembers(c, y, r.convs[c])
  <2>1. r.convs[c] = ConvStep(c, x, v.convs[c]).keeps
    BY DEF Remembering, Streamed
  <2>2. IsConv(c) /\ Remembers(c, s, v.convs[c])
    BY Shapes DEF RemembersAll
  <2> HIDE DEF r
  <2> QED BY <2>1, <2>2, ConvContinues
<1>2. ASSUME NEW u \in Upsamples PROVE Remembers(u.conv, TransForward(u, y), r.upsamples[u])
  <2>1. r.upsamples[u] = UpsampleStep(u, x, v.upsamples[u]).keeps
    BY DEF Remembering, Streamed
  <2>2. IsTrans(u) /\ IsConv(u.conv) /\ u.k = u.s
        /\ Remembers(u.conv, TransForward(u, s), v.upsamples[u])
    BY Shapes DEF RemembersAll
  <2> HIDE DEF r
  <2> QED BY <2>1, <2>2, UpsampleContinues
<1>3. ASSUME NEW u \in Blocks PROVE RemembersBlock(u, y, D, r.blocks[u])
  <2>1. r.blocks[u] = BlockStep(u, x, v.blocks[u]).keeps
    BY DEF Remembering, Streamed
  <2>2. IsTrans(u) /\ IsConv(u.conv) /\ RemembersBlock(u, s, B, v.blocks[u])
    BY Shapes DEF RemembersAll
  <2> DEFINE t == v.blocks[u]
  <2>3. /\ IsTrans(u) /\ IsConv(u.conv) /\ IsSeq(s) /\ IsSeq(x) /\ Len(x) # 0
        /\ B \in SUBSET (0..Len(s) - 1) /\ RemembersBlock(u, s, B, t)
    BY <2>2
  <2> HIDE DEF r, t
  <2>4. RemembersBlock(u, s \o x, B \cup {Len(s)}, BlockStep(u, x, t).keeps)
    BY ONLY <2>3, BlockContinues
  <2> QED BY <2>1, <2>4 DEF t
<1>4. Holds(r.transformer, y)
  <2>1. r.transformer = TransformerStep(x, v.transformer).keeps
    BY DEF Remembering, Streamed
  <2>2. Holds(v.transformer, s)
    BY DEF RemembersAll
  <2> HIDE DEF r
  <2> QED BY <2>1, <2>2, TransformerContinues
<1>5. v.transformer.offset = Len(s)
  BY DEF RemembersAll, Holds
<1> HIDE DEF r, y, D
<1>6. RemembersAll(r, y, D)
  BY <1>1, <1>2, <1>3, <1>4 DEF RemembersAll
<1> QED BY <1>5, <1>6 DEF r, y, D

\* and what was heard is that of everything, up to the carried bias.
LEMMA DecodeIsHeard ==
  ASSUME NEW s, IsSeq(s), NEW x, IsSeq(x), Len(x) # 0, NEW B \in SUBSET (0..Len(s) - 1),
         NEW v, RemembersAll(v, s, B), NEW w \in Nat, w <= Len(s), NEW a, AudioIs(a, s, B, w)
  PROVE  AudioIs(Joined(a, Streamed(v, x)), s \o x, B \cup {Len(s)}, w)
<1> DEFINE r == Joined(a, Streamed(v, x))
           y == s \o x
           D == B \cup {Len(s)}
<1>1. ASSUME NEW c \in Convs PROVE r.convs[c] = From(w, ConvForward(c, y))
  <2> DEFINE f == ConvForward(c, s)
             o == ConvStep(c, x, v.convs[c]).out
  <2>1. r.convs[c] = a.convs[c] \o o
    BY DEF Joined, Streamed
  <2>2. IsConv(c) /\ Remembers(c, s, v.convs[c]) /\ a.convs[c] = From(w, f)
    BY Shapes DEF RemembersAll, AudioIs
  <2>3. IsSeq(f) /\ Len(f) = Len(s) /\ IsSeq(o) /\ ConvForward(c, y) = f \o o
    BY <2>2, ConvContinues
  <2> HIDE DEF r, f, o
  <2>4. From(w, f \o o) = From(w, f) \o o
    BY <2>3, FromGrows
  <2> QED BY <2>1, <2>2, <2>3, <2>4
<1>2. ASSUME NEW u \in Upsamples PROVE r.upsamples[u] = From(w * u.s, UpsampleForward(u, y))
  <2> DEFINE f == UpsampleForward(u, s)
             o == UpsampleStep(u, x, v.upsamples[u]).out
  <2>1. r.upsamples[u] = a.upsamples[u] \o o
    BY DEF Joined, Streamed
  <2>2. /\ IsTrans(u) /\ IsConv(u.conv) /\ u.k = u.s
        /\ Remembers(u.conv, TransForward(u, s), v.upsamples[u])
        /\ a.upsamples[u] = From(w * u.s, f)
    BY Shapes DEF RemembersAll, AudioIs
  <2>3. IsSeq(f) /\ Len(f) = Len(s) * u.s /\ IsSeq(o) /\ UpsampleForward(u, y) = f \o o
    BY <2>2, UpsampleContinues
  <2>4. w * u.s \in Nat /\ w * u.s <= Len(s) * u.s
    BY <2>2, SeqIsTable, Times DEF IsTrans
  <2> HIDE DEF r, f, o
  <2>5. From(w * u.s, f \o o) = From(w * u.s, f) \o o
    BY <2>3, <2>4, FromGrows
  <2> QED BY <2>1, <2>2, <2>3, <2>5
<1>3. ASSUME NEW u \in Blocks
      PROVE  r.blocks[u] = From(w * u.s, BlockOf(u, y, D))
  <2> DEFINE f == BlockOf(u, s, B)
             o == BlockStep(u, x, v.blocks[u]).out
  <2>1. r.blocks[u] = a.blocks[u] \o o
    BY DEF Joined, Streamed
  <2>2. /\ IsTrans(u) /\ IsConv(u.conv) /\ RemembersBlock(u, s, B, v.blocks[u])
        /\ a.blocks[u] = From(w * u.s, f)
    BY Shapes DEF RemembersAll, AudioIs
  <2>3. IsSeq(f) /\ Len(f) = Len(s) * u.s /\ IsSeq(o) /\ BlockOf(u, y, D) = f \o o
    <3> DEFINE t == v.blocks[u]
    <3>1. /\ IsTrans(u) /\ IsConv(u.conv) /\ IsSeq(s) /\ IsSeq(x) /\ Len(x) # 0
          /\ B \in SUBSET (0..Len(s) - 1) /\ RemembersBlock(u, s, B, t)
      BY <2>2
    <3> HIDE DEF r, t
    <3>2. /\ IsSeq(BlockOf(u, s, B))
          /\ Len(BlockOf(u, s, B)) = Len(s) * u.s
      BY ONLY <3>1, BlockContinues
    <3>3. IsSeq(BlockStep(u, x, t).out)
      BY ONLY <3>1, BlockContinues
    <3>4. BlockOf(u, s \o x, B \cup {Len(s)})
            = BlockOf(u, s, B) \o BlockStep(u, x, t).out
      BY ONLY <3>1, BlockContinues
    <3> QED BY <3>2, <3>3, <3>4 DEF t
  <2>4. w * u.s \in Nat /\ w * u.s <= Len(s) * u.s
    BY <2>2, SeqIsTable, Times DEF IsTrans
  <2> HIDE DEF r, f, o
  <2>5. From(w * u.s, f \o o) = From(w * u.s, f) \o o
    BY <2>3, <2>4, FromGrows
  <2> QED BY <2>1, <2>2, <2>3, <2>5
<1>4. r.transformer = From(w, TransformerForward(y))
  <2> DEFINE f == TransformerForward(s)
             o == TransformerStep(x, v.transformer).out
  <2>1. r.transformer = a.transformer \o o
    BY DEF Joined, Streamed
  <2>2. Holds(v.transformer, s) /\ a.transformer = From(w, f)
    BY DEF RemembersAll, AudioIs
  <2>3. IsSeq(f) /\ Len(f) = Len(s) /\ IsSeq(o) /\ TransformerForward(y) = f \o o
    BY <2>2, TransformerContinues
  <2> HIDE DEF r, f, o
  <2>4. From(w, f \o o) = From(w, f) \o o
    BY <2>3, FromGrows
  <2> QED BY <2>1, <2>2, <2>3, <2>4
<1> HIDE DEF r, y, D
<1>5. AudioIs(r, y, D, w)
  BY <1>1, <1>2, <1>3, <1>4 DEF AudioIs
<1> QED BY <1>5 DEF r, y, D
-----------------------------------------------------------------------------
(***************************************************************************)
(* The generation loop and the vocoder.                                    *)
(***************************************************************************)
\* The frames that went through the vocoder, those of the reference first.
Seen == UpToNumber(Call.warm + Len(decoded))

\* Whoever decodes everything at once has decoded nothing before.
AtOnceInv ==
  /\ req.chunk = NoChunks /\ borders = {} /\ pc # "chunk" /\ Len(pending) = step
  /\ pc \notin {"return", "returned"} => decoded = <<>>

VocInv ==
  /\ session \in [kind : Kinds, language : BOOLEAN]
  /\ AudioIs(audio, Seen, borders, Call.warm)
  /\ IF Call.atOnce THEN AtOnceInv
     ELSE RemembersAll(voc, Seen, borders) /\ borders \in SUBSET (0..Len(Seen) - 1)

\* What a caller asks for is known,
LEMMA CallIs ==
  ASSUME req \in Request, session \in [kind : Kinds, language : BOOLEAN]
  PROVE  Call.warm \in Nat /\ Call.atOnce \in BOOLEAN /\ (Call.atOnce => Call.warm = 0)
<1>1. session.kind \in Kinds
  OBVIOUS
<1>2. MinOf(WARM_FRAMES, RefFrames) \in Nat
  BY PipelineAssumption DEF MinOf
<1>3. Warm \in Nat
  BY <1>2 DEF Warm
<1> HIDE DEF Warm
<1> QED BY <1>1, <1>3 DEF Kinds, Call, Streams, AllAtOnce, GenerateWithParams, GenerateWithInstruct,
     GenerateWithXvector, GenerateWithIcl, GenerateWithIclTimed, TraceWithIcl,
     GenerateWithIclStreaming, GenerateWithIclSession, GenerateWithDesignSession

\* and does not change.
LEMMA CallStays ==
  ASSUME UNCHANGED <<session, req>>
  PROVE  Call' = Call
BY DEF Call, Streams, AllAtOnce, GenerateWithParams, GenerateWithInstruct,
     GenerateWithXvector, GenerateWithIcl, GenerateWithIclTimed, TraceWithIcl,
     GenerateWithIclStreaming, GenerateWithIclSession, GenerateWithDesignSession,
     Ids, Text, SpokenText, Description, RefIds, RefCodes, Warm

\* The frames up to a number.
LEMMA UpToNumberIs ==
  ASSUME NEW n \in Nat
  PROVE  IsSeq(UpToNumber(n)) /\ Len(UpToNumber(n)) = n /\ \A i \in 1..n : UpToNumber(n)[i] = i
<1> DEFINE t == UpToNumber(n)
<1>1. t = [i \in 1..n |-> t[i]] /\ \A i \in 1..n : t[i] = i
  BY DEF UpToNumber
<1> HIDE DEF t
<1>2. IsSeq(t) /\ Len(t) = n
  BY <1>1, TableIsSeq
<1> QED BY <1>1, <1>2 DEF t

\* A batch of frames, numbered behind the w frames of the reference.
Numbered(w, batch) == [i \in DOMAIN batch |-> w + batch[i]]
BatchOf(d, e) == SubSeq(UpTo(e), d + 1, e)

\* Its numbers continue those of the frames before it.
LEMMA BatchIs ==
  ASSUME NEW w \in Nat, NEW d \in Nat, NEW e \in Nat, d <= e
  PROVE  /\ IsSeq(BatchOf(d, e)) /\ Len(BatchOf(d, e)) = e - d
         /\ IsSeq(Numbered(w, BatchOf(d, e))) /\ Len(Numbered(w, BatchOf(d, e))) = e - d
         /\ UpToNumber(w + e) = UpToNumber(w + d) \o Numbered(w, BatchOf(d, e))
<1> DEFINE batch == BatchOf(d, e)
           x == Numbered(w, batch)
           t == UpTo(e)
<1>1. IsSeq(t) /\ Len(t) = e /\ \A i \in 1..e : t[i] = i
  <2>1. t = [i \in 1..e |-> t[i]] /\ \A i \in 1..e : t[i] = i
    BY DEF UpTo
  <2> HIDE DEF t
  <2> QED BY <2>1, TableIsSeq
<1> HIDE DEF t
<1>2. IsSeq(batch) /\ Len(batch) = e - d /\ \A i \in 1..e - d : batch[i] = d + i
  <2>1. /\ d + 1 \in Nat /\ e \in Int /\ d + 1 >= 1 /\ e >= (d + 1) - 1 /\ e <= Len(t)
        /\ e - (d + 1) + 1 = e - d
        /\ \A i \in 1..e - d : (d + 1) + i - 1 = d + i /\ d + i \in 1..e
    BY <1>1
  <2> DEFINE b == SubSeq(t, d + 1, e)
  <2>2. /\ IsSeq(b) /\ Len(b) = e - (d + 1) + 1
        /\ \A i \in 1..(e - (d + 1) + 1) : b[i] = t[(d + 1) + i - 1]
    BY <1>1, <2>1, Sub
  <2>3. batch = b
    BY DEF t, BatchOf
  <2> HIDE DEF b, batch
  <2>4. IsSeq(b) /\ Len(b) = e - d /\ \A i \in 1..e - d : b[i] = d + i
    BY <1>1, <2>1, <2>2
  <2> QED BY <2>3, <2>4
<1> HIDE DEF batch
<1>3. DOMAIN batch = 1..e - d /\ e - d \in Nat
  BY <1>2, SeqIsTable
<1>4. x = [i \in 1..e - d |-> x[i]] /\ \A i \in 1..e - d : x[i] = w + (d + i)
  BY <1>2, <1>3 DEF Numbered
<1> HIDE DEF x
<1>5. IsSeq(x) /\ Len(x) = e - d
  BY <1>3, <1>4, TableIsSeq
<1> DEFINE a == UpToNumber(w + d)
           y == UpToNumber(w + e)
           z == a \o x
<1>6. IsSeq(a) /\ Len(a) = w + d /\ \A i \in 1..w + d : a[i] = i
  <2>1. w + d \in Nat
    OBVIOUS
  <2> QED BY <2>1, UpToNumberIs
<1>7. IsSeq(y) /\ Len(y) = w + e /\ \A i \in 1..w + e : y[i] = i
  <2>1. w + e \in Nat
    OBVIOUS
  <2> QED BY <2>1, UpToNumberIs
<1> HIDE DEF a, y
<1>8. /\ IsSeq(z) /\ Len(z) = w + e
      /\ \A i \in 1..w + e : z[i] = IF i <= w + d THEN a[i] ELSE x[i - (w + d)]
  <2>1. IsSeq(a) /\ IsSeq(x)
    BY <1>5, <1>6
  <2>2. /\ IsSeq(z) /\ Len(z) = Len(a) + Len(x)
        /\ \A i \in 1..Len(a) + Len(x) : z[i] = IF i <= Len(a) THEN a[i] ELSE x[i - Len(a)]
    BY ONLY <2>1, Concat
  <2>3. Len(a) + Len(x) = w + e
    BY <1>5, <1>6
  <2> QED BY <1>6, <2>2, <2>3
<1> HIDE DEF z
<1>9. ASSUME NEW i \in 1..w + e PROVE y[i] = z[i]
  <2>1. CASE i <= w + d
    <3>1. i \in 1..w + d
      BY <2>1
    <3> QED BY <1>6, <1>7, <1>8, <2>1, <3>1
  <2>2. CASE ~(i <= w + d)
    <3>1. i - (w + d) \in 1..e - d /\ w + (d + (i - (w + d))) = i
      BY <2>2
    <3>2. x[i - (w + d)] = i
      BY <1>4, <3>1
    <3> QED BY <1>7, <1>8, <2>2, <3>2
  <2> QED BY <2>1, <2>2
<1>10. y = z
  BY <1>7, <1>8, <1>9, SameSeq
<1> QED BY <1>2, <1>5, <1>10 DEF x, y, z, a, batch
-----------------------------------------------------------------------------
(***************************************************************************)
(* Where the vocoder starts.                                               *)
(***************************************************************************)
\* No elements, no sequence but the empty one.
LEMMA NothingIs == ASSUME NEW s, IsSeq(s), Len(s) = 0 PROVE s = <<>>
<1>1. \A i \in 1..Len(s) : s[i] = <<>>[i]
  OBVIOUS
<1> QED BY <1>1, EmptyIsSeq, SameSeq

\* What each layer gives, from what it is given:
LEMMA ConvShape ==
  ASSUME NEW c, IsConv(c), NEW s, IsSeq(s)
  PROVE  IsSeq(ConvForward(c, s)) /\ Len(ConvForward(c, s)) = Len(s)
<1> DEFINE buffer == LastOf(Padding(c), Full(c, s))
<1>1. Remembers(c, s, buffer)
  BY DEF Remembers
<1> HIDE DEF buffer
<1> QED BY <1>1, EmptyIsSeq, ConvContinues

\* a residual unit,
LEMMA UnitShape ==
  ASSUME NEW c, IsConv(c), NEW s, IsSeq(s)
  PROVE  IsSeq(UnitForward(c, s)) /\ Len(UnitForward(c, s)) = Len(s)
BY PlusIs DEF UnitForward

\* a decoder block,
LEMMA BlockShape ==
  ASSUME NEW u, IsTrans(u), IsConv(u.conv), NEW s, IsSeq(s), NEW B
  PROVE  IsSeq(BlockOf(u, s, B)) /\ Len(BlockOf(u, s, B)) = Len(s) * u.s
<1> DEFINE a == Samples(u, s, B)
<1>1. IsSeq(a) /\ Len(a) = Len(s) * u.s
  BY SpreadIs
<1>2. BlockOf(u, s, B) = UnitForward(u.conv, a)
  BY DEF BlockOf
<1> HIDE DEF a
<1> QED BY <1>1, <1>2, UnitShape

\* an upsampling stage,
LEMMA UpsampleShape ==
  ASSUME NEW u, IsTrans(u), NEW s, IsSeq(s)
  PROVE  IsSeq(UpsampleForward(u, s)) /\ Len(UpsampleForward(u, s)) = Len(s) * u.s
<1> DEFINE a == TransForward(u, s)
<1>1. IsSeq(a) /\ Len(a) = Len(s) * u.s
  BY TransIs
<1>2. UpsampleForward(u, s) = Plus(a, ConvForward(u.conv, a))
  BY DEF UpsampleForward, ConvNeXtForward
<1> HIDE DEF a
<1> QED BY <1>1, <1>2, PlusIs

\* the transformer.
LEMMA TransformerShape ==
  ASSUME NEW s, IsSeq(s)
  PROVE  IsSeq(TransformerForward(s)) /\ Len(TransformerForward(s)) = Len(s)
BY PlusIs DEF TransformerForward, LayerForward

\* A fresh state remembers nothing.
LEMMA FreshRemembers == RemembersAll(Fresh, <<>>, {})
<1>1. ASSUME NEW c \in Convs PROVE Remembers(c, <<>>, Fresh.convs[c])
  BY DEF Fresh, Remembers
<1>2. \A u : IsTrans(u) => TransForward(u, <<>>) = <<>> /\ Samples(u, <<>>, {}) = <<>>
  <2> SUFFICES ASSUME NEW u, IsTrans(u)
               PROVE  TransForward(u, <<>>) = <<>> /\ Samples(u, <<>>, {}) = <<>>
    OBVIOUS
  <2> DEFINE e == <<>>
             t == TransForward(u, e)
  <2>1. IsSeq(e) /\ Len(e) = 0
    BY EmptyIsSeq
  <2>2. Len(e) * u.s = 0
    BY <2>1 DEF IsTrans
  <2>3. IsSeq(t) /\ Len(t) = Len(e) * u.s
    BY <2>1, TransIs
  <2>4. Samples(u, e, {}) = t
    BY <2>1, SamplesAtOnce
  <2> HIDE DEF t, e
  <2>5. t = <<>>
    BY <2>2, <2>3, NothingIs
  <2> QED BY <2>4, <2>5 DEF t, e
<1>3. ASSUME NEW u \in Upsamples PROVE Remembers(u.conv, TransForward(u, <<>>), Fresh.upsamples[u])
  <2>1. TransForward(u, <<>>) = <<>> /\ Fresh.upsamples[u] = <<>>
    BY <1>2, Shapes DEF Fresh
  <2> QED BY <2>1 DEF Remembers
<1>4. ASSUME NEW u \in Blocks PROVE RemembersBlock(u, <<>>, {}, Fresh.blocks[u])
  <2> DEFINE b == Fresh.blocks[u]
             c == u.conv
  <2>1. b.overflow = <<>> /\ b.unit[1] = <<>> /\ b.unit[2] = <<>>
    BY DEF Fresh
  <2>2. IsTrans(u) /\ IsConv(c) /\ Samples(u, <<>>, {}) = <<>>
    BY <1>2, Shapes
  <2> HIDE DEF b, c
  <2>3. ConvForward(c, <<>>) = <<>>
    <3> DEFINE f == ConvForward(c, <<>>)
    <3>1. IsSeq(f) /\ Len(f) = 0
      BY <2>2, EmptyIsSeq, ConvShape
    <3> HIDE DEF f
    <3>2. f = <<>>
      BY <3>1, NothingIs
    <3> QED BY <3>2 DEF f
  <2>4. RemembersUnit(c, <<>>, b.unit)
    BY <2>1, <2>3 DEF RemembersUnit, Remembers
  <2>5. Overlap(u, <<>>, {}, b.overflow)
    BY <2>1, EmptyIsSeq DEF Overlap
  <2> QED BY <2>2, <2>4, <2>5 DEF RemembersBlock, b, c
<1>5. Holds(Fresh.transformer, <<>>)
  BY NothingHeld DEF Fresh
<1> QED BY <1>1, <1>3, <1>4, <1>5 DEF RemembersAll

\* Where nothing was decoded before there is no border.
LEMMA FirstIsNoBorder ==
  ASSUME NEW v, NEW s, RemembersAll(v, s, {0})
  PROVE  RemembersAll(v, s, {})
<1>1. \A u, o : Crossed(u, {0}, o) = Crossed(u, {}, o)
  BY DEF Crossed
<1>2. \A u : Spread(u, s, {0}) = Spread(u, s, {})
  BY <1>1 DEF Spread
<1>3. \A u : Samples(u, s, {0}) = Samples(u, s, {})
  BY <1>2 DEF Samples
<1>4. \A u, b : Overlap(u, s, {0}, b) <=> Overlap(u, s, {}, b)
  BY <1>2 DEF Overlap
<1>5. \A u, b : RemembersBlock(u, s, {0}, b) <=> RemembersBlock(u, s, {}, b)
  BY <1>3, <1>4 DEF RemembersBlock
<1> QED BY <1>5 DEF RemembersAll

\* The reference, decoded before, leaves its memory and no border.
LEMMA WarmRemembers ==
  ASSUME NEW x, IsSeq(x), Len(x) # 0
  PROVE  RemembersAll(Remembering(Fresh, x), x, {})
<1> DEFINE e == <<>>
           v == Fresh
           B == {}
<1>1. IsSeq(e) /\ IsSeq(x) /\ Len(x) # 0 /\ RemembersAll(v, e, B) /\ Len(e) = 0
  BY FreshRemembers, EmptyIsSeq
<1>2. B \in SUBSET (0..Len(e) - 1)
  OBVIOUS
<1>3. B \cup {Len(e)} = {0}
  BY <1>1
<1>4. e \o x = x
  BY ConcatEmptySeq DEF IsSeq
<1> HIDE DEF e, v, B
<1>5. RemembersAll(Remembering(v, x), e \o x, B \cup {Len(e)})
  BY ONLY <1>1, <1>2, DecodeRemembers
<1>6. RemembersAll(Remembering(v, x), x, {0})
  BY ONLY <1>3, <1>4, <1>5
<1> QED BY <1>6, FirstIsNoBorder DEF v

\* Of what the vocoder has seen before a synthesis nothing is heard.
LEMMA SilenceIs ==
  ASSUME NEW s, IsSeq(s)
  PROVE  AudioIs(Silent, s, {}, Len(s))
<1>1. ASSUME NEW c \in Convs PROVE Silent.convs[c] = From(Len(s), ConvForward(c, s))
  <2>1. Silent.convs[c] = <<>>
    BY DEF Silent
  <2> DEFINE f == ConvForward(c, s)
  <2>2. IsSeq(f) /\ Len(f) = Len(s)
    BY Shapes, ConvShape
  <2> HIDE DEF f
  <2>3. From(Len(f), f) = <<>>
    BY <2>2, FromEnd
  <2> QED BY <2>1, <2>2, <2>3 DEF f
<1>2. ASSUME NEW u \in Blocks PROVE Silent.blocks[u] = From(Len(s) * u.s, BlockOf(u, s, {}))
  <2>1. Silent.blocks[u] = <<>>
    BY DEF Silent
  <2> DEFINE f == BlockOf(u, s, {})
  <2>2. IsSeq(f) /\ Len(f) = Len(s) * u.s
    BY Shapes, BlockShape
  <2> HIDE DEF f
  <2>3. From(Len(f), f) = <<>>
    BY <2>2, FromEnd
  <2> QED BY <2>1, <2>2, <2>3 DEF f
<1>3. ASSUME NEW u \in Upsamples
      PROVE  Silent.upsamples[u] = From(Len(s) * u.s, UpsampleForward(u, s))
  <2>1. Silent.upsamples[u] = <<>>
    BY DEF Silent
  <2> DEFINE f == UpsampleForward(u, s)
  <2>2. IsSeq(f) /\ Len(f) = Len(s) * u.s
    BY Shapes, UpsampleShape
  <2> HIDE DEF f
  <2>3. From(Len(f), f) = <<>>
    BY <2>2, FromEnd
  <2> QED BY <2>1, <2>2, <2>3 DEF f
<1>4. Silent.transformer = From(Len(s), TransformerForward(s))
  <2>1. Silent.transformer = <<>>
    BY DEF Silent
  <2> DEFINE f == TransformerForward(s)
  <2>2. IsSeq(f) /\ Len(f) = Len(s)
    BY TransformerShape
  <2> HIDE DEF f
  <2>3. From(Len(f), f) = <<>>
    BY <2>2, FromEnd
  <2> QED BY <2>1, <2>2, <2>3 DEF f
<1> QED BY <1>1, <1>2, <1>3, <1>4 DEF AudioIs

\* One decoding of everything is what was heard, without a border.
LEMMA WholeIsHeard ==
  ASSUME NEW x, IsSeq(x)
  PROVE  AudioIs(Whole(x), x, {}, 0)
<1>1. ASSUME NEW c \in Convs PROVE Whole(x).convs[c] = From(0, ConvForward(c, x))
  <2>1. Whole(x).convs[c] = ConvForward(c, x)
    BY DEF Whole
  <2>2. IsSeq(ConvForward(c, x))
    BY Shapes, ConvShape
  <2> QED BY <2>1, <2>2, FromStart
<1>2. ASSUME NEW u \in Blocks PROVE Whole(x).blocks[u] = From(0 * u.s, BlockOf(u, x, {}))
  <2>1. IsTrans(u) /\ IsConv(u.conv)
    BY Shapes
  <2>2. Whole(x).blocks[u] = BlockOf(u, x, {})
    BY <2>1, SamplesAtOnce DEF Whole, BlockForward, BlockOf
  <2>3. IsSeq(BlockOf(u, x, {}))
    BY <2>1, BlockShape
  <2>4. 0 * u.s = 0
    BY <2>1 DEF IsTrans
  <2> QED BY <2>2, <2>3, <2>4, FromStart
<1>3. ASSUME NEW u \in Upsamples PROVE Whole(x).upsamples[u] = From(0 * u.s, UpsampleForward(u, x))
  <2>1. IsTrans(u)
    BY Shapes
  <2>2. Whole(x).upsamples[u] = UpsampleForward(u, x)
    BY DEF Whole
  <2>3. IsSeq(UpsampleForward(u, x))
    BY <2>1, UpsampleShape
  <2>4. 0 * u.s = 0
    BY <2>1 DEF IsTrans
  <2> QED BY <2>2, <2>3, <2>4, FromStart
<1>4. Whole(x).transformer = From(0, TransformerForward(x))
  <2>1. Whole(x).transformer = TransformerForward(x)
    BY DEF Whole
  <2> QED BY <2>1, TransformerShape, FromStart
<1> QED BY <1>1, <1>2, <1>3, <1>4 DEF AudioIs
-----------------------------------------------------------------------------
(***************************************************************************)
(* The vocoder's inductive invariant.                                      *)
(***************************************************************************)
VocAll == IInv /\ TInv /\ VocInv

\* The vocoder starts fresh, or warmed by the end of the reference.
LEMMA VocInit == PInit => VocAll
<1> SUFFICES ASSUME PInit PROVE VocAll
  OBVIOUS
<1>1. /\ Init /\ session \in [kind : Kinds, language : BOOLEAN]
      /\ (req.chunk = NoChunks <=> Call.atOnce) /\ VocoderInit(Call.warm)
  BY DEF PInit
<1>2. IInv /\ TInv
  BY <1>1, InitInv, InitTypes
<1>3. req \in Request /\ decoded = <<>> /\ pending = <<>> /\ step = 0 /\ pc = "decode"
  BY <1>1 DEF Init
<1> DEFINE w == Call.warm
           x == UpToNumber(w)
<1>4. w \in Nat /\ Call.atOnce \in BOOLEAN /\ (Call.atOnce => w = 0)
  BY <1>1, <1>3, CallIs
<1>5. /\ voc = IF w = 0 THEN Fresh ELSE Remembering(Fresh, x)
      /\ audio = Silent /\ borders = {}
  BY <1>1 DEF VocoderInit
<1>6. Seen = x
  <2>1. Len(decoded) = 0
    BY <1>3, EmptyIsSeq
  <2>2. w + 0 = w
    BY <1>4
  <2> QED BY <2>1, <2>2 DEF Seen
<1> HIDE DEF w
<1>7. IsSeq(x) /\ Len(x) = w
  BY <1>4, UpToNumberIs
<1> HIDE DEF x
<1>8. AudioIs(audio, x, borders, w)
  BY <1>5, <1>7, SilenceIs
<1>9. RemembersAll(voc, x, borders) /\ borders \in SUBSET (0..Len(x) - 1)
  <2>1. CASE w = 0
    <3>1. x = <<>>
      BY <1>7, <2>1, NothingIs
    <3> QED BY <1>5, <2>1, <3>1, FreshRemembers
  <2>2. CASE w # 0
    BY <1>5, <1>7, <2>2, WarmRemembers
  <2> QED BY <2>1, <2>2
<1>10. Call.atOnce => AtOnceInv
  <2>1. Len(pending) = 0
    BY <1>3, EmptyIsSeq
  <2> QED BY <1>1, <1>3, <1>5, <2>1 DEF AtOnceInv
<1>11. VocInv
  BY <1>1, <1>6, <1>8, <1>9, <1>10 DEF VocInv, w
<1> QED BY <1>2, <1>11 DEF VocAll

\* What a step of the loop does to the decoded frames.
LEMMA DecodedGrows ==
  ASSUME IInv, TInv, Next
  PROVE  /\ Len(decoded) \in Nat /\ Len(decoded') \in Nat /\ Len(decoded) <= Len(decoded')
         /\ decoded = UpTo(Len(decoded)) /\ decoded' = UpTo(Len(decoded')) /\ req' = req
<1>1. decoded \in Seq(Nat) /\ pending \in Seq(Nat) /\ decoded = UpTo(Len(decoded))
  BY DEF IInv, FrameInv
<1>2. decoded' \in Seq(Nat) /\ decoded' = UpTo(Len(decoded'))
  BY NextFrameInv DEF FrameInv
<1>3. decoded' = decoded \/ decoded' = decoded \o pending
  BY Zenon DEF Next, Generate, EndOfSpeech, HitCap, ChunkReady, FinalBatch, Return, Finished, vars,
     Deliver
<1>4. Len(decoded') = Len(decoded) \/ Len(decoded') = Len(decoded) + Len(pending)
  BY <1>1, <1>3
<1>5. req' = req
  BY DEF Next, Generate, EndOfSpeech, HitCap, ChunkReady, FinalBatch, Return, Finished, vars
<1> HIDE DEF IInv, TInv, Next
<1>6. Len(decoded) \in Nat /\ Len(pending) \in Nat /\ Len(decoded') \in Nat
  BY <1>1, <1>2
<1> QED BY <1>1, <1>2, <1>4, <1>5, <1>6

\* The loop of a caller that wants everything at once collects one batch.
LEMMA OneBatch ==
  ASSUME IInv, TInv, Next, AtOnceInv, borders' = {}
  PROVE  AtOnceInv'
<1>1. req' = req /\ req.chunk = NoChunks /\ pc # "chunk" /\ Len(pending) = step
  BY DecodedGrows DEF AtOnceInv
<1>2. CASE Generate
  <2>1. step < EffectiveMax /\ EffectiveMax <= MaxCap /\ EffectiveMax \in Nat /\ step \in Nat
    <3>1. req.cap <= MaxCap /\ req.cap \in Nat /\ EffectiveMax \in Nat
      BY Bounds, NativeAssumption DEF TInv, TypeOK, Request
    <3>2. EffectiveMax <= req.cap
      <4> DEFINE f == MaxOf(req.tokens * FramesPerToken, FloorFrames)
      <4>1. f \in Nat
        <5>1. req.tokens \in Nat
          BY NativeAssumption DEF TInv, TypeOK, Request
        <5>2. req.tokens * FramesPerToken \in Nat
          BY <5>1, NativeAssumption
        <5> QED BY <5>2, NativeAssumption DEF MaxOf
      <4> HIDE DEF f
      <4>2. MinOf(req.cap, f) <= req.cap
        BY <3>1, <4>1 DEF MinOf
      <4> QED BY <3>1, <4>2 DEF EffectiveMax, f
    <3> QED BY <1>2, <3>1, <3>2, NativeAssumption DEF Generate, IInv, ControlInv
  <2>2. Len(pending') = step + 1 /\ step' = step + 1 /\ decoded' = decoded
    BY <1>1, <1>2 DEF Generate, IInv, FrameInv
  <2>3. BatchSize = MaxCap + 1
    BY <1>1, NativeAssumption DEF BatchSize, NoChunks, MaxOf
  <2>4. ~(Len(pending') >= BatchSize)
    BY <2>1, <2>2, <2>3, NativeAssumption
  <2>5. pc' = "decode" /\ pc = "decode"
    BY <1>2, <2>4 DEF Generate
  <2> QED BY <1>1, <2>2, <2>5 DEF AtOnceInv
<1>3. CASE EndOfSpeech \/ HitCap
  BY <1>1, <1>3 DEF EndOfSpeech, HitCap, AtOnceInv
<1>4. CASE FinalBatch
  BY <1>1, <1>4 DEF FinalBatch, AtOnceInv
<1>5. CASE Return \/ Finished
  BY <1>1, <1>5 DEF Return, Finished, vars, AtOnceInv
<1>6. ~ChunkReady
  BY <1>1 DEF ChunkReady
<1> QED BY <1>2, <1>3, <1>4, <1>5, <1>6 DEF Next

\* Every step of the loop keeps it: nothing to decode, everything at once, or a batch.
LEMMA VocNext == VocAll /\ [PNext]_plvars => VocAll'
<1> SUFFICES ASSUME VocAll, [PNext]_plvars PROVE VocAll'
  OBVIOUS
<1>1. IInv /\ TInv /\ VocInv
  BY DEF VocAll
<1>2. [Next]_vars
  BY DEF PNext, plvars
<1>3. IInv' /\ TInv'
  BY <1>1, <1>2, NextControlInv, NextFrameInv, NextTypes DEF IInv
<1>4. session' = session
  BY DEF PNext, plvars
<1> DEFINE d == Len(decoded)
           e == Len(decoded')
           batch == BatchOf(d, e)
           w == Call.warm
           x == Numbered(w, batch)
<1>5. CASE UNCHANGED <<req, session, decoded, vvars>> /\ (Call.atOnce => AtOnceInv')
  <2>1. Call' = Call
    BY <1>5, CallStays
  <2>2. Seen' = Seen /\ audio' = audio /\ voc' = voc /\ borders' = borders
    BY <1>5, <2>1 DEF Seen, vvars
  <2>3. VocInv'
    BY <1>1, <1>4, <1>5, <2>1, <2>2 DEF VocInv
  <2> QED BY <1>3, <2>3 DEF VocAll
<1>6. CASE UNCHANGED plvars
  <2>1. AtOnceInv => AtOnceInv'
    BY <1>6 DEF plvars, vars, vvars, AtOnceInv
  <2> QED BY <1>1, <1>5, <1>6, <2>1 DEF plvars, vars, VocInv
<1>7. CASE PNext
  <2>1. /\ d \in Nat /\ e \in Nat /\ d <= e
        /\ decoded = UpTo(d) /\ decoded' = UpTo(e) /\ req' = req
    BY <1>1, <1>7, DecodedGrows DEF PNext
  <2>2. Call' = Call
    BY <1>4, <2>1, CallStays
  <2>3. w \in Nat /\ Call.atOnce \in BOOLEAN /\ (Call.atOnce => w = 0)
    BY <1>1, CallIs DEF TInv, TypeOK, VocInv
  <2>4. Seen = UpToNumber(w + d) /\ Seen' = UpToNumber(w + e)
    BY <2>2 DEF Seen
  <2>6. /\ batch = SubSeq(UpTo(e), d + 1, e)
        /\ batch = SubSeq(decoded', Len(decoded) + 1, Len(decoded'))
    BY <2>1 DEF BatchOf
  <2>5. /\ batch = <<>> => UNCHANGED vvars
        /\ batch # <<>> /\ Call.atOnce => audio' = Whole(batch) /\ UNCHANGED <<voc, borders>>
        /\ batch # <<>> /\ ~Call.atOnce => Decode(x)
    <3> HIDE DEF batch
    <3> QED BY <1>7, <2>6 DEF PNext, Vocode, Numbered
  <2>7. /\ IsSeq(batch) /\ Len(batch) = e - d /\ IsSeq(x) /\ Len(x) = e - d
        /\ UpToNumber(w + e) = UpToNumber(w + d) \o x
    <3> HIDE DEF batch, d, e, w
    <3>1. w \in Nat /\ d \in Nat /\ e \in Nat /\ d <= e
      BY <2>1, <2>3
    <3>2. /\ IsSeq(BatchOf(d, e)) /\ Len(BatchOf(d, e)) = e - d
          /\ IsSeq(Numbered(w, BatchOf(d, e))) /\ Len(Numbered(w, BatchOf(d, e))) = e - d
          /\ UpToNumber(w + e) = UpToNumber(w + d) \o Numbered(w, BatchOf(d, e))
      BY ONLY <3>1, BatchIs
    <3> QED BY <3>2 DEF batch
  <2>8. Call.atOnce => borders' = {}
    <3>1. Call.atOnce => borders' = borders /\ borders = {}
      BY <1>1, <2>5 DEF vvars, VocInv, AtOnceInv
    <3> QED BY <3>1
  <2>9. Call.atOnce => AtOnceInv'
    BY <1>1, <1>7, <2>8, OneBatch DEF PNext, VocInv
  <2>10. CASE batch = <<>>
    <3>1. e = d
      <4>1. Len(batch) = 0
        BY <2>10, EmptyIsSeq
      <4> HIDE DEF batch, d, e
      <4> QED BY <2>1, <2>7, <4>1
    <3>2. UNCHANGED vvars
      BY <2>5, <2>10
    <3>3. decoded' = decoded
      BY <2>1, <3>1
    <3> QED BY <1>4, <1>5, <2>1, <2>9, <3>2, <3>3
  <2>11. CASE batch # <<>> /\ Call.atOnce
    <3>1. audio' = Whole(batch)
      BY <2>5, <2>11
    <3>2. decoded = <<>>
      <4>1. pc \in {"return", "returned"} => decoded' = decoded
        BY <1>7 DEF PNext, Next, Generate, EndOfSpeech, HitCap, ChunkReady, FinalBatch, Return,
           Finished, vars
      <4>2. CASE pc \in {"return", "returned"}
        <5>1. d = e
          BY <4>1, <4>2
        <5>2. Len(batch) = 0
          <6> HIDE DEF batch, d, e
          <6> QED BY <2>1, <2>7, <5>1
        <5> HIDE DEF batch
        <5> QED BY <2>7, <2>11, <5>2, NothingIs
      <4>3. CASE pc \notin {"return", "returned"}
        BY <1>1, <2>11, <4>3 DEF VocInv, AtOnceInv
      <4> QED BY <4>2, <4>3
    <3>3. batch = UpToNumber(w + e)
      <4>1. d = 0
        BY <3>2, EmptyIsSeq
      <4>2. UpTo(e) = UpToNumber(e) /\ 0 + e = e
        BY <2>1 DEF UpTo, UpToNumber
      <4>3. IsSeq(UpTo(e)) /\ Len(UpTo(e)) = e
        <5> HIDE DEF e
        <5> QED BY <2>1, <4>2, UpToNumberIs
      <4>4. SubSeq(UpTo(e), 0 + 1, e) = UpTo(e)
        <5> DEFINE t == UpTo(e)
        <5>1. t \in Seq(Own(t)) /\ Len(t) = e /\ 0 + 1 = 1
          BY <4>3 DEF IsSeq
        <5> HIDE DEF t
        <5>2. SubSeq(t, 1, Len(t)) = t
          BY <5>1, SubSeqFull
        <5> QED BY <5>1, <5>2 DEF t
      <4>5. batch = UpTo(e)
        BY <2>6, <4>1, <4>4
      <4> QED BY <2>3, <2>11, <4>2, <4>5
    <3>4. AudioIs(Whole(batch), batch, {}, 0)
      <4> HIDE DEF batch
      <4> QED BY <2>7, WholeIsHeard
    <3>5. AudioIs(audio, Seen, borders, w)'
      <4> HIDE DEF batch
      <4>1. audio' = Whole(batch) /\ Seen' = batch /\ borders' = {} /\ w' = 0
        BY <2>2, <2>3, <2>4, <2>8, <2>11, <3>1, <3>3
      <4> QED BY <3>4, <4>1 DEF AudioIs
    <3> QED BY <1>1, <1>3, <1>4, <2>2, <2>9, <2>11, <3>5 DEF VocAll, VocInv
  <2>12. CASE batch # <<>> /\ ~Call.atOnce
    <3> DEFINE s == Seen
               B == borders
    <3>1. Decode(x)
      BY <2>5, <2>12
    <3>2. IsSeq(s) /\ Len(s) = w + d
      <4>1. w + d \in Nat
        BY <2>1, <2>3
      <4> HIDE DEF w, d
      <4> QED BY <2>4, <4>1, UpToNumberIs DEF w, d
    <3>3. IsSeq(x) /\ Len(x) # 0
      <4>1. Len(batch) # 0
        <5> HIDE DEF batch
        <5> QED BY <2>7, <2>12, NothingIs
      <4> HIDE DEF x, batch
      <4> QED BY <2>7, <4>1
    <3>4. Seen' = s \o x
      BY <2>4, <2>7
    <3>5. RemembersAll(voc, s, B) /\ B \in SUBSET (0..Len(s) - 1) /\ AudioIs(audio, s, B, w)
      BY <1>1, <2>12 DEF VocInv
    <3>6. w <= Len(s) /\ w \in Nat
      <4> HIDE DEF w, d, s
      <4> QED BY <2>1, <2>3, <3>2
    <3> HIDE DEF s, x, w, B
    <3>7. /\ RemembersAll(Remembering(voc, x), s \o x, B \cup {Len(s)})
          /\ voc.transformer.offset = Len(s)
      BY <3>2, <3>3, <3>5, DecodeRemembers
    <3>8. AudioIs(Joined(audio, Streamed(voc, x)), s \o x, B \cup {Len(s)}, w)
      BY <3>2, <3>3, <3>5, <3>6, DecodeIsHeard
    <3>9. /\ audio' = Joined(audio, Streamed(voc, x)) /\ voc' = Remembering(voc, x)
          /\ borders' = B \cup {Len(s)}
      BY <3>1, <3>7 DEF Decode, B
    <3>10. w' = w
      BY <2>2 DEF w
    <3>11. RemembersAll(voc, Seen, borders)' /\ AudioIs(audio, Seen, borders, w)'
      BY <3>4, <3>7, <3>8, <3>9, <3>10 DEF RemembersAll, AudioIs
    <3>12. (borders \in SUBSET (0..Len(Seen) - 1))'
      <4>1. Len(s \o x) = Len(s) + Len(x) /\ Len(s) \in Nat /\ Len(x) \in Nat
        BY <3>2, <3>3, Concat, SeqIsTable
      <4>2. Len(s) \in 0..Len(s \o x) - 1 /\ 0..Len(s) - 1 \subseteq 0..Len(s \o x) - 1
        BY <3>3, <4>1
      <4> QED BY <3>4, <3>5, <3>9, <4>2
    <3> QED BY <1>1, <1>3, <1>4, <2>2, <2>12, <3>10, <3>11, <3>12 DEF VocAll, VocInv, w
  <2> QED BY <2>3, <2>10, <2>11, <2>12
<1> QED BY <1>6, <1>7

\* Whatever the batches, each layer of the vocoder gives what one decoding of all
\* the frames gives it, up to the bias carried over the borders of the batches.
THEOREM DecodesAsWhole == PSpec => []DecodedAsWhole
<1>1. VocAll => DecodedAsWhole
  <2> SUFFICES ASSUME VocAll PROVE DecodedAsWhole
    OBVIOUS
  <2>1. AudioIs(audio, Seen, borders, Call.warm)
    BY DEF VocAll, VocInv
  <2> DEFINE x == Seen
  <2>2. IsSeq(x)
    <3>1. Call.warm \in Nat /\ Len(decoded) \in Nat
      BY CallIs DEF VocAll, VocInv, TInv, TypeOK, IInv, FrameInv
    <3>2. Call.warm + Len(decoded) \in Nat
      BY <3>1
    <3> QED BY <3>2, UpToNumberIs DEF Seen
  <2>3. ASSUME NEW u \in Blocks
        PROVE  BlockWithCarriedBias(u, x) = BlockOf(u, x, borders)
    <3> HIDE DEF x
    <3> QED BY <2>2, Shapes, CarriedIs DEF BlockWithCarriedBias, BlockOf
  <2>4. /\ \A c \in Convs : Whole(x).convs[c] = ConvForward(c, x)
        /\ \A u \in Upsamples : Whole(x).upsamples[u] = UpsampleForward(u, x)
        /\ Whole(x).transformer = TransformerForward(x)
    BY DEF Whole
  <2>5. x = UpToNumber(Call.warm + Len(decoded))
    BY DEF Seen
  <2> HIDE DEF x
  <2>6. AudioIs(audio, x, borders, Call.warm)
    BY <2>1 DEF x
  <2> QED BY <2>3, <2>4, <2>5, <2>6 DEF DecodedAsWhole, AsWhole, AudioIs
<1> QED BY <1>1, VocInit, VocNext, PTL DEF PSpec
-----------------------------------------------------------------------------
(***************************************************************************)
(* Multiples, and what is added on the right for a whole step.             *)
(***************************************************************************)
\* Multiplication keeps the order, and
LEMMA TimesKeepsOrder ==
  ASSUME NEW a \in Int, NEW b \in Int, NEW c \in Nat, a <= b
  PROVE  a * c <= b * c
OBVIOUS

\* what is more by one is more by a whole step.
LEMMA StepsApart ==
  ASSUME NEW a \in Int, NEW b \in Int, NEW c \in Nat, a * c < b * c
  PROVE  a < b
<1>1. CASE b <= a
  BY <1>1, TimesKeepsOrder
<1> QED BY <1>1

\* Steps of steps.
LEMMA StepsOfSteps ==
  ASSUME NEW a \in Int, NEW b \in Int, NEW c \in Int
  PROVE  a * (b * c) = (a * b) * c /\ (a - 1) * b = a * b - b
OBVIOUS

\* A whole number of steps, divided.
LEMMA StepsDivided ==
  ASSUME NEW a \in Nat, NEW s \in Nat \ {0}
  PROVE  (a * s) \div s = a
OBVIOUS

\* The step in which a place is.
LEMMA StepOf ==
  ASSUME NEW q \in Nat \ {0}, NEW P \in Nat \ {0}
  PROVE  \E i \in Nat \ {0} : (i - 1) * P < q /\ q <= i * P
<1> DEFINE d == (q - 1) \div P
<1>1. d \in Int /\ d * P <= q - 1 /\ q - 1 < d * P + P
  OBVIOUS
<1>2. d >= 0
  OBVIOUS
<1> HIDE DEF d
<1>3. (d + 1) * P = d * P + P
  BY <1>1
<1>4. d + 1 \in Nat \ {0} /\ (d + 1) - 1 = d
  BY <1>1, <1>2
<1>5. ((d + 1) - 1) * P < q /\ q <= (d + 1) * P
  BY <1>1, <1>3, <1>4
<1> QED BY <1>4, <1>5

\* What is added on the right fills the last step and no more.
LEMMA PaddingFills ==
  ASSUME NEW n \in Nat \ {0}, NEW k \in Nat, NEW s \in Nat \ {0}, k >= s
  PROVE  /\ ExtraPadding(n, k, s) \in Nat
         /\ \E m \in Nat \ {0} : /\ n + ExtraPadding(n, k, s) = m * s
                                 /\ (m - 1) * s < n /\ n <= m * s
<1> DEFINE padding_total == k - s
           beyond == IF n + padding_total > k THEN n + padding_total - k ELSE 0
           q == (beyond + s - 1) \div s
           ideal_len == q * s + k - padding_total
<1>1. beyond = IF n > s THEN n - s ELSE 0
  OBVIOUS
<1>2. ExtraPadding(n, k, s) = IF ideal_len > n THEN ideal_len - n ELSE 0
  BY DEF ExtraPadding
<1>3. beyond \in Nat
  BY <1>1
<1> HIDE DEF beyond
<1>4. q \in Int /\ q * s <= beyond + s - 1 /\ beyond + s - 1 < q * s + s
  BY <1>3
<1>5. q >= 0
  BY <1>3
<1> HIDE DEF q
<1>6. ideal_len = q * s + s /\ (q + 1) * s = q * s + s /\ q * s \in Int
  BY <1>4
<1>7. q * s < n /\ n <= q * s + s
  <2>1. CASE n > s
    BY <1>1, <1>4, <2>1
  <2>2. CASE n <= s
    <3>1. q * s < s
      BY <1>1, <1>4, <2>2
    <3>2. q * s < 1 * s
      BY <3>1
    <3>3. q < 1
      BY <1>4, <3>2, StepsApart
    <3>4. q = 0
      BY <1>4, <1>5, <3>3
    <3> QED BY <2>2, <3>4
  <2> QED BY <2>1, <2>2
<1> HIDE DEF ideal_len
<1>8. n + ExtraPadding(n, k, s) = (q + 1) * s /\ ExtraPadding(n, k, s) \in Nat
  BY <1>2, <1>6, <1>7
<1>9. q + 1 \in Nat \ {0} /\ ((q + 1) - 1) * s < n /\ n <= (q + 1) * s
  BY <1>4, <1>5, <1>6, <1>7
<1> QED BY <1>8, <1>9

\* Copies of one thing.
LEMMA CopiesAre ==
  ASSUME NEW a, NEW n \in Nat
  PROVE  IsSeq(Copies(a, n)) /\ Len(Copies(a, n)) = n /\ \A i \in 1..n : Copies(a, n)[i] = a
<1> DEFINE t == Copies(a, n)
<1>1. t = [i \in 1..n |-> t[i]] /\ \A i \in 1..n : t[i] = a
  BY DEF Copies
<1> HIDE DEF t
<1>2. IsSeq(t) /\ Len(t) = n
  BY <1>1, TableIsSeq
<1> QED BY <1>1, <1>2 DEF t

\* What a convolution sees at once.
StepOver(k, s, p, t) == UNION {p[(t - 1) * s + j] : j \in 1..k}

Convolved(y, k, s, p, m) ==
  /\ IsSeq(y) /\ Len(y) = m
  /\ \A t \in 1..m : y[t] = StepOver(k, s, p, t)

\* What a convolution makes of m steps.
LEMMA StridedIs ==
  ASSUME NEW k \in Nat, NEW s \in Nat \ {0}, k >= s, NEW m \in Nat \ {0},
         NEW p, IsSeq(p), Len(p) = k - s + m * s
  PROVE  Convolved(Strided(k, s, p), k, s, p, m)
<1> DEFINE y == Strided(k, s, p)
<1>1. (Len(p) - k) \div s + 1 = m
  <2>1. Len(p) - k = (m - 1) * s
    BY StepsOfSteps
  <2>2. ((m - 1) * s) \div s = m - 1
    BY StepsDivided
  <2> QED BY <2>1, <2>2
<1>2. y = [t \in 1..m |-> StepOver(k, s, p, t)]
  BY <1>1 DEF Strided, StepOver
<1>3. y = [t \in 1..m |-> y[t]] /\ \A t \in 1..m : y[t] = StepOver(k, s, p, t)
  BY <1>2
<1> HIDE DEF y
<1>4. IsSeq(y) /\ Len(y) = m
  BY <1>3, TableIsSeq
<1> QED BY <1>3, <1>4 DEF y, Convolved

\* Both sides padded.
Widened(a, c, x, b, e) == Copies(a, c) \o x \o Copies(b, e)
IsWidened(p, a, c, x, b, e) ==
  /\ IsSeq(p) /\ Len(p) = c + Len(x) + e
  /\ \A i \in 1..c : p[i] = a
  /\ \A i \in 1..Len(x) : p[c + i] = x[i]
  /\ \A i \in 1..e : p[c + Len(x) + i] = b

\* What is where when both sides were padded.
LEMMA PaddedOnBothSides ==
  ASSUME NEW x, IsSeq(x), NEW a, NEW b, NEW c \in Nat, NEW e \in Nat
  PROVE  IsWidened(Widened(a, c, x, b, e), a, c, x, b, e)
<1> DEFINE l == Copies(a, c)
           r == Copies(b, e)
           lx == l \o x
           p == lx \o r
           n == Len(x)
<1>1. IsSeq(l) /\ Len(l) = c /\ \A i \in 1..c : l[i] = a
  BY CopiesAre
<1>2. IsSeq(r) /\ Len(r) = e /\ \A i \in 1..e : r[i] = b
  BY CopiesAre
<1> HIDE DEF l, r
<1>0. IsSeq(l) /\ IsSeq(r) /\ IsSeq(x)
  BY <1>1, <1>2
<1>3. /\ IsSeq(lx) /\ Len(lx) = Len(l) + Len(x)
      /\ \A i \in 1..Len(l) : lx[i] = l[i]
      /\ \A i \in 1..Len(x) : lx[Len(l) + i] = x[i]
  BY ONLY <1>0, Concat
<1> HIDE DEF lx
<1>4. /\ IsSeq(p) /\ Len(p) = Len(lx) + Len(r)
      /\ \A i \in 1..Len(lx) : p[i] = lx[i]
      /\ \A i \in 1..Len(r) : p[Len(lx) + i] = r[i]
  <2>1. IsSeq(lx) /\ IsSeq(r)
    BY <1>0, <1>3
  <2> QED BY ONLY <2>1, Concat
<1> HIDE DEF p
<1>5. n \in Nat
  BY SeqIsTable
<1> HIDE DEF n
<1>6. Len(x) = n /\ Len(lx) = c + n
  BY <1>1, <1>3 DEF n
<1>7. ASSUME NEW i \in 1..c PROVE p[i] = a
  <2>1. i \in 1..Len(l) /\ i \in 1..Len(lx)
    BY <1>1, <1>5, <1>6
  <2> QED BY <1>1, <1>3, <1>4, <2>1
<1>8. ASSUME NEW i \in 1..n PROVE p[c + i] = x[i]
  <2>1. c + i \in 1..Len(lx) /\ i \in 1..Len(x)
    BY <1>5, <1>6
  <2>2. p[c + i] = lx[c + i]
    BY <1>4, <2>1
  <2>3. lx[c + i] = x[i]
    BY <1>1, <1>3, <2>1
  <2> QED BY <2>2, <2>3
<1>9. ASSUME NEW i \in 1..e PROVE p[c + n + i] = b
  BY <1>2, <1>4, <1>6
<1>10. IsSeq(p) /\ Len(p) = c + n + e
  BY <1>2, <1>4, <1>6
<1> QED BY <1>7, <1>8, <1>9, <1>10 DEF p, n, lx, l, r, Widened, IsWidened

Filled(k, s, a, x, b) == Widened(a, k - s, x, b, ExtraPadding(Len(x), k, s))

Windows(y, s, a, x, b) ==
  /\ IsSeq(y) /\ Len(y) >= 1 /\ (Len(y) - 1) * s < Len(x) /\ Len(x) <= Len(y) * s
  /\ \A t \in 1..Len(y) : \A i \in 1..Len(x) :
       (t - 1) * s < i /\ i <= t * s => x[i] \subseteq y[t]
  /\ \A t \in 1..Len(y) : \A q \in y[t] :
       \/ q \in a
       \/ q \in b /\ Len(x) < t * s
       \/ \E i \in 1..Len(x) : i <= t * s /\ q \in x[i]

\* A step of a convolution sees what is in the step, and beside it only what came
\* before, the padding on the left, and on the right that of the last step.
LEMMA WindowsAre ==
  ASSUME NEW k \in Nat, NEW s \in Nat \ {0}, k >= s, NEW a, NEW b, NEW x, IsSeq(x), Len(x) >= 1
  PROVE  Windows(Strided(k, s, Filled(k, s, a, x, b)), s, a, x, b)
<1> DEFINE n == Len(x)
           e == ExtraPadding(n, k, s)
           p == Filled(k, s, a, x, b)
           y == Strided(k, s, p)
<1>1. n \in Nat \ {0}
  BY SeqIsTable
<1>2. e \in Nat /\ \E m \in Nat \ {0} : n + e = m * s /\ (m - 1) * s < n /\ n <= m * s
  BY <1>1, PaddingFills
<1>3. PICK m \in Nat \ {0} : n + e = m * s /\ (m - 1) * s < n /\ n <= m * s
  BY <1>2
<1>4. k - s \in Nat
  OBVIOUS
<1>5. /\ IsSeq(p) /\ Len(p) = k - s + n + e
      /\ \A i \in 1..k - s : p[i] = a
      /\ \A i \in 1..n : p[k - s + i] = x[i]
      /\ \A i \in 1..e : p[k - s + n + i] = b
  <2>1. IsSeq(x) /\ k - s \in Nat /\ e \in Nat
    BY <1>2, <1>4
  <2>2. IsWidened(p, a, k - s, x, b, e)
    BY ONLY <2>1, PaddedOnBothSides DEF Filled, p, e
  <2> HIDE DEF p, e
  <2> QED BY ONLY <2>2 DEF IsWidened, n
<1> HIDE DEF p, e
<1>6. /\ Len(p) = k - s + m * s /\ IsSeq(p)
      /\ k \in Nat /\ s \in Nat \ {0} /\ k >= s /\ m \in Nat \ {0}
  <2>1. n + e = m * s /\ n \in Nat /\ e \in Nat /\ k - s \in Nat
    BY <1>1, <1>2, <1>3, <1>4
  <2>2. k - s + n + e = k - s + m * s
    BY ONLY <2>1
  <2> QED BY <1>5, <2>2
<1>7. /\ IsSeq(y) /\ Len(y) = m
      /\ \A t \in 1..m : y[t] = StepOver(k, s, p, t)
  <2>1. Convolved(y, k, s, p, m)
    BY ONLY <1>6, StridedIs DEF y
  <2> HIDE DEF y
  <2> QED BY <2>1 DEF Convolved
<1> HIDE DEF y
<1>8. ASSUME NEW t \in 1..m, NEW i \in 1..n, (t - 1) * s < i, i <= t * s
      PROVE  x[i] \subseteq y[t]
  <2> DEFINE f == (t - 1) * s
             j == k - s + i - f
  <2>1. f \in Nat /\ t * s = f + s
    BY StepsOfSteps
  <2> HIDE DEF f
  <2>2. j \in 1..k /\ f + j = k - s + i
    BY <1>1, <1>8, <2>1 DEF f
  <2>3. p[f + j] = x[i]
    BY <1>5, <2>2
  <2> HIDE DEF j
  <2>4. y[t] = UNION {p[f + h] : h \in 1..k}
    BY <1>7 DEF f, StepOver
  <2> QED BY <2>2, <2>3, <2>4
<1>9. ASSUME NEW t \in 1..m, NEW q \in y[t]
      PROVE  q \in a \/ (q \in b /\ n < t * s) \/ \E i \in 1..n : i <= t * s /\ q \in x[i]
  <2> DEFINE f == (t - 1) * s
  <2>1. f \in Nat /\ t * s = f + s
    BY StepsOfSteps
  <2>2. y[t] = UNION {p[f + h] : h \in 1..k}
    BY <1>7 DEF StepOver
  <2>3. PICK j \in 1..k : q \in p[f + j]
    BY <2>2
  <2>4. f + s <= n + e
    <3>1. t * s <= m * s
      BY <1>7, TimesKeepsOrder
    <3> QED BY <1>3, <2>1, <3>1
  <2> HIDE DEF f
  <2>5. CASE f + j <= k - s
    BY <1>4, <1>5, <2>1, <2>3, <2>5
  <2>6. CASE f + j > k - s /\ f + j <= k - s + n
    <3> DEFINE i == f + j - (k - s)
    <3>1. i \in 1..n /\ k - s + i = f + j /\ i <= f + s
      BY <1>1, <1>4, <2>1, <2>6
    <3> HIDE DEF i
    <3>2. q \in x[i]
      BY <1>5, <2>3, <3>1
    <3> QED BY <2>1, <3>1, <3>2
  <2>7. CASE f + j > k - s + n
    <3> DEFINE i == f + j - (k - s) - n
    <3>1. i \in 1..e /\ k - s + n + i = f + j /\ n < f + s
      BY <1>1, <1>2, <1>4, <2>1, <2>4, <2>7
    <3> HIDE DEF i
    <3>2. q \in b
      BY <1>5, <2>3, <3>1
    <3> QED BY <2>1, <3>1, <3>2
  <2> QED BY <1>1, <1>4, <2>1, <2>5, <2>6, <2>7
<1> QED BY <1>3, <1>7, <1>8, <1>9 DEF y, p, n, Windows
-----------------------------------------------------------------------------
(***************************************************************************)
(* What each layer of the speech encoder hears.                            *)
(***************************************************************************)
\* A layer hears the recording in steps of P samples: each step all that is in it,
\* something of what came before it perhaps, and nothing behind.
Reaches(x, P, n) ==
  /\ IsSeq(x) /\ Len(x) >= 1 /\ (Len(x) - 1) * P < n /\ n <= Len(x) * P
  /\ \A t \in 1..Len(x) : \A q \in x[t] : q \in 1..n /\ q <= t * P
  /\ \A t \in 1..Len(x) : \A q \in 1..n : (t - 1) * P < q /\ q <= t * P => q \in x[t]

\* And behind the transformer all that came before.
ReachesAll(x, P, n) ==
  /\ Reaches(x, P, n)
  /\ \A t \in 1..Len(x) : \A q \in 1..n : q <= t * P => q \in x[t]

\* A place is in one of the steps.
LEMMA PlaceIsInStep ==
  ASSUME NEW P \in Nat \ {0}, NEW n \in Nat \ {0}, NEW N \in Nat, n <= N * P, NEW q \in 1..n
  PROVE  \E i \in 1..N : (i - 1) * P < q /\ q <= i * P
<1>0. q \in Nat \ {0}
  OBVIOUS
<1>1. PICK i \in Nat \ {0} : (i - 1) * P < q /\ q <= i * P
  BY <1>0, StepOf
<1>2. (i - 1) * P < N * P
  <2>1. (i - 1) * P \in Int /\ N * P \in Int
    OBVIOUS
  <2> QED BY <1>1, <2>1
<1>3. i - 1 < N
  BY <1>2, StepsApart
<1>4. i \in 1..N
  BY <1>3
<1> QED BY <1>1, <1>4

\* A convolution with a step of s hears in steps of s * P.
LEMMA StepsMultiply ==
  ASSUME NEW P \in Nat \ {0}, NEW n \in Nat \ {0}, NEW s \in Nat \ {0},
         NEW x, NEW y, NEW a, NEW b, Reaches(x, P, n), Windows(y, s, a, x, b),
         \A q \in a : q \in 1..n /\ q <= P, \A q \in b : q \in 1..n
  PROVE  Reaches(y, s * P, n)
<1> DEFINE N == Len(x)
           M == Len(y)
<1>1. IsSeq(y) /\ M >= 1 /\ M \in Nat /\ (M - 1) * s < N /\ N <= M * s /\ N \in Nat /\ N >= 1
  BY SeqIsTable DEF Windows, Reaches
<1>2. /\ (N - 1) * P < n /\ n <= N * P
      /\ \A t \in 1..N : \A q \in x[t] : q \in 1..n /\ q <= t * P
      /\ \A t \in 1..N : \A q \in 1..n : (t - 1) * P < q /\ q <= t * P => q \in x[t]
  BY DEF Reaches
<1>3. /\ \A t \in 1..M : \A i \in 1..N : (t - 1) * s < i /\ i <= t * s => x[i] \subseteq y[t]
      /\ \A t \in 1..M : \A q \in y[t] :
           q \in a \/ (q \in b /\ N < t * s) \/ \E i \in 1..N : i <= t * s /\ q \in x[i]
  BY DEF Windows
<1> HIDE DEF N, M
<1>4. \A t \in Int : /\ t * (s * P) = (t * s) * P
                     /\ t * s \in Int /\ t * P \in Int /\ (t * s) * P \in Int
  BY StepsOfSteps
<1>5. (M - 1) * (s * P) < n
  <2>1. (M - 1) * s <= N - 1 /\ (M - 1) * s \in Int
    BY <1>1
  <2>2. ((M - 1) * s) * P <= (N - 1) * P
    BY <1>1, <2>1, TimesKeepsOrder
  <2>3. (M - 1) * (s * P) = ((M - 1) * s) * P
    BY <1>1, <1>4
  <2>4. ((M - 1) * s) * P \in Int /\ (N - 1) * P \in Int
    BY <1>1, <2>1
  <2> QED BY <1>2, <2>2, <2>3, <2>4
<1>6. n <= M * (s * P)
  <2>1. N * P <= (M * s) * P
    BY <1>1, <1>4, TimesKeepsOrder
  <2> QED BY <1>1, <1>2, <1>4, <2>1
<1>7. ASSUME NEW t \in 1..M, NEW q \in y[t] PROVE q \in 1..n /\ q <= t * (s * P)
  <2>0. t * (s * P) = (t * s) * P /\ t * s \in Int /\ t * s >= 1
    BY <1>4
  <2>1. CASE q \in a
    <3>1. 1 * P <= (t * s) * P
      BY <2>0, TimesKeepsOrder
    <3> QED BY <2>0, <2>1, <3>1
  <2>2. CASE q \in b /\ N < t * s
    <3>1. N * P <= (t * s) * P
      BY <1>1, <2>0, <2>2, TimesKeepsOrder
    <3>2. N * P \in Int /\ (t * s) * P \in Int
      BY <1>1, <2>0
    <3> QED BY <1>2, <2>0, <2>2, <3>1, <3>2
  <2>3. CASE \E i \in 1..N : i <= t * s /\ q \in x[i]
    <3>1. PICK i \in 1..N : i <= t * s /\ q \in x[i]
      BY <2>3
    <3>2. i * P <= (t * s) * P
      BY <2>0, <3>1, TimesKeepsOrder
    <3>3. q \in 1..n /\ q <= i * P
      BY <1>2, <3>1
    <3>4. i * P \in Int /\ (t * s) * P \in Int
      BY <2>0
    <3> QED BY <2>0, <3>2, <3>3, <3>4
  <2> QED BY <1>3, <2>1, <2>2, <2>3
<1>8. ASSUME NEW t \in 1..M, NEW q \in 1..n, (t - 1) * (s * P) < q, q <= t * (s * P)
      PROVE  q \in y[t]
  <2>1. PICK i \in 1..N : (i - 1) * P < q /\ q <= i * P
    BY <1>1, <1>2, PlaceIsInStep
  <2>2. /\ t * (s * P) = (t * s) * P /\ (t - 1) * (s * P) = ((t - 1) * s) * P
        /\ t * s \in Int /\ (t - 1) * s \in Int
        /\ (t * s) * P \in Int /\ ((t - 1) * s) * P \in Int
        /\ (i - 1) * P \in Int /\ i * P \in Int
    <3>1. t \in Int /\ t - 1 \in Int
      OBVIOUS
    <3> QED BY <1>4, <3>1
  <2>3. (t - 1) * s < i
    <3>1. ((t - 1) * s) * P < i * P
      BY <1>8, <2>1, <2>2
    <3> QED BY <2>2, <3>1, StepsApart
  <2>4. i <= t * s
    <3>1. (i - 1) * P < (t * s) * P
      BY <1>8, <2>1, <2>2
    <3>2. i - 1 < t * s
      BY <2>2, <3>1, StepsApart
    <3> QED BY <2>2, <3>2
  <2>5. q \in x[i]
    BY <1>2, <2>1
  <2> QED BY <1>3, <2>3, <2>4, <2>5
<1> QED BY <1>1, <1>5, <1>6, <1>7, <1>8 DEF Reaches, N, M

\* And all that came before, when what it sees did.
LEMMA AllIsKept ==
  ASSUME NEW P \in Nat \ {0}, NEW n \in Nat \ {0}, NEW s \in Nat \ {0},
         NEW x, NEW y, NEW a, NEW b, ReachesAll(x, P, n), Windows(y, s, a, x, b),
         \A q \in a : q \in 1..n /\ q <= P, \A q \in b : q \in 1..n
  PROVE  ReachesAll(y, s * P, n)
<1>1. Reaches(y, s * P, n)
  BY StepsMultiply DEF ReachesAll
<1> DEFINE N == Len(x)
           M == Len(y)
<1>2. M \in Nat /\ M >= 1 /\ (M - 1) * s < N /\ N \in Nat /\ N >= 1 /\ n <= N * P
  BY SeqIsTable DEF Windows, Reaches, ReachesAll
<1>3. \A t \in 1..M : \A i \in 1..N : (t - 1) * s < i /\ i <= t * s => x[i] \subseteq y[t]
  BY DEF Windows
<1>4. \A t \in 1..N : \A q \in 1..n : q <= t * P => q \in x[t]
  BY DEF ReachesAll
<1> HIDE DEF N, M
<1>5. ASSUME NEW t \in 1..M, NEW q \in 1..n, q <= t * (s * P) PROVE q \in y[t]
  <2> DEFINE i == IF t * s <= N THEN t * s ELSE N
  <2>1. t * s \in Int /\ t * s >= 1 /\ (t - 1) * s = t * s - s /\ t * (s * P) = (t * s) * P
    BY StepsOfSteps
  <2>2. (t - 1) * s <= (M - 1) * s
    BY <1>2, TimesKeepsOrder
  <2>3. (M - 1) * s \in Int
    BY <1>2
  <2>4. i \in 1..N /\ (t - 1) * s < i /\ i <= t * s
    BY <1>2, <2>1, <2>2, <2>3
  <2>5. q <= i * P
    <3>1. CASE t * s <= N
      BY <1>5, <2>1, <3>1
    <3>2. CASE ~(t * s <= N)
      <4>1. N * P \in Int
        BY <1>2
      <4> QED BY <1>2, <3>2, <4>1
    <3> QED BY <3>1, <3>2
  <2> HIDE DEF i
  <2> QED BY <1>3, <1>4, <2>4, <2>5
<1> QED BY <1>1, <1>5 DEF ReachesAll, M

\* What has no copies adds nothing.
LEMMA NothingAdded ==
  ASSUME NEW x, IsSeq(x), NEW b
  PROVE  x \o Copies(b, 0) = x /\ Copies(b, 0) \o x = x
<1> DEFINE r == Copies(b, 0)
<1>1. IsSeq(r) /\ Len(r) = 0
  BY CopiesAre
<1> HIDE DEF r
<1>2. r = <<>>
  BY <1>1, NothingIs
<1>3. x \o <<>> = x /\ <<>> \o x = x
  BY ConcatEmptySeq DEF IsSeq
<1> QED BY <1>2, <1>3 DEF r

\* With a step of one, nothing has to be added on the right.
LEMMA NoStepToFill ==
  ASSUME NEW n \in Nat \ {0}, NEW k \in Nat \ {0}
  PROVE  ExtraPadding(n, k, 1) = 0
<1>1. PICK m \in Nat \ {0} : n + ExtraPadding(n, k, 1) = m * 1 /\ (m - 1) * 1 < n /\ n <= m * 1
  BY PaddingFills
<1>2. ExtraPadding(n, k, 1) \in Nat
  BY PaddingFills
<1> QED BY <1>1, <1>2

\* A causal convolution,
LEMMA CausalReaches ==
  ASSUME NEW P \in Nat \ {0}, NEW n \in Nat \ {0}, NEW s \in Nat \ {0}, NEW k \in Nat, k >= s,
         NEW x, Reaches(x, P, n)
  PROVE  Reaches(CausalForward(k, s, x), s * P, n)
<1> DEFINE y == CausalForward(k, s, x)
<1>1. IsSeq(x) /\ Len(x) >= 1
  BY DEF Reaches
<1>2. y = Strided(k, s, Filled(k, s, {}, x, {}))
  BY DEF CausalForward, Filled, Widened
<1>3. Windows(Strided(k, s, Filled(k, s, {}, x, {})), s, {}, x, {})
  BY <1>1, WindowsAre
<1> HIDE DEF y
<1>4. Windows(y, s, {}, x, {})
  BY <1>2, <1>3
<1>5. \A q \in {} : q \in 1..n /\ q <= P
  OBVIOUS
<1>6. \A q \in {} : q \in 1..n
  OBVIOUS
<1>7. Reaches(y, s * P, n)
  BY <1>4, <1>5, <1>6, StepsMultiply
<1> QED BY <1>7 DEF y

\* a block, that adds what it makes to what it was given,
LEMMA BlockReaches ==
  ASSUME NEW P \in Nat \ {0}, NEW n \in Nat \ {0}, NEW x, Reaches(x, P, n)
  PROVE  Reaches(ResBlockForward(x), P, n)
<1> DEFINE three == Strided(3, 1, Copies({}, 2) \o x)
           hidden == Strided(1, 1, three)
           y == ResBlockForward(x)
<1>0. 1 * P = P
  OBVIOUS
<1>1. IsSeq(x) /\ Len(x) >= 1 /\ Len(x) \in Nat \ {0}
  BY SeqIsTable DEF Reaches
<1>2. Reaches(three, P, n)
  <2>1. ExtraPadding(Len(x), 3, 1) = 0
    BY <1>1, NoStepToFill
  <2>2. IsSeq(Copies({}, 2) \o x)
    BY <1>1, CopiesAre, Joins2
  <2>3. CausalForward(3, 1, x) = three
    <3>1. CausalForward(3, 1, x) = Strided(3, 1, Copies({}, 3 - 1) \o x \o Copies({}, 0))
      BY <2>1 DEF CausalForward
    <3>2. 3 - 1 = 2
      OBVIOUS
    <3>3. (Copies({}, 2) \o x) \o Copies({}, 0) = Copies({}, 2) \o x
      BY <2>2, NothingAdded
    <3> QED BY <3>1, <3>2, <3>3
  <2>4. Reaches(CausalForward(3, 1, x), 1 * P, n)
    BY CausalReaches
  <2> HIDE DEF three
  <2> QED BY <1>0, <2>3, <2>4
<1> HIDE DEF three
<1>3. IsSeq(three) /\ Len(three) >= 1 /\ Len(three) \in Nat \ {0}
  BY <1>2, SeqIsTable DEF Reaches
<1>4. Reaches(hidden, P, n)
  <2>1. ExtraPadding(Len(three), 1, 1) = 0
    BY <1>3, NoStepToFill
  <2>2. CausalForward(1, 1, three) = hidden
    <3>1. CausalForward(1, 1, three)
            = Strided(1, 1, Copies({}, 1 - 1) \o three \o Copies({}, 0))
      BY <2>1 DEF CausalForward
    <3>2. 1 - 1 = 0
      OBVIOUS
    <3>3. Copies({}, 0) \o three = three /\ three \o Copies({}, 0) = three
      BY <1>3, NothingAdded
    <3> QED BY <3>1, <3>2, <3>3
  <2>3. Reaches(CausalForward(1, 1, three), 1 * P, n)
    BY <1>2, CausalReaches
  <2> HIDE DEF hidden
  <2> QED BY <1>0, <2>2, <2>3
<1>5. y = [i \in DOMAIN x |-> x[i] \cup hidden[i]]
  BY DEF ResBlockForward, three
<1> HIDE DEF hidden
<1> DEFINE N == Len(x)
<1>6. N \in Nat /\ N >= 1 /\ DOMAIN x = 1..N /\ (N - 1) * P < n /\ n <= N * P
  BY SeqIsTable DEF Reaches
<1>7. Len(hidden) = N
  <2> DEFINE M == Len(hidden)
  <2>1. M \in Nat /\ M >= 1 /\ (M - 1) * P < n /\ n <= M * P
    BY <1>4, SeqIsTable DEF Reaches
  <2> HIDE DEF M, N
  <2>2. (M - 1) * P < N * P /\ (N - 1) * P < M * P
    <3>1. (M - 1) * P \in Int /\ N * P \in Int /\ (N - 1) * P \in Int /\ M * P \in Int
      BY <1>6, <2>1
    <3> QED BY <1>6, <2>1, <3>1
  <2>3. M - 1 < N /\ N - 1 < M
    BY <1>6, <2>1, <2>2, StepsApart
  <2>4. M = N
    BY <1>6, <2>1, <2>3
  <2> QED BY <2>4 DEF M
<1>8. y = [i \in 1..N |-> y[i]] /\ \A i \in 1..N : y[i] = x[i] \cup hidden[i]
  BY <1>5, <1>6
<1> HIDE DEF y
<1>9. IsSeq(y) /\ Len(y) = N
  BY <1>6, <1>8, TableIsSeq
<1>10. ASSUME NEW t \in 1..N
       PROVE  /\ \A q \in y[t] : q \in 1..n /\ q <= t * P
              /\ \A q \in 1..n : (t - 1) * P < q /\ q <= t * P => q \in y[t]
  <2>1. /\ \A q \in x[t] : q \in 1..n /\ q <= t * P
        /\ \A q \in 1..n : (t - 1) * P < q /\ q <= t * P => q \in x[t]
    BY DEF Reaches
  <2>2. \A q \in hidden[t] : q \in 1..n /\ q <= t * P
    BY <1>4, <1>7 DEF Reaches
  <2> QED BY <1>8, <2>1, <2>2
<1>11. Reaches(y, P, n)
  BY <1>6, <1>9, <1>10 DEF Reaches
<1> QED BY <1>11 DEF y

\* the transformer, behind which nothing that came before is lost,
LEMMA TransformerReaches ==
  ASSUME NEW P \in Nat \ {0}, NEW n \in Nat \ {0}, NEW x, Reaches(x, P, n)
  PROVE  ReachesAll(TransformerEncoder(x), P, n)
<1> DEFINE y == TransformerEncoder(x)
           N == Len(x)
<1>1. N \in Nat /\ N >= 1 /\ DOMAIN x = 1..N /\ (N - 1) * P < n /\ n <= N * P
  BY SeqIsTable DEF Reaches
<1>2. y = [i \in 1..N |-> UNION {x[j] : j \in 1..i}]
  BY <1>1 DEF TransformerEncoder
<1>3. y = [i \in 1..N |-> y[i]] /\ \A i \in 1..N : y[i] = UNION {x[j] : j \in 1..i}
  BY <1>2
<1> HIDE DEF y
<1>4. IsSeq(y) /\ Len(y) = N
  BY <1>1, <1>3, TableIsSeq
<1>5. /\ \A t \in 1..N : \A q \in x[t] : q \in 1..n /\ q <= t * P
      /\ \A t \in 1..N : \A q \in 1..n : (t - 1) * P < q /\ q <= t * P => q \in x[t]
  BY DEF Reaches
<1> HIDE DEF N
<1>6. ASSUME NEW t \in 1..N, NEW q \in y[t] PROVE q \in 1..n /\ q <= t * P
  <2>1. PICK j \in 1..t : q \in x[j]
    BY <1>3
  <2>2. q \in 1..n /\ q <= j * P
    BY <1>1, <1>5, <2>1
  <2>3. j * P <= t * P /\ j * P \in Int /\ t * P \in Int
    BY TimesKeepsOrder
  <2> QED BY <2>2, <2>3
<1>7. ASSUME NEW t \in 1..N, NEW q \in 1..n, q <= t * P PROVE q \in y[t]
  <2>1. PICK i \in 1..N : (i - 1) * P < q /\ q <= i * P
    BY <1>1, PlaceIsInStep
  <2>2. (i - 1) * P < t * P
    <3>1. (i - 1) * P \in Int /\ t * P \in Int
      OBVIOUS
    <3> QED BY <1>7, <2>1, <3>1
  <2>3. i - 1 < t
    BY <2>2, StepsApart
  <2>4. i \in 1..t /\ q \in x[i]
    BY <1>1, <1>5, <2>1, <2>3
  <2> QED BY <1>3, <2>4
<1>8. ReachesAll(y, P, n)
  BY <1>1, <1>4, <1>6, <1>7 DEF ReachesAll, Reaches
<1> QED BY <1>8 DEF y

\* and the last convolution, that repeats what is at the ends.
LEMMA DownsampleReaches ==
  ASSUME NEW P \in Nat \ {0}, NEW n \in Nat \ {0}, NEW x, ReachesAll(x, P, n)
  PROVE  ReachesAll(Downsample(x), DOWNSAMPLE[2] * P, n)
<1> DEFINE k == DOWNSAMPLE[1]
           s == DOWNSAMPLE[2]
           a == x[1]
           b == x[Len(x)]
           y == Downsample(x)
<1>1. k \in Nat /\ s \in Nat \ {0} /\ k >= s
  BY EncoderAssumption
<1>2. IsSeq(x) /\ Len(x) >= 1 /\ Len(x) \in Nat \ {0}
  BY SeqIsTable DEF Reaches, ReachesAll
<1>3. y = Strided(k, s, Filled(k, s, a, x, b))
  BY DEF Downsample, Filled, Widened
<1>4. \A q \in a : q \in 1..n /\ q <= P
  <2>1. \A q \in a : q \in 1..n /\ q <= 1 * P
    BY <1>2 DEF Reaches, ReachesAll
  <2> QED BY <2>1
<1>5. \A q \in b : q \in 1..n
  BY <1>2 DEF Reaches, ReachesAll
<1> HIDE DEF k, s, a, b, y
<1>6. Windows(Strided(k, s, Filled(k, s, a, x, b)), s, a, x, b)
  BY <1>1, <1>2, WindowsAre
<1>7. Windows(y, s, a, x, b)
  BY <1>3, <1>6
<1>8. ReachesAll(y, s * P, n)
  BY <1>1, <1>4, <1>5, <1>7, AllIsKept
<1> QED BY <1>8 DEF y, s
-----------------------------------------------------------------------------
(***************************************************************************)
(* The encoder as a whole: no sample of the reference is lost.             *)
(***************************************************************************)
\* One layer after another, and the samples that it steps over.
LayerAfter(i, x) == CausalForward(2 * STRIDES[i], STRIDES[i], ResBlockForward(x))
IsAfter(g, x, n) ==
  g = [i \in 0..n |-> IF i = 0 THEN CausalForward(7, 1, x) ELSE LayerAfter(i, g[i - 1])]
IsProduct(g, n) == g = [i \in 0..n |-> IF i = 0 THEN 1 ELSE STRIDES[i] * g[i - 1]]

\* The layers follow one another to the n-th,
LEMMA LayersFollow ==
  ASSUME NEW x, NEW n \in Nat
  PROVE  \E g : IsAfter(g, x, n)
<1> DEFINE P == {k \in 0..n : \E g : IsAfter(g, x, k)}
<1>1. 0 \in P
  <2> DEFINE g == [i \in 0..0 |-> CausalForward(7, 1, x)]
  <2>1. IsAfter(g, x, 0)
    BY DEF IsAfter
  <2> QED BY <2>1
<1>2. ASSUME NEW k \in 0..(n - 1), k \in P PROVE k + 1 \in P
  <2>1. PICK g : IsAfter(g, x, k)
    BY <1>2
  <2> DEFINE h == [i \in 0..k + 1 |-> IF i = k + 1 THEN LayerAfter(k + 1, g[k]) ELSE g[i]]
  <2>2. \A i \in 0..k : h[i] = g[i]
    OBVIOUS
  <2>3. h = [i \in 0..k + 1 |-> IF i = 0 THEN CausalForward(7, 1, x) ELSE LayerAfter(i, h[i - 1])]
    <3>1. ASSUME NEW i \in 0..k + 1
          PROVE  h[i] = IF i = 0 THEN CausalForward(7, 1, x) ELSE LayerAfter(i, h[i - 1])
      <4>1. CASE i = k + 1
        <5>1. i # 0 /\ i - 1 = k /\ h[i - 1] = g[k]
          BY <4>1
        <5> QED BY <4>1, <5>1
      <4>2. CASE i # k + 1
        <5>1. i \in 0..k /\ h[i] = g[i] /\ (i # 0 => i - 1 \in 0..k /\ h[i - 1] = g[i - 1])
          BY <4>2
        <5> HIDE DEF h
        <5>2. g[i] = IF i = 0 THEN CausalForward(7, 1, x) ELSE LayerAfter(i, g[i - 1])
          BY <2>1, <5>1 DEF IsAfter
        <5> QED BY <5>1, <5>2
      <4> QED BY <4>1, <4>2
    <3>2. h = [i \in 0..k + 1 |-> h[i]]
      OBVIOUS
    <3> HIDE DEF h
    <3> QED BY <3>1, <3>2
  <2> HIDE DEF h
  <2>4. IsAfter(h, x, k + 1)
    BY <2>3 DEF IsAfter
  <2>5. k + 1 \in 0..n
    OBVIOUS
  <2> QED BY <2>4, <2>5
<1> HIDE DEF P
<1>3. n \in P
  BY <1>1, <1>2, Reached
<1> QED BY <1>3 DEF P

\* and so do the products of the strides.
LEMMA ProductsFollow ==
  ASSUME NEW n \in Nat
  PROVE  \E g : IsProduct(g, n)
<1> DEFINE P == {k \in 0..n : \E g : IsProduct(g, k)}
<1>1. 0 \in P
  <2> DEFINE g == [i \in 0..0 |-> 1]
  <2>1. IsProduct(g, 0)
    BY DEF IsProduct
  <2> QED BY <2>1
<1>2. ASSUME NEW k \in 0..(n - 1), k \in P PROVE k + 1 \in P
  <2>1. PICK g : IsProduct(g, k)
    BY <1>2
  <2> DEFINE h == [i \in 0..k + 1 |-> IF i = k + 1 THEN STRIDES[k + 1] * g[k] ELSE g[i]]
  <2>2. \A i \in 0..k : h[i] = g[i]
    OBVIOUS
  <2>3. h = [i \in 0..k + 1 |-> IF i = 0 THEN 1 ELSE STRIDES[i] * h[i - 1]]
    <3>1. ASSUME NEW i \in 0..k + 1
          PROVE  h[i] = IF i = 0 THEN 1 ELSE STRIDES[i] * h[i - 1]
      <4>1. CASE i = k + 1
        <5>1. i # 0 /\ i - 1 = k /\ h[i - 1] = g[k] /\ h[i] = STRIDES[k + 1] * g[k]
          BY <4>1
        <5> HIDE DEF h
        <5> QED BY <4>1, <5>1
      <4>2. CASE i # k + 1
        <5>1. i \in 0..k /\ h[i] = g[i] /\ (i # 0 => i - 1 \in 0..k /\ h[i - 1] = g[i - 1])
          BY <4>2
        <5> HIDE DEF h
        <5>2. g[i] = IF i = 0 THEN 1 ELSE STRIDES[i] * g[i - 1]
          BY <2>1, <5>1 DEF IsProduct
        <5> QED BY <5>1, <5>2
      <4> QED BY <4>1, <4>2
    <3>2. h = [i \in 0..k + 1 |-> h[i]]
      OBVIOUS
    <3> HIDE DEF h
    <3> QED BY <3>1, <3>2
  <2> HIDE DEF h
  <2>4. IsProduct(h, k + 1)
    BY <2>3 DEF IsProduct
  <2>5. k + 1 \in 0..n
    OBVIOUS
  <2> QED BY <2>4, <2>5
<1> HIDE DEF P
<1>3. n \in P
  BY <1>1, <1>2, Reached
<1> QED BY <1>3 DEF P

\* Of a recording, a sample is itself.
Recording(n) == [i \in 1..n |-> {i}]

\* so before the first layer each step is one sample.
LEMMA RecordingReaches ==
  ASSUME NEW n \in Nat \ {0}
  PROVE  Reaches(Recording(n), 1, n)
<1> DEFINE x == Recording(n)
<1>1. x = [i \in 1..n |-> x[i]] /\ \A i \in 1..n : x[i] = {i}
  BY DEF Recording
<1> HIDE DEF x
<1>2. IsSeq(x) /\ Len(x) = n
  BY <1>1, TableIsSeq
<1>3. ASSUME NEW t \in 1..n
      PROVE  /\ \A q \in x[t] : q \in 1..n /\ q <= t * 1
             /\ \A q \in 1..n : (t - 1) * 1 < q /\ q <= t * 1 => q \in x[t]
  <2>1. x[t] = {t} /\ t * 1 = t /\ (t - 1) * 1 = t - 1
    BY <1>1
  <2> QED BY <2>1
<1>4. Len(x) >= 1 /\ (Len(x) - 1) * 1 < n /\ n <= Len(x) * 1
  BY <1>2
<1>5. Reaches(x, 1, n)
  BY <1>2, <1>3, <1>4 DEF Reaches
<1> QED BY <1>5 DEF x

\* Samples that the convolutions of the encoder step over, all together.
Steps == LET product[i \in 0..Len(STRIDES)] == IF i = 0 THEN 1 ELSE STRIDES[i] * product[i - 1]
         IN  product[Len(STRIDES)]

\* With those of the last convolution they are what a frame stands for.
LEMMA StepsIsProduct ==
  /\ HOP = Steps * DOWNSAMPLE[2]
  /\ \E g : IsProduct(g, Len(STRIDES)) /\ Steps = g[Len(STRIDES)]
<1> DEFINE g == CHOOSE g : IsProduct(g, Len(STRIDES))
<1>1. IsProduct(g, Len(STRIDES))
  <2>1. Len(STRIDES) \in Nat
    BY EncoderAssumption
  <2> QED BY <2>1, ProductsFollow
<1>2. Steps = g[Len(STRIDES)]
  BY DEF Steps, IsProduct
<1>3. HOP = Steps * DOWNSAMPLE[2]
  BY DEF HOP, Steps
<1> QED BY <1>1, <1>2, <1>3

\* The convolutions, one after another.
LEMMA EncoderReaches ==
  ASSUME NEW n \in Nat \ {0}, NEW x, Reaches(x, 1, n)
  PROVE  Steps \in Nat \ {0} /\ Reaches(ConvEncoder(x), Steps, n)
<1> DEFINE m == Len(STRIDES)
           g == CHOOSE g : IsAfter(g, x, m)
<1>1. /\ m \in Nat
      /\ \A i \in 1..m : /\ STRIDES[i] \in Nat \ {0} /\ 2 * STRIDES[i] \in Nat
                         /\ 2 * STRIDES[i] >= STRIDES[i]
  BY EncoderAssumption
<1>2. IsAfter(g, x, m)
  BY <1>1, LayersFollow
<1>3. ConvEncoder(x) = CausalForward(3, 1, g[m])
  BY DEF ConvEncoder, IsAfter, LayerAfter
<1>4. PICK h : IsProduct(h, m) /\ Steps = h[m]
  BY StepsIsProduct
<1> HIDE DEF g, m
<1>5. /\ g[0] = CausalForward(7, 1, x)
      /\ \A i \in 1..m : g[i] = LayerAfter(i, g[i - 1])
  BY <1>1, <1>2 DEF IsAfter
<1>6. h[0] = 1 /\ \A i \in 1..m : h[i] = STRIDES[i] * h[i - 1]
  BY <1>1, <1>4 DEF IsProduct
<1> DEFINE P == {i \in 0..m : h[i] \in Nat \ {0} /\ Reaches(g[i], h[i], n)}
<1>7. 0 \in P
  <2>1. Reaches(CausalForward(7, 1, x), 1 * 1, n)
    BY CausalReaches
  <2>2. 1 * 1 = 1
    OBVIOUS
  <2> QED BY <1>1, <1>5, <1>6, <2>1, <2>2
<1>8. ASSUME NEW i \in 0..(m - 1), i \in P PROVE i + 1 \in P
  <2>1. i + 1 \in 1..m /\ (i + 1) - 1 = i
    BY <1>1
  <2>2. g[i + 1] = LayerAfter(i + 1, g[i]) /\ h[i + 1] = STRIDES[i + 1] * h[i]
    BY <1>5, <1>6, <2>1
  <2>3. h[i] \in Nat \ {0} /\ Reaches(g[i], h[i], n)
    BY <1>8
  <2>4. /\ STRIDES[i + 1] \in Nat \ {0} /\ 2 * STRIDES[i + 1] \in Nat
        /\ 2 * STRIDES[i + 1] >= STRIDES[i + 1]
    BY <1>1, <2>1
  <2>5. Reaches(ResBlockForward(g[i]), h[i], n)
    BY <2>3, BlockReaches
  <2>6. Reaches(LayerAfter(i + 1, g[i]), STRIDES[i + 1] * h[i], n)
    BY <2>3, <2>4, <2>5, CausalReaches DEF LayerAfter
  <2>7. STRIDES[i + 1] * h[i] \in Nat \ {0}
    BY <2>3, <2>4
  <2>8. i + 1 \in 0..m
    BY <2>1
  <2> QED BY <2>2, <2>6, <2>7, <2>8
<1> HIDE DEF P
<1>9. m \in P
  <2>1. m \in Nat
    BY <1>1
  <2>2. \A i \in 0..(m - 1) : i \in P => i + 1 \in P
    BY <1>8
  <2> QED BY ONLY <1>7, <2>1, <2>2, Reached
<1>10. h[m] \in Nat \ {0} /\ Reaches(g[m], h[m], n)
  BY <1>9 DEF P
<1>11. Reaches(CausalForward(3, 1, g[m]), 1 * h[m], n)
  <2> DEFINE p == h[m]
             z == g[m]
  <2>1. p \in Nat \ {0} /\ Reaches(z, p, n)
    BY <1>10
  <2> HIDE DEF p, z
  <2>2. Reaches(CausalForward(3, 1, z), 1 * p, n)
    BY <2>1, CausalReaches
  <2> QED BY <2>2 DEF p, z
<1>12. 1 * h[m] = h[m]
  BY <1>10
<1> QED BY <1>3, <1>4, <1>10, <1>11, <1>12

\* The codes of a frame are of the place that they are taken from.
LEMMA CodesAreOf ==
  ASSUME NEW y, IsSeq(y)
  PROVE  /\ IsSeq(Quantize(y)) /\ Len(Quantize(y)) = Len(y)
         /\ \A t \in 1..Len(y) : \A q \in 1..16 : Quantize(y)[t][q].of = y[t]
<1> DEFINE N == Len(y)
           z == Quantize(y)
           Codes1(t) == [level \in 1..1 |-> [of |-> y[t], less |-> level - 1]]
           Codes15(t) == [level \in 1..15 |-> [of |-> y[t], less |-> level - 1]]
<1>1. N \in Nat /\ DOMAIN y = 1..N
  BY SeqIsTable
<1>2. z = [t \in 1..N |-> Codes1(t) \o Codes15(t)]
  BY <1>1 DEF Quantize, RvqEncode
<1>3. z = [t \in 1..N |-> z[t]] /\ \A t \in 1..N : z[t] = Codes1(t) \o Codes15(t)
  BY <1>2
<1> HIDE DEF z
<1>4. IsSeq(z) /\ Len(z) = N
  BY <1>1, <1>3, TableIsSeq
<1>5. ASSUME NEW t \in 1..N, NEW q \in 1..16 PROVE z[t][q].of = y[t]
  <2> DEFINE a == Codes1(t)
             b == Codes15(t)
  <2>1. a = [i \in 1..1 |-> a[i]] /\ \A i \in 1..1 : a[i].of = y[t]
    OBVIOUS
  <2>2. b = [i \in 1..15 |-> b[i]] /\ \A i \in 1..15 : b[i].of = y[t]
    OBVIOUS
  <2>3. z[t] = a \o b
    BY <1>3
  <2> HIDE DEF a, b
  <2>4. IsSeq(a) /\ Len(a) = 1 /\ IsSeq(b) /\ Len(b) = 15
    BY <2>1, <2>2, TableIsSeq
  <2> DEFINE c == a \o b
  <2>5. IsJoined(c, a, b)
    BY ONLY <2>4, JoinedIs DEF c
  <2> HIDE DEF c
  <2>6. c[q] = IF q <= 1 THEN a[q] ELSE b[q - 1]
    <3>1. q \in 1..Len(a) + Len(b) /\ Len(a) = 1
      BY <2>4
    <3> QED BY ONLY <2>5, <3>1 DEF IsJoined
  <2>7. c[q].of = y[t]
    <3>1. CASE q <= 1
      <4>1. q \in 1..1
        BY <3>1
      <4> QED BY <2>1, <2>6, <3>1, <4>1
    <3>2. CASE q > 1
      <4>1. q - 1 \in 1..15
        BY <3>2
      <4> QED BY <2>2, <2>6, <3>2, <4>1
    <3> QED BY <3>1, <3>2
  <2> QED BY <2>3, <2>7 DEF c
<1> QED BY <1>4, <1>5 DEF z

\* No sample of the reference is lost, however long it is.
LEMMA ReferenceHeard == ReferenceIsHeard
<1> SUFFICES ASSUME NEW n \in 1..MaxRecordingLength
             PROVE  LET frames == Encode([i \in 1..n |-> {i}])
                    IN  /\ Len(frames) = (n + HOP - 1) \div HOP
                        /\ \A t \in DOMAIN frames : \A q \in 1..16 :
                             frames[t][q].of = 1..(IF t * HOP < n THEN t * HOP ELSE n)
  BY DEF ReferenceIsHeard
<1> DEFINE x == Recording(n)
           y == Downsample(TransformerEncoder(ConvEncoder(x)))
           frames == Quantize(y)
           s == DOWNSAMPLE[2]
           N == Len(y)
<1>0. n \in Nat \ {0}
  BY EncoderAssumption
<1>1. Reaches(x, 1, n)
  BY <1>0, RecordingReaches
<1> HIDE DEF x
<1>2. Steps \in Nat \ {0} /\ Reaches(ConvEncoder(x), Steps, n)
  BY <1>0, <1>1, EncoderReaches
<1>3. ReachesAll(TransformerEncoder(ConvEncoder(x)), Steps, n)
  BY <1>0, <1>2, TransformerReaches
<1>4. ReachesAll(y, s * Steps, n)
  BY <1>0, <1>2, <1>3, DownsampleReaches
<1> HIDE DEF y
<1>5. HOP = s * Steps /\ HOP \in Nat \ {0}
  <2>1. HOP = Steps * s
    BY StepsIsProduct
  <2>2. s \in Nat \ {0}
    BY EncoderAssumption
  <2> HIDE DEF s
  <2> QED BY <1>2, <2>1, <2>2
<1> HIDE DEF s
<1>6. ReachesAll(y, HOP, n)
  BY <1>4, <1>5
<1>7. IsSeq(y) /\ N \in Nat /\ N >= 1 /\ (N - 1) * HOP < n /\ n <= N * HOP
  BY <1>6, SeqIsTable DEF ReachesAll, Reaches
<1>8. IsSeq(frames) /\ Len(frames) = N /\ \A t \in 1..N : \A q \in 1..16 : frames[t][q].of = y[t]
  BY <1>7, CodesAreOf
<1>9. DOMAIN frames = 1..N
  BY <1>8, SeqIsTable
<1> HIDE DEF frames, N
<1>10. N = (n + HOP - 1) \div HOP
  <2> DEFINE d == (n + HOP - 1) \div HOP
  <2>1. d \in Int /\ d * HOP <= n + HOP - 1 /\ n + HOP - 1 < d * HOP + HOP
    BY <1>0, <1>5
  <2> HIDE DEF d
  <2>2. /\ N * HOP \in Int /\ d * HOP \in Int /\ (N - 1) * HOP = N * HOP - HOP
        /\ (d + 1) * HOP = d * HOP + HOP /\ (N + 1) * HOP = N * HOP + HOP
    BY <1>5, <1>7, <2>1
  <2>3. N * HOP < (d + 1) * HOP /\ d * HOP < (N + 1) * HOP
    BY <1>0, <1>5, <1>7, <2>1, <2>2
  <2>4. N < d + 1 /\ d < N + 1
    BY <1>5, <1>7, <2>1, <2>3, StepsApart
  <2>5. N = d
    BY <1>7, <2>1, <2>4
  <2> QED BY <2>5 DEF d
<1>11. ASSUME NEW t \in 1..N PROVE y[t] = 1..(IF t * HOP < n THEN t * HOP ELSE n)
  <2>1. t * HOP \in Int
    BY <1>5
  <2>2. /\ \A q \in y[t] : q \in 1..n /\ q <= t * HOP
        /\ \A q \in 1..n : q <= t * HOP => q \in y[t]
    BY <1>6 DEF ReachesAll, Reaches, N
  <2> DEFINE v == y[t]
             e == t * HOP
             l == IF e < n THEN e ELSE n
  <2>3. e \in Int /\ (\A q \in v : q \in 1..n /\ q <= e) /\ \A q \in 1..n : q <= e => q \in v
    BY <2>1, <2>2
  <2> HIDE DEF v, e
  <2>4. l \in Int /\ l <= n /\ l <= e /\ \A q \in 1..n : q <= e => q <= l
    BY <1>0, <2>3
  <2> HIDE DEF l
  <2>5. v \subseteq 1..l
    BY <1>0, <2>3, <2>4
  <2>6. 1..l \subseteq v
    BY <1>0, <2>3, <2>4
  <2>7. v = 1..l
    BY <2>5, <2>6
  <2> QED BY <2>7 DEF v, e, l
<1>12. Encode([i \in 1..n |-> {i}]) = frames
  BY DEF Encode, frames, y, x, Recording
<1>13. Len(frames) = (n + HOP - 1) \div HOP
  BY <1>8, <1>10
<1>14. ASSUME NEW t \in DOMAIN frames, NEW q \in 1..16
       PROVE  frames[t][q].of = 1..(IF t * HOP < n THEN t * HOP ELSE n)
  <2>1. t \in 1..N
    BY <1>9
  <2>2. frames[t][q].of = y[t]
    BY <1>8, <2>1
  <2> QED BY <1>11, <2>1, <2>2
<1> QED BY <1>12, <1>13, <1>14
-----------------------------------------------------------------------------
(***************************************************************************)
(* The shape of what is fed: words over frames.                            *)
(***************************************************************************)
\* Of the positions from f on, the words and nothing more to say; from b on, behind
\* codec_bos, the frames.
Shaped(p, f, words, b, frames) ==
  /\ IsSeq(p) /\ IsSeq(words) /\ IsSeq(frames)
  /\ f \in 1..Len(p) /\ p[f].text = Bos /\ \A k \in 1..f - 1 : p[k].text # Bos
  /\ f + Len(words) - 1 <= Len(p)
  /\ \A i \in f..Len(p) : IF i < f + Len(words)
                          THEN Speaks(p[i]) /\ p[i].text = words[i - f + 1]
                          ELSE ~Speaks(p[i])
  /\ b \in 1..Len(p) /\ p[b].codec = CodecBos /\ \A k \in 1..b - 1 : p[k].codec # CodecBos
  /\ b + Len(frames) = Len(p) /\ \A i \in 1..Len(frames) : p[b + i].codec = frames[i]

\* A name is found where it is first.
LEMMA FirstIs ==
  ASSUME NEW s, IsSeq(s), NEW f \in 1..Len(s), NEW name,
         s[f] = name, \A k \in 1..f - 1 : s[k] # name
  PROVE  First(s, name) = f
<1>1. DOMAIN s = 1..Len(s) /\ Len(s) \in Nat
  BY SeqIsTable
<1> DEFINE IsFirst(i) == s[i] = name /\ \A k \in 1..(i - 1) : s[k] # name
<1>2. First(s, name) = CHOOSE i \in 1..Len(s) : IsFirst(i)
  BY <1>1 DEF First
<1>3. IsFirst(f)
  OBVIOUS
<1>4. ASSUME NEW i \in 1..Len(s), IsFirst(i) PROVE i = f
  <2>1. CASE i < f
    <3>1. i \in 1..f - 1
      BY <1>1, <2>1
    <3> QED BY <1>3, <1>4, <3>1
  <2>2. CASE f < i
    <3>1. f \in 1..(i - 1)
      BY <1>1, <2>2
    <3> QED BY <1>3, <1>4, <3>1
  <2> QED BY <1>1, <2>1, <2>2
<1> HIDE DEF IsFirst
<1> QED BY <1>2, <1>3, <1>4

\* What has the shape says the words once.
LEMMA ShapedIsSpoken ==
  ASSUME NEW p, NEW f, NEW words, NEW b, NEW frames, Shaped(p, f, words, b, frames),
         NEW text, NEW n, words = SubSeq(<<Bos>> \o text \o <<Eos>>, 1, n)
  PROVE  SpokenOnce(p, text, n, frames)
<1> DEFINE texts == Texts(p)
           codecs == Codecs(p)
           N == Len(p)
<1>1. IsSeq(p) /\ IsSeq(frames) /\ N \in Nat /\ DOMAIN p = 1..N
  BY SeqIsTable DEF Shaped
<1>2. IsSeq(texts) /\ Len(texts) = N /\ \A i \in 1..N : texts[i] = p[i].text
  <2>1. texts = [i \in 1..N |-> texts[i]] /\ \A i \in 1..N : texts[i] = p[i].text
    BY <1>1 DEF Texts
  <2> HIDE DEF texts
  <2> QED BY <1>1, <2>1, TableIsSeq
<1>3. IsSeq(codecs) /\ Len(codecs) = N /\ \A i \in 1..N : codecs[i] = p[i].codec
  <2>1. codecs = [i \in 1..N |-> codecs[i]] /\ \A i \in 1..N : codecs[i] = p[i].codec
    BY <1>1 DEF Codecs
  <2> HIDE DEF codecs
  <2> QED BY <1>1, <2>1, TableIsSeq
<1> HIDE DEF texts, codecs
<1>4. f \in 1..N /\ b \in 1..N /\ b + Len(frames) = N /\ Len(frames) \in Nat
  BY <1>1, SeqIsTable DEF Shaped
<1>5. First(texts, Bos) = f
  <2>1. texts[f] = Bos
    BY <1>2, <1>4 DEF Shaped
  <2>2. \A k \in 1..f - 1 : texts[k] # Bos
    <3>1. \A k \in 1..f - 1 : k \in 1..N
      BY <1>1, <1>4
    <3> QED BY <1>2, <3>1 DEF Shaped
  <2> QED BY <1>2, <1>4, <2>1, <2>2, FirstIs
<1>6. First(codecs, CodecBos) = b
  <2>1. codecs[b] = CodecBos
    BY <1>3, <1>4 DEF Shaped
  <2>2. \A k \in 1..b - 1 : codecs[k] # CodecBos
    <3>1. \A k \in 1..b - 1 : k \in 1..N
      BY <1>1, <1>4
    <3> QED BY <1>3, <3>1 DEF Shaped
  <2> QED BY <1>3, <1>4, <2>1, <2>2, FirstIs
<1>7. SubSeq(codecs, b + 1, N) = frames
  <2> DEFINE t == SubSeq(codecs, b + 1, N)
  <2>1. b + 1 \in Nat /\ N \in Int /\ b + 1 >= 1 /\ N >= (b + 1) - 1 /\ N <= Len(codecs)
    BY <1>1, <1>3, <1>4
  <2>2. /\ IsSeq(t) /\ Len(t) = N - (b + 1) + 1
        /\ \A i \in 1..(N - (b + 1) + 1) : t[i] = codecs[b + 1 + i - 1]
    BY <1>3, <2>1, Sub
  <2> HIDE DEF t
  <2>3. N - (b + 1) + 1 = Len(frames)
    <3> HIDE DEF N
    <3>1. N \in Nat /\ b \in Nat /\ Len(frames) \in Nat /\ b + Len(frames) = N
      BY <1>1, <1>4
    <3> QED BY ONLY <3>1
  <2>4. Len(t) = Len(frames)
    BY <2>2, <2>3
  <2>5. ASSUME NEW i \in 1..Len(t) PROVE t[i] = frames[i]
    <3>1. i \in 1..(N - (b + 1) + 1) /\ b + 1 + i - 1 = b + i /\ b + i \in 1..N
      BY <1>1, <1>4, <2>3, <2>4
    <3>2. t[i] = codecs[b + i]
      BY <2>2, <3>1
    <3>3. codecs[b + i] = p[b + i].codec
      BY <1>3, <3>1
    <3>4. p[b + i].codec = frames[i]
      BY <2>4 DEF Shaped
    <3> QED BY <3>2, <3>3, <3>4
  <2>6. t = frames
    BY <1>1, <2>2, <2>4, <2>5, SameSeq
  <2> QED BY <2>6 DEF t
<1>8. /\ f + Len(words) - 1 <= Len(p)
      /\ \A i \in f..Len(p) : IF i < f + Len(words)
                              THEN Speaks(p[i]) /\ p[i].text = words[i - f + 1]
                              ELSE ~Speaks(p[i])
  BY DEF Shaped
<1> QED BY <1>5, <1>6, <1>7, <1>8 DEF SpokenOnce, texts, codecs

\* Before tts_bos and codec_bos are positions with neither.
IsFront(front) ==
  IsSeq(front) /\ \A i \in 1..Len(front) : front[i].text # Bos /\ front[i].codec # CodecBos

Laid(words, frames) == Over(words, CodecPad) \o Under(Pad, <<CodecBos>> \o frames)

Words(words) == /\ IsSeq(words) /\ Len(words) >= 1 /\ words[1] = Bos
                /\ \A i \in 1..Len(words) : words[i] # Pad

\* Tables of positions.
LEMMA OverIs ==
  ASSUME NEW texts, IsSeq(texts), NEW c
  PROVE  /\ IsSeq(Over(texts, c)) /\ Len(Over(texts, c)) = Len(texts)
         /\ \A i \in 1..Len(texts) : Over(texts, c)[i] = Position(texts[i], c)
<1> DEFINE t == Over(texts, c)
<1>1. Len(texts) \in Nat /\ DOMAIN texts = 1..Len(texts)
  BY SeqIsTable
<1>2. t = [i \in 1..Len(texts) |-> t[i]] /\ \A i \in 1..Len(texts) : t[i] = Position(texts[i], c)
  BY <1>1 DEF Over
<1> HIDE DEF t
<1>3. IsSeq(t) /\ Len(t) = Len(texts)
  BY <1>1, <1>2, TableIsSeq
<1> QED BY <1>2, <1>3 DEF t

\* Codecs under one text,
LEMMA UnderIs ==
  ASSUME NEW codecs, IsSeq(codecs), NEW c
  PROVE  /\ IsSeq(Under(c, codecs)) /\ Len(Under(c, codecs)) = Len(codecs)
         /\ \A i \in 1..Len(codecs) : Under(c, codecs)[i] = Position(c, codecs[i])
<1> DEFINE t == Under(c, codecs)
<1>1. Len(codecs) \in Nat /\ DOMAIN codecs = 1..Len(codecs)
  BY SeqIsTable
<1>2. t = [i \in 1..Len(codecs) |-> t[i]] /\ \A i \in 1..Len(codecs) : t[i] = Position(c, codecs[i])
  BY <1>1 DEF Under
<1> HIDE DEF t
<1>3. IsSeq(t) /\ Len(t) = Len(codecs)
  BY <1>1, <1>2, TableIsSeq
<1> QED BY <1>2, <1>3 DEF t

\* texts without codec,
LEMMA TextOnlyIs ==
  ASSUME NEW texts, IsSeq(texts)
  PROVE  /\ IsSeq(TextOnly(texts)) /\ Len(TextOnly(texts)) = Len(texts)
         /\ \A i \in 1..Len(texts) : TextOnly(texts)[i] = Position(texts[i], None)
<1> DEFINE t == TextOnly(texts)
<1>1. Len(texts) \in Nat /\ DOMAIN texts = 1..Len(texts)
  BY SeqIsTable
<1>2. t = [i \in 1..Len(texts) |-> t[i]] /\ \A i \in 1..Len(texts) : t[i] = Position(texts[i], None)
  BY <1>1 DEF TextOnly
<1> HIDE DEF t
<1>3. IsSeq(t) /\ Len(t) = Len(texts)
  BY <1>1, <1>2, TableIsSeq
<1> QED BY <1>2, <1>3 DEF t

\* The tokens that mark what a position is for are different.
LEMMA MarksDiffer ==
  /\ Bos # Pad /\ Eos # Pad /\ Eos # Bos
  /\ CodecPad # None /\ CodecPad # CodecBos /\ CodecBos # None
BY DEF Bos, Pad, Eos, CodecPad, CodecBos, None, Token

\* and what the parts of a position are.
LEMMA PositionIs == \A t, c : Position(t, c).text = t /\ Position(t, c).codec = c
BY DEF Position

\* Words and frames laid out so have the shape.
LEMMA LaidIsShaped ==
  ASSUME NEW words, Words(words), NEW frames, IsSeq(frames)
  PROVE  Shaped(Laid(words, frames), 1, words, Len(words) + 1, frames)
<1> DEFINE u == <<CodecBos>> \o frames
           l == Over(words, CodecPad)
           r == Under(Pad, u)
           p == l \o r
           W == Len(words)
           F == Len(frames)
<1>1. IsSeq(words) /\ W \in Nat /\ W >= 1 /\ F \in Nat
  BY SeqIsTable DEF Words
<1>2. IsSeq(u) /\ Len(u) = 1 + F /\ u[1] = CodecBos /\ \A i \in 1..F : u[1 + i] = frames[i]
  <2> DEFINE c == <<CodecBos>>
  <2>1. IsSeq(c) /\ Len(c) = 1 /\ c[1] = CodecBos /\ IsSeq(frames)
    BY OneIsSeq
  <2> HIDE DEF c
  <2> DEFINE v == c \o frames
  <2>2. /\ IsSeq(v) /\ Len(v) = Len(c) + Len(frames)
        /\ \A i \in 1..Len(c) : v[i] = c[i]
        /\ \A i \in 1..Len(frames) : v[Len(c) + i] = frames[i]
    <3>1. IsSeq(c) /\ IsSeq(frames)
      BY <2>1
    <3> QED BY ONLY <3>1, Concat DEF v
  <2> HIDE DEF v
  <2>3. 1 \in 1..Len(c)
    BY <2>1
  <2>4. IsSeq(v) /\ Len(v) = 1 + F /\ v[1] = CodecBos /\ \A i \in 1..F : v[1 + i] = frames[i]
    BY <2>1, <2>2, <2>3
  <2> QED BY <2>4 DEF c, v
<1> HIDE DEF u
<1>3. IsSeq(l) /\ Len(l) = W /\ \A i \in 1..W : l[i] = Position(words[i], CodecPad)
  BY <1>1, OverIs
<1>4. IsSeq(r) /\ Len(r) = 1 + F /\ \A i \in 1..1 + F : r[i] = Position(Pad, u[i])
  <2>1. IsSeq(r) /\ Len(r) = Len(u) /\ \A i \in 1..Len(u) : r[i] = Position(Pad, u[i])
    BY <1>2, UnderIs
  <2> QED BY <1>2, <2>1
<1> HIDE DEF l, r
<1>5. /\ IsSeq(p) /\ Len(p) = W + 1 + F
      /\ \A i \in 1..W : p[i] = l[i]
      /\ \A i \in 1..1 + F : p[W + i] = r[i]
  <2>1. /\ IsSeq(p) /\ Len(p) = Len(l) + Len(r)
        /\ \A i \in 1..Len(l) : p[i] = l[i]
        /\ \A i \in 1..Len(r) : p[Len(l) + i] = r[i]
    <3>1. IsSeq(l) /\ IsSeq(r)
      BY <1>3, <1>4
    <3> QED BY ONLY <3>1, Concat DEF p
  <2> HIDE DEF p
  <2> QED BY <1>1, <1>3, <1>4, <2>1
<1> HIDE DEF p, W, F
<1>6. \A i \in 1..W : p[i].text = words[i] /\ p[i].codec = CodecPad
  BY <1>3, <1>5, PositionIs
<1>7. \A i \in 1..1 + F : p[W + i].text = Pad /\ p[W + i].codec = u[i]
  BY <1>4, <1>5, PositionIs
<1>8. p[1].text = Bos /\ 1 \in 1..Len(p)
  <2>1. 1 \in 1..W
    BY <1>1
  <2> QED BY <1>1, <1>5, <1>6, <2>1 DEF Words
<1>9. ASSUME NEW i \in 1..Len(p)
      PROVE  IF i < 1 + W THEN Speaks(p[i]) /\ p[i].text = words[i - 1 + 1] ELSE ~Speaks(p[i])
  <2>1. CASE i < 1 + W
    <3>1. i \in 1..W /\ i - 1 + 1 = i
      BY <1>1, <2>1
    <3>2. words[i] # Pad
      BY <3>1 DEF Words, W
    <3> QED BY <1>6, <2>1, <3>1, <3>2, MarksDiffer DEF Speaks
  <2>2. CASE ~(i < 1 + W)
    <3>1. i - W \in 1..1 + F /\ W + (i - W) = i
      BY <1>1, <1>5, <2>2
    <3>2. p[i].text = Pad
      BY <1>7, <3>1
    <3> QED BY <2>2, <3>2 DEF Speaks
  <2> QED BY <2>1, <2>2
<1>10. W + 1 \in 1..Len(p) /\ p[W + 1].codec = CodecBos
  <2>1. 1 \in 1..1 + F
    BY <1>1
  <2> QED BY <1>1, <1>2, <1>5, <1>7, <2>1
<1>11. \A k \in 1..(W + 1) - 1 : p[k].codec # CodecBos
  <2>1. (W + 1) - 1 = W
    BY <1>1
  <2> QED BY <1>6, <2>1, MarksDiffer
<1>12. ASSUME NEW i \in 1..F PROVE p[W + 1 + i].codec = frames[i]
  <2>1. 1 + i \in 1..1 + F /\ W + (1 + i) = W + 1 + i
    BY <1>1
  <2> QED BY <1>2, <1>7, <2>1
<1>13. /\ \A k \in 1..1 - 1 : p[k].text # Bos
       /\ 1 + W - 1 <= Len(p) /\ (W + 1) + F = Len(p)
  BY <1>1, <1>5
<1>14. Shaped(p, 1, words, W + 1, frames)
  BY <1>1, <1>5, <1>8, <1>9, <1>10, <1>11, <1>12, <1>13 DEF Shaped, W, F
<1> QED BY <1>14 DEF Laid, p, l, r, u, W
-----------------------------------------------------------------------------
(***************************************************************************)
(* What feeding a position does to the shape.                              *)
(***************************************************************************)
\* What is appended comes last.
LEMMA AppendedIs ==
  ASSUME NEW s, IsSeq(s), NEW e
  PROVE  /\ IsSeq(Append(s, e)) /\ Len(Append(s, e)) = Len(s) + 1
         /\ \A i \in 1..Len(s) : Append(s, e)[i] = s[i]
         /\ Append(s, e)[Len(s) + 1] = e
<1> DEFINE c == <<e>>
           v == s \o c
           n == Len(s)
<1>1. IsSeq(Append(s, e)) /\ Len(Append(s, e)) = n + 1 /\ Append(s, e) = v
  BY Appended
<1>2. IsSeq(c) /\ Len(c) = 1 /\ c[1] = e
  BY OneIsSeq
<1> HIDE DEF c
<1>3. /\ \A i \in 1..Len(s) : v[i] = s[i]
      /\ \A i \in 1..Len(c) : v[Len(s) + i] = c[i]
  <2>1. IsSeq(s) /\ IsSeq(c)
    BY <1>2
  <2> QED BY ONLY <2>1, Concat DEF v
<1> HIDE DEF v
<1>4. v[n + 1] = e
  BY <1>2, <1>3
<1> QED BY <1>1, <1>3, <1>4

\* The frame's embedding goes in over padding,
LEMMA FrameFed ==
  ASSUME NEW p, NEW f, NEW words, NEW b, NEW frames, Shaped(p, f, words, b, frames), NEW c
  PROVE  Shaped(Append(p, Position(Pad, c)), f, words, b, Append(frames, c))
<1> DEFINE q == Append(p, Position(Pad, c))
           fr == Append(frames, c)
           N == Len(p)
           W == Len(words)
           F == Len(frames)
<1>1. /\ IsSeq(p) /\ N \in Nat /\ f \in 1..N /\ b \in 1..N /\ b + F = N /\ f + W - 1 <= N
      /\ IsSeq(words) /\ W \in Nat /\ IsSeq(frames) /\ F \in Nat
  BY SeqIsTable DEF Shaped
<1>2. IsSeq(q) /\ Len(q) = N + 1 /\ (\A i \in 1..N : q[i] = p[i]) /\ q[N + 1] = Position(Pad, c)
  BY <1>1, AppendedIs
<1>3. IsSeq(fr) /\ Len(fr) = F + 1 /\ (\A i \in 1..F : fr[i] = frames[i]) /\ fr[F + 1] = c
  BY <1>1, AppendedIs
<1>4. /\ p[f].text = Bos /\ \A k \in 1..f - 1 : p[k].text # Bos
      /\ \A i \in f..N : IF i < f + W THEN Speaks(p[i]) /\ p[i].text = words[i - f + 1]
                                      ELSE ~Speaks(p[i])
      /\ p[b].codec = CodecBos /\ \A k \in 1..b - 1 : p[k].codec # CodecBos
      /\ \A i \in 1..F : p[b + i].codec = frames[i]
  BY DEF Shaped
<1> HIDE DEF q, fr, N, W, F
<1>5. f \in 1..N + 1 /\ b \in 1..N + 1 /\ f + W - 1 <= N + 1 /\ b + (F + 1) = N + 1
  BY <1>1
<1>6. q[f].text = Bos /\ \A k \in 1..f - 1 : q[k].text # Bos
  <2>1. \A k \in 1..f - 1 : k \in 1..N
    BY <1>1
  <2> QED BY <1>1, <1>2, <1>4, <2>1
<1>7. q[b].codec = CodecBos /\ \A k \in 1..b - 1 : q[k].codec # CodecBos
  <2>1. \A k \in 1..b - 1 : k \in 1..N
    BY <1>1
  <2> QED BY <1>1, <1>2, <1>4, <2>1
<1>8. ASSUME NEW i \in f..N + 1
      PROVE  IF i < f + W THEN Speaks(q[i]) /\ q[i].text = words[i - f + 1] ELSE ~Speaks(q[i])
  <2>1. CASE i = N + 1
    <3>1. ~(i < f + W)
      BY <1>1, <2>1
    <3> QED BY <1>2, <2>1, <3>1, PositionIs DEF Speaks
  <2>2. CASE i # N + 1
    <3>1. i \in f..N /\ i \in 1..N
      BY <1>1, <2>2
    <3> QED BY <1>2, <1>4, <3>1
  <2> QED BY <2>1, <2>2
<1>9. ASSUME NEW i \in 1..F + 1 PROVE q[b + i].codec = fr[i]
  <2>1. CASE i = F + 1
    <3>1. b + i = N + 1
      BY <1>1, <2>1
    <3> QED BY <1>2, <1>3, <2>1, <3>1, PositionIs
  <2>2. CASE i # F + 1
    <3>1. i \in 1..F /\ b + i \in 1..N
      BY <1>1, <2>2
    <3> QED BY <1>2, <1>3, <1>4, <3>1
  <2> QED BY <2>1, <2>2
<1>10. Shaped(q, f, words, b, fr)
  BY <1>1, <1>2, <1>3, <1>5, <1>6, <1>7, <1>8, <1>9 DEF Shaped, W
<1> QED BY <1>10 DEF q, fr

\* or over the next word, as long as nothing but words has followed tts_bos.
LEMMA WordFed ==
  ASSUME NEW p, NEW f, NEW words, NEW b, NEW frames, Shaped(p, f, words, b, frames), NEW c, NEW t,
         f + Len(words) - 1 = Len(p), t # Pad, c # None
  PROVE  Shaped(Append(p, Position(t, c)), f, Append(words, t), b, Append(frames, c))
<1> DEFINE q == Append(p, Position(t, c))
           fr == Append(frames, c)
           ws == Append(words, t)
           N == Len(p)
           W == Len(words)
           F == Len(frames)
<1>1. /\ IsSeq(p) /\ N \in Nat /\ f \in 1..N /\ b \in 1..N /\ b + F = N /\ f + W - 1 = N
      /\ IsSeq(words) /\ W \in Nat /\ IsSeq(frames) /\ F \in Nat
  BY SeqIsTable DEF Shaped
<1>2. IsSeq(q) /\ Len(q) = N + 1 /\ (\A i \in 1..N : q[i] = p[i]) /\ q[N + 1] = Position(t, c)
  BY <1>1, AppendedIs
<1>3. IsSeq(fr) /\ Len(fr) = F + 1 /\ (\A i \in 1..F : fr[i] = frames[i]) /\ fr[F + 1] = c
  BY <1>1, AppendedIs
<1>31. IsSeq(ws) /\ Len(ws) = W + 1 /\ (\A i \in 1..W : ws[i] = words[i]) /\ ws[W + 1] = t
  BY <1>1, AppendedIs
<1>4. /\ p[f].text = Bos /\ \A k \in 1..f - 1 : p[k].text # Bos
      /\ \A i \in f..N : IF i < f + W THEN Speaks(p[i]) /\ p[i].text = words[i - f + 1]
                                      ELSE ~Speaks(p[i])
      /\ p[b].codec = CodecBos /\ \A k \in 1..b - 1 : p[k].codec # CodecBos
      /\ \A i \in 1..F : p[b + i].codec = frames[i]
  BY DEF Shaped
<1> HIDE DEF q, fr, ws, N, W, F
<1>5. f \in 1..N + 1 /\ b \in 1..N + 1 /\ f + (W + 1) - 1 <= N + 1 /\ b + (F + 1) = N + 1
  BY <1>1
<1>6. q[f].text = Bos /\ \A k \in 1..f - 1 : q[k].text # Bos
  <2>1. \A k \in 1..f - 1 : k \in 1..N
    BY <1>1
  <2> QED BY <1>1, <1>2, <1>4, <2>1
<1>7. q[b].codec = CodecBos /\ \A k \in 1..b - 1 : q[k].codec # CodecBos
  <2>1. \A k \in 1..b - 1 : k \in 1..N
    BY <1>1
  <2> QED BY <1>1, <1>2, <1>4, <2>1
<1>8. ASSUME NEW i \in f..N + 1
      PROVE  i < f + (W + 1) /\ Speaks(q[i]) /\ q[i].text = ws[i - f + 1]
  <2>1. CASE i = N + 1
    <3>1. i < f + (W + 1) /\ i - f + 1 = W + 1
      BY <1>1, <2>1
    <3> QED BY <1>2, <1>31, <2>1, <3>1, PositionIs DEF Speaks
  <2>2. CASE i # N + 1
    <3>1. i \in f..N /\ i \in 1..N /\ i < f + W /\ i < f + (W + 1) /\ i - f + 1 \in 1..W
      BY <1>1, <2>2
    <3>2. q[i] = p[i] /\ ws[i - f + 1] = words[i - f + 1]
      BY <1>2, <1>31, <3>1
    <3> QED BY <1>4, <3>1, <3>2
  <2> QED BY <2>1, <2>2
<1>9. ASSUME NEW i \in 1..F + 1 PROVE q[b + i].codec = fr[i]
  <2>1. CASE i = F + 1
    <3>1. b + i = N + 1
      BY <1>1, <2>1
    <3> QED BY <1>2, <1>3, <2>1, <3>1, PositionIs
  <2>2. CASE i # F + 1
    <3>1. i \in 1..F /\ b + i \in 1..N
      BY <1>1, <2>2
    <3> QED BY <1>2, <1>3, <1>4, <3>1
  <2> QED BY <2>1, <2>2
<1>10. Shaped(q, f, ws, b, fr)
  BY <1>1, <1>2, <1>3, <1>31, <1>5, <1>6, <1>7, <1>8, <1>9 DEF Shaped
<1> QED BY <1>10 DEF q, fr, ws

\* What comes before tts_bos and codec_bos only moves them.
LEMMA Fronted ==
  ASSUME NEW p, NEW f, NEW words, NEW b, NEW frames, Shaped(p, f, words, b, frames),
         NEW front, IsFront(front)
  PROVE  Shaped(front \o p, Len(front) + f, words, Len(front) + b, frames)
<1> DEFINE q == front \o p
           L == Len(front)
           N == Len(p)
           W == Len(words)
           F == Len(frames)
<1>1. /\ IsSeq(p) /\ N \in Nat /\ f \in 1..N /\ b \in 1..N /\ b + F = N /\ f + W - 1 <= N
      /\ IsSeq(words) /\ W \in Nat /\ IsSeq(frames) /\ F \in Nat
      /\ IsSeq(front) /\ L \in Nat
  BY SeqIsTable DEF Shaped, IsFront
<1>2. /\ IsSeq(q) /\ Len(q) = L + N
      /\ \A i \in 1..L : q[i] = front[i]
      /\ \A i \in 1..N : q[L + i] = p[i]
  <2>1. IsSeq(front) /\ IsSeq(p)
    BY <1>1
  <2> QED BY ONLY <2>1, Concat DEF q, L, N
<1>4. /\ p[f].text = Bos /\ \A k \in 1..f - 1 : p[k].text # Bos
      /\ \A i \in f..N : IF i < f + W THEN Speaks(p[i]) /\ p[i].text = words[i - f + 1]
                                      ELSE ~Speaks(p[i])
      /\ p[b].codec = CodecBos /\ \A k \in 1..b - 1 : p[k].codec # CodecBos
      /\ \A i \in 1..F : p[b + i].codec = frames[i]
  BY DEF Shaped
<1>41. \A i \in 1..L : front[i].text # Bos /\ front[i].codec # CodecBos
  BY DEF IsFront
<1> HIDE DEF q, N, W, F, L
<1>5. L + f \in 1..L + N /\ L + b \in 1..L + N /\ (L + f) + W - 1 <= L + N /\ (L + b) + F = L + N
  BY <1>1
<1>6. q[L + f].text = Bos /\ q[L + b].codec = CodecBos
  BY <1>1, <1>2, <1>4
<1>7. ASSUME NEW k \in 1..(L + f) - 1 PROVE q[k].text # Bos
  <2>1. CASE k <= L
    <3>1. k \in 1..L
      BY <1>1, <2>1
    <3> QED BY <1>2, <1>41, <3>1
  <2>2. CASE k > L
    <3>1. k - L \in 1..f - 1 /\ k - L \in 1..N /\ L + (k - L) = k
      BY <1>1, <2>2
    <3> QED BY <1>2, <1>4, <3>1
  <2> QED BY <1>1, <2>1, <2>2
<1>8. ASSUME NEW k \in 1..(L + b) - 1 PROVE q[k].codec # CodecBos
  <2>1. CASE k <= L
    <3>1. k \in 1..L
      BY <1>1, <2>1
    <3> QED BY <1>2, <1>41, <3>1
  <2>2. CASE k > L
    <3>1. k - L \in 1..b - 1 /\ k - L \in 1..N /\ L + (k - L) = k
      BY <1>1, <2>2
    <3> QED BY <1>2, <1>4, <3>1
  <2> QED BY <1>1, <2>1, <2>2
<1>9. ASSUME NEW i \in L + f..L + N
      PROVE  IF i < (L + f) + W THEN Speaks(q[i]) /\ q[i].text = words[i - (L + f) + 1]
                                ELSE ~Speaks(q[i])
  <2> DEFINE j == i - L
  <2>1. /\ j \in f..N /\ j \in 1..N /\ L + j = i /\ (i < (L + f) + W <=> j < f + W)
        /\ i - (L + f) + 1 = j - f + 1
    BY <1>1
  <2> HIDE DEF j
  <2>2. q[i] = p[j]
    BY <1>2, <2>1
  <2> QED BY <1>4, <2>1, <2>2
<1>10. ASSUME NEW i \in 1..F PROVE q[(L + b) + i].codec = frames[i]
  <2>1. b + i \in 1..N /\ L + (b + i) = (L + b) + i
    BY <1>1
  <2> QED BY <1>2, <1>4, <2>1
<1>11. Shaped(q, L + f, words, L + b, frames)
  BY <1>1, <1>2, <1>5, <1>6, <1>7, <1>8, <1>9, <1>10 DEF Shaped, W, F
<1> QED BY <1>11 DEF q, L
-----------------------------------------------------------------------------
(***************************************************************************)
(* The parts of a prompt.                                                  *)
(***************************************************************************)
\* It does not matter which two of three are joined first.
Regroups(a, b, c) == (a \o b) \o c = a \o (b \o c)

LEMMA JoinsAgain ==
  ASSUME NEW a, IsSeq(a), NEW b, IsSeq(b), NEW c, IsSeq(c)
  PROVE  Regroups(a, b, c)
<1> DEFINE S == Own(a) \union Own(b) \union Own(c)
<1>1. Own(a) \subseteq S /\ Own(b) \subseteq S /\ Own(c) \subseteq S
  OBVIOUS
<1> HIDE DEF S
<1>2. a \in Seq(S) /\ b \in Seq(S) /\ c \in Seq(S)
  BY <1>1, Wider DEF IsSeq
<1>3. (a \o b) \o c = a \o (b \o c)
  BY <1>2, ConcatAssociative
<1> QED BY <1>3 DEF Regroups

\* What is between two others, and what is before.
LEMMA Middle ==
  ASSUME NEW a, IsSeq(a), NEW x, IsSeq(x), NEW z, IsSeq(z)
  PROVE  /\ SubSeq(a \o (x \o z), 1, Len(a)) = a
         /\ SubSeq(a \o (x \o z), Len(a) + 1, Len(a \o (x \o z)) - Len(z)) = x
<1> DEFINE t == x \o z
           s == a \o t
           A == Len(a)
           X == Len(x)
           Z == Len(z)
           l == SubSeq(s, 1, A)
           m == SubSeq(s, A + 1, Len(s) - Z)
<1>1. A \in Nat /\ X \in Nat /\ Z \in Nat
  BY SeqIsTable
<1>2. IsSeq(t) /\ Len(t) = X + Z /\ \A i \in 1..X : t[i] = x[i]
  <2>1. IsSeq(x) /\ IsSeq(z)
    OBVIOUS
  <2> QED BY ONLY <2>1, Concat DEF t, X, Z
<1> HIDE DEF t
<1>3. IsSeq(s) /\ Len(s) = A + Len(t) /\ (\A i \in 1..A : s[i] = a[i])
      /\ \A i \in 1..Len(t) : s[A + i] = t[i]
  <2>1. IsSeq(a) /\ IsSeq(t)
    BY <1>2
  <2> QED BY ONLY <2>1, Concat DEF s, A
<1> HIDE DEF s, A, X, Z
<1>4. /\ IsSeq(l) /\ Len(l) = A /\ \A i \in 1..A : l[i] = s[i]
  BY <1>1, <1>2, <1>3, PrefixIs
<1> DEFINE d == A + 1
           e == Len(s) - Z
<1>5. d \in Nat /\ e \in Int /\ d >= 1 /\ e >= d - 1 /\ e <= Len(s) /\ e - d + 1 = X
  BY <1>1, <1>2, <1>3
<1>6. IsSeq(m) /\ Len(m) = e - d + 1 /\ \A i \in 1..(e - d + 1) : m[i] = s[d + i - 1]
  BY <1>3, <1>5, Sub
<1> HIDE DEF l, m
<1>7. l = a
  BY <1>3, <1>4, SameSeq DEF A
<1>8. ASSUME NEW i \in 1..X PROVE m[i] = x[i]
  <2>1. i \in 1..(e - d + 1) /\ d + i - 1 = A + i /\ i \in 1..Len(t)
    BY <1>1, <1>2, <1>5
  <2>2. m[i] = s[A + i]
    BY <1>6, <2>1
  <2> QED BY <1>2, <1>3, <2>1, <2>2
<1>9. m = x
  <2>1. Len(m) = Len(x)
    BY <1>5, <1>6 DEF X
  <2> QED BY <1>6, <1>8, <2>1, SameSeq DEF X
<1> QED BY <1>7, <1>9 DEF l, m, s, t, A, X, Z

\* The role is three tokens, the end of a turn two.
LEMMA Markers ==
  /\ IsSeq(Role) /\ Len(Role) = 3 /\ IsSeq(EndOfTurn) /\ Len(EndOfTurn) = 2
  /\ IsSeq(User) /\ Len(User) = 3
  /\ \A i \in 1..3 : Role[i] # Bos /\ User[i] # Bos
  /\ \A i \in 1..2 : EndOfTurn[i] # Bos
<1>1. Len(Role) = 3 /\ Len(EndOfTurn) = 2 /\ Len(User) = 3
  BY DEF Role, EndOfTurn, User
<1>2. /\ \A i \in 1..3 : Role[i] # Bos /\ User[i] # Bos
      /\ \A i \in 1..2 : EndOfTurn[i] # Bos
  BY DEF Role, EndOfTurn, User, Bos, Token
<1> QED BY <1>1, <1>2, PromptParts

\* What is left of what was tokenized is the text.
LEMMA TextIsStripped ==
  ASSUME NEW x, IsSeq(x)
  PROVE  /\ SubSeq(SynthesisIds(x), 1, 3) = Role /\ Stripped(SynthesisIds(x), 5) = x
         /\ SubSeq(ReferenceIds(x), 1, 3) = Role /\ Stripped(ReferenceIds(x), 2) = x
<1> DEFINE z == EndOfTurn \o Role
<1>1. IsSeq(z) /\ Len(z) = 5
  <2>1. IsSeq(EndOfTurn) /\ IsSeq(Role)
    BY Markers
  <2>2. IsSeq(z) /\ Len(z) = Len(EndOfTurn) + Len(Role)
    BY ONLY <2>1, Concat DEF z
  <2> QED BY <2>2, Markers
<1>2. SynthesisIds(x) = Role \o (x \o z)
  <2>1. IsSeq(Role) /\ IsSeq(x) /\ IsSeq(EndOfTurn) /\ IsSeq(Role \o x) /\ IsSeq(x \o EndOfTurn)
    BY Markers, Joins2
  <2>2. (Role \o x) \o EndOfTurn = Role \o (x \o EndOfTurn)
    <3>1. Regroups(Role, x, EndOfTurn)
      BY ONLY <2>1, JoinsAgain
    <3> QED BY ONLY <3>1 DEF Regroups
  <2>3. (Role \o (x \o EndOfTurn)) \o Role = Role \o ((x \o EndOfTurn) \o Role)
    <3> DEFINE v == x \o EndOfTurn
    <3>1. IsSeq(Role) /\ IsSeq(v)
      BY <2>1
    <3> HIDE DEF v
    <3>2. (Role \o v) \o Role = Role \o (v \o Role)
      <4>1. Regroups(Role, v, Role)
        BY ONLY <3>1, JoinsAgain
      <4> QED BY ONLY <4>1 DEF Regroups
    <3> QED BY <3>2 DEF v
  <2>4. (x \o EndOfTurn) \o Role = x \o z
    <3>1. Regroups(x, EndOfTurn, Role)
      BY ONLY <2>1, JoinsAgain
    <3> QED BY ONLY <3>1 DEF Regroups, z
  <2> QED BY <2>2, <2>3, <2>4 DEF SynthesisIds
<1>3. ReferenceIds(x) = Role \o (x \o EndOfTurn)
  <2>1. IsSeq(Role) /\ IsSeq(x) /\ IsSeq(EndOfTurn)
    BY Markers
  <2>2. (Role \o x) \o EndOfTurn = Role \o (x \o EndOfTurn)
    <3>1. Regroups(Role, x, EndOfTurn)
      BY ONLY <2>1, JoinsAgain
    <3> QED BY ONLY <3>1 DEF Regroups
  <2> QED BY <2>2 DEF ReferenceIds
<1> HIDE DEF z
<1>4. /\ SubSeq(SynthesisIds(x), 1, 3) = Role
      /\ SubSeq(SynthesisIds(x), 4, Len(SynthesisIds(x)) - 5) = x
  <2> DEFINE s == Role \o (x \o z)
  <2>1. SubSeq(s, 1, Len(Role)) = Role /\ SubSeq(s, Len(Role) + 1, Len(s) - Len(z)) = x
    <3>1. IsSeq(Role) /\ IsSeq(x) /\ IsSeq(z)
      BY <1>1, Markers
    <3> QED BY ONLY <3>1, Middle DEF s
  <2> HIDE DEF s
  <2>2. SubSeq(s, 1, 3) = Role /\ SubSeq(s, 4, Len(s) - 5) = x
    BY <1>1, <2>1, Markers
  <2> QED BY <1>2, <2>2 DEF s
<1>5. /\ SubSeq(ReferenceIds(x), 1, 3) = Role
      /\ SubSeq(ReferenceIds(x), 4, Len(ReferenceIds(x)) - 2) = x
  <2> DEFINE s == Role \o (x \o EndOfTurn)
  <2>1. SubSeq(s, 1, Len(Role)) = Role /\ SubSeq(s, Len(Role) + 1, Len(s) - Len(EndOfTurn)) = x
    <3>1. IsSeq(Role) /\ IsSeq(x) /\ IsSeq(EndOfTurn)
      BY Markers
    <3> QED BY ONLY <3>1, Middle DEF s
  <2> HIDE DEF s
  <2>2. SubSeq(s, 1, 3) = Role /\ SubSeq(s, 4, Len(s) - 2) = x
    BY <2>1, Markers
  <2> QED BY <1>3, <2>2 DEF s
<1> QED BY <1>4, <1>5 DEF Stripped

\* What can come before: texts without codec, or over padding, codecs under padding.
LEMMA Fronts ==
  ASSUME NEW texts, IsSeq(texts)
  PROVE  /\ (\A i \in 1..Len(texts) : texts[i] # Bos)
              => IsFront(TextOnly(texts)) /\ IsFront(Over(texts, CodecPad))
         /\ (\A i \in 1..Len(texts) : texts[i] # CodecBos) => IsFront(Under(Pad, texts))
<1>1. None # CodecBos /\ CodecPad # CodecBos /\ Pad # Bos
  BY MarksDiffer
<1>2. ASSUME \A i \in 1..Len(texts) : texts[i] # Bos
      PROVE  IsFront(TextOnly(texts)) /\ IsFront(Over(texts, CodecPad))
  <2>1. /\ IsSeq(TextOnly(texts)) /\ Len(TextOnly(texts)) = Len(texts)
        /\ \A i \in 1..Len(texts) : TextOnly(texts)[i] = Position(texts[i], None)
    BY TextOnlyIs
  <2>2. /\ IsSeq(Over(texts, CodecPad)) /\ Len(Over(texts, CodecPad)) = Len(texts)
        /\ \A i \in 1..Len(texts) : Over(texts, CodecPad)[i] = Position(texts[i], CodecPad)
    BY OverIs
  <2>3. IsFront(TextOnly(texts))
    BY <1>1, <1>2, <2>1, PositionIs DEF IsFront
  <2>4. IsFront(Over(texts, CodecPad))
    BY <1>1, <1>2, <2>2, PositionIs DEF IsFront
  <2> QED BY <2>3, <2>4
<1>3. ASSUME \A i \in 1..Len(texts) : texts[i] # CodecBos PROVE IsFront(Under(Pad, texts))
  <2>1. /\ IsSeq(Under(Pad, texts)) /\ Len(Under(Pad, texts)) = Len(texts)
        /\ \A i \in 1..Len(texts) : Under(Pad, texts)[i] = Position(Pad, texts[i])
    BY UnderIs
  <2> QED BY <1>1, <1>3, <2>1, PositionIs DEF IsFront
<1> QED BY <1>2, <1>3

\* What neither has, both together do not have.
LEMMA NeitherHas ==
  ASSUME NEW a, IsSeq(a), NEW b, IsSeq(b), NEW e,
         \A i \in 1..Len(a) : a[i] # e, \A i \in 1..Len(b) : b[i] # e
  PROVE  IsSeq(a \o b) /\ \A i \in 1..Len(a \o b) : (a \o b)[i] # e
<1> DEFINE c == a \o b
           A == Len(a)
           B == Len(b)
<1>1. A \in Nat /\ B \in Nat
  BY SeqIsTable
<1>2. IsSeq(c) /\ Len(c) = A + B /\ \A i \in 1..A + B : c[i] = IF i <= A THEN a[i] ELSE b[i - A]
  <2>1. IsSeq(a) /\ IsSeq(b)
    OBVIOUS
  <2> QED BY ONLY <2>1, Concat DEF c, A, B
<1> HIDE DEF c
<1>3. ASSUME NEW i \in 1..A + B PROVE c[i] # e
  <2>1. CASE i <= A
    <3>1. i \in 1..A
      BY <1>1, <2>1
    <3> QED BY <1>2, <2>1, <3>1
  <2>2. CASE i > A
    <3>1. i - A \in 1..B /\ ~(i <= A)
      BY <1>1, <2>2
    <3> QED BY <1>2, <2>2, <3>1
  <2> QED BY <1>1, <2>1, <2>2
<1> QED BY <1>2, <1>3 DEF c

\* So two that can come before can come one behind the other.
LEMMA FrontsJoin ==
  ASSUME NEW a, IsFront(a), NEW b, IsFront(b)
  PROVE  IsFront(a \o b)
<1> DEFINE c == a \o b
           A == Len(a)
           B == Len(b)
<1>0. IsSeq(a) /\ IsSeq(b)
  BY DEF IsFront
<1>1. A \in Nat /\ B \in Nat
  BY <1>0, SeqIsTable
<1>2. IsSeq(c) /\ Len(c) = A + B /\ \A i \in 1..A + B : c[i] = IF i <= A THEN a[i] ELSE b[i - A]
  BY ONLY <1>0, Concat DEF c, A, B
<1> HIDE DEF c
<1>3. ASSUME NEW i \in 1..A + B PROVE c[i].text # Bos /\ c[i].codec # CodecBos
  <2>1. CASE i <= A
    <3>1. i \in 1..A
      BY <1>1, <2>1
    <3> QED BY <1>2, <2>1, <3>1 DEF IsFront
  <2>2. CASE i > A
    <3>1. i - A \in 1..B /\ ~(i <= A)
      BY <1>1, <2>2
    <3> QED BY <1>2, <2>2, <3>1 DEF IsFront
  <2> QED BY <1>1, <2>1, <2>2
<1> QED BY <1>2, <1>3 DEF c, IsFront

\* A codec prefix goes under padding, and what comes last before codec_bos under tts_bos.
LEMMA PrefixedIs ==
  ASSUME NEW c, IsSeq(c)
  PROVE  Prefixed(c \o <<CodecPad, CodecBos>>) = Under(Pad, c) \o <<Position(Bos, CodecPad)>>
<1> DEFINE e == <<CodecPad, CodecBos>>
           codecs == c \o e
           o == <<Position(Bos, CodecPad)>>
           u == Under(Pad, c)
           l == Prefixed(codecs)
           r == u \o o
           C == Len(c)
           n == Len(codecs) - 1
<1>1. C \in Nat
  BY SeqIsTable
<1>2. IsSeq(e) /\ Len(e) = 2 /\ e[1] = CodecPad
  BY Tuples
<1>3. IsSeq(o) /\ Len(o) = 1 /\ o[1] = Position(Bos, CodecPad)
  BY OneIsSeq
<1>4. IsSeq(u) /\ Len(u) = C /\ \A i \in 1..C : u[i] = Position(Pad, c[i])
  BY UnderIs
<1> HIDE DEF e, o, u
<1>5. IsSeq(codecs) /\ Len(codecs) = C + 2 /\ (\A i \in 1..C : codecs[i] = c[i])
      /\ codecs[C + 1] = CodecPad
  <2>1. /\ IsSeq(codecs) /\ Len(codecs) = Len(c) + Len(e)
        /\ \A i \in 1..Len(c) : codecs[i] = c[i]
        /\ \A i \in 1..Len(e) : codecs[Len(c) + i] = e[i]
    <3>1. IsSeq(c) /\ IsSeq(e)
      BY <1>2
    <3> QED BY ONLY <3>1, Concat DEF codecs
  <2> HIDE DEF codecs
  <2>2. 1 \in 1..Len(e)
    BY <1>2
  <2> QED BY <1>2, <2>1, <2>2
<1>6. IsSeq(r) /\ Len(r) = C + 1 /\ (\A i \in 1..C : r[i] = u[i]) /\ r[C + 1] = o[1]
  <2>1. /\ IsSeq(r) /\ Len(r) = Len(u) + Len(o)
        /\ \A i \in 1..Len(u) : r[i] = u[i]
        /\ \A i \in 1..Len(o) : r[Len(u) + i] = o[i]
    <3>1. IsSeq(u) /\ IsSeq(o)
      BY <1>3, <1>4
    <3> QED BY ONLY <3>1, Concat DEF r
  <2> HIDE DEF r
  <2>2. 1 \in 1..Len(o)
    BY <1>3
  <2> QED BY <1>3, <1>4, <2>1, <2>2
<1> HIDE DEF codecs, r
<1>7. n = C + 1 /\ n \in Nat
  BY <1>1, <1>5
<1>8. l = [i \in 1..n |-> l[i]]
      /\ \A i \in 1..n : l[i] = Position(IF i < n THEN Pad ELSE Bos, codecs[i])
  BY DEF Prefixed
<1> HIDE DEF l
<1>9. IsSeq(l) /\ Len(l) = n
  BY <1>7, <1>8, TableIsSeq
<1> HIDE DEF n, C
<1>10. ASSUME NEW i \in 1..n PROVE l[i] = r[i]
  <2>1. CASE i < n
    <3>1. i \in 1..C
      BY <1>1, <1>7, <2>1
    <3> QED BY <1>4, <1>5, <1>6, <1>8, <2>1, <3>1
  <2>2. CASE ~(i < n)
    <3>1. i = C + 1
      BY <1>1, <1>7, <2>2
    <3>2. l[i] = Position(Bos, codecs[i])
      BY <1>8, <2>2
    <3> QED BY <1>3, <1>5, <1>6, <3>1, <3>2
  <2> QED BY <2>1, <2>2
<1>11. l = r
  BY <1>6, <1>7, <1>9, <1>10, SameSeq
<1> QED BY <1>11 DEF l, r, codecs, e, u, o

\* tts_bos and the rest of the text are over the same codec.
LEMMA BosIsFirst ==
  ASSUME NEW ws, IsSeq(ws)
  PROVE  <<Position(Bos, CodecPad)>> \o Over(ws, CodecPad) = Over(<<Bos>> \o ws, CodecPad)
<1> DEFINE o == <<Position(Bos, CodecPad)>>
           v == Over(ws, CodecPad)
           l == o \o v
           c == <<Bos>>
           w == c \o ws
           r == Over(w, CodecPad)
           W == Len(ws)
<1>1. W \in Nat
  BY SeqIsTable
<1>2. IsSeq(o) /\ Len(o) = 1 /\ o[1] = Position(Bos, CodecPad)
  BY OneIsSeq
<1>3. IsSeq(c) /\ Len(c) = 1 /\ c[1] = Bos
  BY OneIsSeq
<1>4. IsSeq(v) /\ Len(v) = W /\ \A i \in 1..W : v[i] = Position(ws[i], CodecPad)
  BY OverIs
<1> HIDE DEF o, c, v
<1>5. IsSeq(l) /\ Len(l) = 1 + W /\ \A i \in 1..1 + W : l[i] = IF i <= 1 THEN o[i] ELSE v[i - 1]
  <2>1. /\ IsSeq(l) /\ Len(l) = Len(o) + Len(v)
        /\ \A i \in 1..Len(o) + Len(v) : l[i] = IF i <= Len(o) THEN o[i] ELSE v[i - Len(o)]
    <3>1. IsSeq(o) /\ IsSeq(v)
      BY <1>2, <1>4
    <3> QED BY ONLY <3>1, Concat DEF l
  <2> HIDE DEF l
  <2> QED BY <1>2, <1>4, <2>1
<1>6. IsSeq(w) /\ Len(w) = 1 + W /\ \A i \in 1..1 + W : w[i] = IF i <= 1 THEN c[i] ELSE ws[i - 1]
  <2>1. /\ IsSeq(w) /\ Len(w) = Len(c) + Len(ws)
        /\ \A i \in 1..Len(c) + Len(ws) : w[i] = IF i <= Len(c) THEN c[i] ELSE ws[i - Len(c)]
    <3>1. IsSeq(c) /\ IsSeq(ws)
      BY <1>3
    <3> QED BY ONLY <3>1, Concat DEF w
  <2> HIDE DEF w
  <2> QED BY <1>3, <2>1
<1> HIDE DEF l, w
<1>7. IsSeq(r) /\ Len(r) = 1 + W /\ \A i \in 1..1 + W : r[i] = Position(w[i], CodecPad)
  <2>1. IsSeq(r) /\ Len(r) = Len(w) /\ \A i \in 1..Len(w) : r[i] = Position(w[i], CodecPad)
    BY <1>6, OverIs
  <2> QED BY <1>6, <2>1
<1> HIDE DEF r, W
<1>8. ASSUME NEW i \in 1..1 + W PROVE l[i] = r[i]
  <2>1. CASE i <= 1
    <3>1. i = 1
      BY <1>1, <2>1
    <3> QED BY <1>2, <1>3, <1>5, <1>6, <1>7, <2>1, <3>1
  <2>2. CASE ~(i <= 1)
    <3>1. i - 1 \in 1..W
      BY <1>1, <2>2
    <3> QED BY <1>4, <1>5, <1>6, <1>7, <2>2, <3>1
  <2> QED BY <2>1, <2>2
<1>9. l = r
  BY <1>5, <1>7, <1>8, SameSeq
<1> QED BY <1>9 DEF l, r, w, c, o, v

\* The text between its ends.
All(text) == <<Bos>> \o text \o <<Eos>>

\* It is tts_bos, and then what the code appends tts_eos to.
LEMMA AllIs ==
  ASSUME NEW x, IsSeq(x)
  PROVE  /\ IsSeq(All(x)) /\ Len(All(x)) = Len(x) + 2
         /\ IsSeq(Append(x, Eos)) /\ Len(Append(x, Eos)) = Len(x) + 1
         /\ Append(x, Eos) = x \o <<Eos>> /\ All(x) = <<Bos>> \o Append(x, Eos)
         /\ All(x)[1] = Bos /\ \A i \in 1..Len(x) + 1 : All(x)[1 + i] = Append(x, Eos)[i]
<1> DEFINE b == <<Bos>>
           e == <<Eos>>
           y == Append(x, Eos)
           s == b \o y
           X == Len(x)
<1>1. X \in Nat
  BY SeqIsTable
<1>2. IsSeq(b) /\ Len(b) = 1 /\ b[1] = Bos /\ IsSeq(e)
  BY OneIsSeq
<1>3. IsSeq(y) /\ Len(y) = X + 1 /\ y = x \o e
  BY Appended
<1> HIDE DEF b, e, y
<1>4. (b \o x) \o e = s
  <2>1. IsSeq(b) /\ IsSeq(x) /\ IsSeq(e)
    BY <1>2
  <2>2. (b \o x) \o e = b \o (x \o e)
    <3>1. Regroups(b, x, e)
      BY ONLY <2>1, JoinsAgain
    <3> QED BY ONLY <3>1 DEF Regroups
  <2> QED BY <1>3, <2>2
<1>5. /\ IsSeq(s) /\ Len(s) = Len(b) + Len(y)
      /\ \A i \in 1..Len(b) : s[i] = b[i]
      /\ \A i \in 1..Len(y) : s[Len(b) + i] = y[i]
  <2>1. IsSeq(b) /\ IsSeq(y)
    BY <1>2, <1>3
  <2> QED BY ONLY <2>1, Concat DEF s
<1> HIDE DEF s
<1>6. Len(s) = X + 2 /\ s[1] = Bos /\ \A i \in 1..X + 1 : s[1 + i] = y[i]
  <2>1. 1 \in 1..Len(b)
    BY <1>2
  <2> QED BY <1>1, <1>2, <1>3, <1>5, <2>1
<1>7. All(x) = s
  BY <1>4 DEF All, b, e
<1> QED BY <1>3, <1>5, <1>6, <1>7 DEF s, b, e, y

\* The whole text, when none of it is padding, can be said.
LEMMA AllIsWords ==
  ASSUME NEW x, IsSeq(x), \A i \in 1..Len(x) : x[i] # Pad
  PROVE  Words(All(x)) /\ SubSeq(All(x), 1, Len(x) + 2) = All(x)
<1> DEFINE s == All(x)
           y == Append(x, Eos)
           X == Len(x)
<1>1. X \in Nat
  BY SeqIsTable
<1>2. IsSeq(s) /\ Len(s) = X + 2 /\ s[1] = Bos /\ \A i \in 1..X + 1 : s[1 + i] = y[i]
  BY AllIs
<1>3. (\A i \in 1..X : y[i] = x[i]) /\ y[X + 1] = Eos
  BY AppendedIs
<1> HIDE DEF s, y
<1>4. ASSUME NEW i \in 1..X + 2 PROVE s[i] # Pad
  <2>1. CASE i = 1
    BY <1>2, <2>1, MarksDiffer
  <2>2. CASE i = X + 2
    <3>1. X + 1 \in 1..X + 1 /\ i = 1 + (X + 1)
      BY <1>1, <2>2
    <3>2. s[i] = Eos
      BY <1>2, <1>3, <3>1
    <3> QED BY <3>2, MarksDiffer
  <2>3. CASE i # 1 /\ i # X + 2
    <3>1. i - 1 \in 1..X /\ i - 1 \in 1..X + 1 /\ i = 1 + (i - 1)
      BY <1>1, <2>3
    <3>2. s[i] = x[i - 1]
      BY <1>2, <1>3, <3>1
    <3> QED BY <3>1, <3>2
  <2> QED BY <2>1, <2>2, <2>3
<1>5. Words(s)
  <2>1. Len(s) >= 1
    BY <1>1, <1>2
  <2> QED BY <1>2, <1>4, <2>1 DEF Words
<1>6. SubSeq(s, 1, X + 2) = s
  <2> DEFINE t == SubSeq(s, 1, X + 2)
             k == X + 2
  <2>1. k \in Nat /\ k <= Len(s)
    BY <1>1, <1>2
  <2>2. IsSeq(t) /\ Len(t) = k /\ \A i \in 1..k : t[i] = s[i]
    BY <1>2, <2>1, PrefixIs
  <2> HIDE DEF t
  <2>3. t = s
    BY <1>2, <2>2, SameSeq
  <2> QED BY <2>3 DEF t
<1> QED BY <1>5, <1>6 DEF s

\* No name of a text or of a frame is one of the marks.
LEMMA TokensAre ==
  ASSUME NEW n \in Nat, NEW name \in {"text", "ref", "refFrame", "description", "frame"}
  PROVE  /\ IsSeq(Tokens(name, n)) /\ Len(Tokens(name, n)) = n
         /\ \A i \in 1..n : Tokens(name, n)[i] = <<name, i>>
         /\ \A i \in 1..n : Tokens(name, n)[i] # Pad /\ Tokens(name, n)[i] # Bos
<1> DEFINE t == Tokens(name, n)
<1>1. t = [i \in 1..n |-> t[i]] /\ \A i \in 1..n : t[i] = <<name, i>>
  BY DEF Tokens
<1> HIDE DEF t
<1>2. IsSeq(t) /\ Len(t) = n
  BY <1>1, TableIsSeq
<1>3. name # "tts_pad" /\ name # "tts_bos"
  OBVIOUS
<1>4. \A i \in 1..n : <<name, i>> # <<"tts_pad", 0>> /\ <<name, i>> # <<"tts_bos", 0>>
  BY <1>3
<1>5. \A i \in 1..n : t[i] # Pad /\ t[i] # Bos
  BY <1>1, <1>4 DEF Pad, Bos, Token
<1> QED BY <1>1, <1>2, <1>5 DEF t

\* What the codec prefix is before its end.
BeforeEnd(c) == IsSeq(c) /\ \A i \in 1..Len(c) : c[i] # CodecBos

\* Parts of it can be joined, and a speaker can be in it.
LEMMA BeforeEnds ==
  /\ \A a, b : BeforeEnd(a) /\ BeforeEnd(b) => BeforeEnd(a \o b)
  /\ BeforeEnd(Speaker) /\ BeforeEnd(<<>>)
<1>1. ASSUME NEW a, NEW b, BeforeEnd(a), BeforeEnd(b) PROVE BeforeEnd(a \o b)
  <2>1. /\ IsSeq(a) /\ IsSeq(b)
        /\ (\A i \in 1..Len(a) : a[i] # CodecBos) /\ \A i \in 1..Len(b) : b[i] # CodecBos
    BY <1>1 DEF BeforeEnd
  <2>2. IsSeq(a \o b) /\ \A i \in 1..Len(a \o b) : (a \o b)[i] # CodecBos
    BY ONLY <2>1, NeitherHas
  <2> QED BY <2>2 DEF BeforeEnd
<1>2. BeforeEnd(Speaker)
  <2>1. Len(Speaker) = 1 /\ \A i \in 1..1 : Speaker[i] # CodecBos
    BY DEF Speaker, CodecBos, Token
  <2> QED BY <2>1, PromptParts DEF BeforeEnd
<1>3. BeforeEnd(<<>>)
  BY EmptyIsSeq DEF BeforeEnd
<1> QED BY <1>1, <1>2, <1>3

\* Every codec prefix ends with codec_pad and codec_bos, which are nowhere before.
LEMMA PrefixEnds ==
  ASSUME NEW language \in BOOLEAN, NEW speaker, BeforeEnd(speaker)
  PROVE  \E c : BeforeEnd(c) /\ CodecPrefix(language, speaker) = c \o <<CodecPad, CodecBos>>
<1> DEFINE yes == <<Token("think"), Token("think_bos"), Token("language"), Token("think_eos")>>
           no == <<Token("nothink"), Token("think_bos"), Token("think_eos")>>
           p == IF language THEN yes ELSE no
<1>1. BeforeEnd(yes)
  <2>1. Len(yes) = 4 /\ \A i \in 1..4 : yes[i] # CodecBos
    BY DEF CodecBos, Token
  <2>2. IsSeq(yes)
    BY Tuples
  <2> HIDE DEF yes
  <2> QED BY <2>1, <2>2 DEF BeforeEnd
<1>2. BeforeEnd(no)
  <2>1. Len(no) = 3 /\ \A i \in 1..3 : no[i] # CodecBos
    BY DEF CodecBos, Token
  <2>2. IsSeq(no)
    BY Tuples
  <2> HIDE DEF no
  <2> QED BY <2>1, <2>2 DEF BeforeEnd
<1>3. CodecPrefix(language, speaker) = (p \o speaker) \o <<CodecPad, CodecBos>>
  BY DEF CodecPrefix
<1> HIDE DEF yes, no
<1>4. BeforeEnd(p)
  BY <1>1, <1>2
<1> HIDE DEF p
<1>5. BeforeEnd(p \o speaker)
  BY <1>4, BeforeEnds
<1> QED BY <1>3, <1>5

\* A prompt has its words and its frames where they should be.
HasShape(p, words, frames) == \E f, b : Shaped(p, f, words, b, frames)

\* A front, a codec prefix, words and frames make such a prompt.
LEMMA PromptHasShape ==
  ASSUME NEW a, IsFront(a), NEW c, BeforeEnd(c), NEW ws, IsSeq(ws), Words(<<Bos>> \o ws),
         NEW frames, IsSeq(frames)
  PROVE  HasShape(a \o Prefixed(c \o <<CodecPad, CodecBos>>) \o Over(ws, CodecPad)
                    \o Under(Pad, <<CodecBos>> \o frames), <<Bos>> \o ws, frames)
<1> DEFINE u == Under(Pad, c)
           o == <<Position(Bos, CodecPad)>>
           v == Over(ws, CodecPad)
           d == Under(Pad, <<CodecBos>> \o frames)
           x == Prefixed(c \o <<CodecPad, CodecBos>>)
           words == <<Bos>> \o ws
           F == Len(a \o u)
<1>1. x = u \o o
  BY PrefixedIs DEF BeforeEnd
<1>2. IsSeq(a) /\ IsSeq(u) /\ IsSeq(o) /\ IsSeq(v) /\ IsSeq(d)
  <2>1. IsSeq(u)
    BY UnderIs DEF BeforeEnd
  <2>2. IsSeq(o)
    BY OneIsSeq
  <2>3. IsSeq(v)
    BY OverIs
  <2>4. IsSeq(<<CodecBos>> \o frames)
    BY OneIsSeq, Joins2
  <2>5. IsSeq(d)
    BY <2>4, UnderIs
  <2> QED BY <2>1, <2>2, <2>3, <2>5 DEF IsFront
<1>3. o \o v = Over(words, CodecPad)
  BY BosIsFirst
<1>4. IsFront(a \o u)
  <2>1. IsFront(u)
    BY Fronts DEF BeforeEnd
  <2> QED BY <2>1, FrontsJoin
<1> HIDE DEF x, u, o, v, d
<1>5. ((a \o x) \o v) \o d = (a \o u) \o ((o \o v) \o d)
  <2> DEFINE au == a \o u
             ov == o \o v
  <2>1. IsSeq(au) /\ IsSeq(ov)
    BY <1>2, Joins2
  <2>2. a \o (u \o o) = au \o o
    <3>1. IsSeq(a) /\ IsSeq(u) /\ IsSeq(o)
      BY <1>2
    <3>2. (a \o u) \o o = a \o (u \o o)
      <4>1. Regroups(a, u, o)
        BY ONLY <3>1, JoinsAgain
      <4> QED BY ONLY <4>1 DEF Regroups
    <3> QED BY <3>2 DEF au
  <2> HIDE DEF au
  <2>3. (au \o o) \o v = au \o ov
    <3>1. IsSeq(au) /\ IsSeq(o) /\ IsSeq(v)
      BY <1>2, <2>1
    <3>2. (au \o o) \o v = au \o (o \o v)
      <4>1. Regroups(au, o, v)
        BY ONLY <3>1, JoinsAgain
      <4> QED BY ONLY <4>1 DEF Regroups
    <3> QED BY <3>2 DEF ov
  <2> HIDE DEF ov
  <2>4. (au \o ov) \o d = au \o (ov \o d)
    <3>1. IsSeq(au) /\ IsSeq(ov) /\ IsSeq(d)
      BY <1>2, <2>1
    <3>2. Regroups(au, ov, d)
      BY ONLY <3>1, JoinsAgain
    <3> QED BY ONLY <3>2 DEF Regroups
  <2> QED BY <1>1, <2>2, <2>3, <2>4 DEF au, ov
<1>6. Shaped((o \o v) \o d, 1, words, Len(words) + 1, frames)
  BY <1>3, LaidIsShaped DEF Laid, d
<1> HIDE DEF words
<1>7. Shaped((a \o u) \o ((o \o v) \o d), F + 1, words, F + (Len(words) + 1), frames)
  <2> DEFINE q == (o \o v) \o d
             front == a \o u
  <2>1. Shaped(q, 1, words, Len(words) + 1, frames) /\ IsFront(front)
    BY <1>4, <1>6
  <2> HIDE DEF q, front
  <2>2. Shaped(front \o q, Len(front) + 1, words, Len(front) + (Len(words) + 1), frames)
    BY <2>1, Fronted
  <2> QED BY <2>2 DEF q, front
<1> QED BY <1>5, <1>7 DEF HasShape, words, x, v, d
-----------------------------------------------------------------------------
(***************************************************************************)
(* The prompts of the entry points.                                        *)
(***************************************************************************)
\* What is in a prompt.
IsText(x) == IsSeq(x) /\ \A i \in 1..Len(x) : x[i] # Pad /\ x[i] # Bos

\* Every text that is tokenized is one, and as long as the call says.
LEMMA TextsAre ==
  ASSUME req \in Request
  PROVE  /\ IsText(Text) /\ Len(Text) = req.tokens /\ req.tokens \in Nat
         /\ IsText(Tokens("ref", RefTokens)) /\ Len(Tokens("ref", RefTokens)) = RefTokens
         /\ IsText(Description) /\ IsSeq(RefCodes)
<1>1. req.tokens \in Nat
  BY NativeAssumption DEF Request
<1>2. IsText(Text) /\ Len(Text) = req.tokens
  BY <1>1, TokensAre DEF Text, IsText
<1>3. RefTokens \in Nat /\ RefFrames \in Nat /\ DescTokens \in Nat
  BY PipelineAssumption
<1>4. IsText(Tokens("ref", RefTokens)) /\ Len(Tokens("ref", RefTokens)) = RefTokens
  BY <1>3, TokensAre DEF IsText
<1>5. IsText(Description) /\ IsSeq(RefCodes)
  BY <1>3, TokensAre DEF IsText, Description, RefCodes
<1> QED BY <1>1, <1>2, <1>4, <1>5

\* Two texts, one behind the other.
LEMMA TextsJoin ==
  ASSUME NEW x, IsText(x), NEW y, IsText(y)
  PROVE  IsText(x \o y) /\ Len(x \o y) = Len(x) + Len(y)
<1>1. IsSeq(x) /\ IsSeq(y)
  BY DEF IsText
<1>2. \A i \in 1..Len(x \o y) : (x \o y)[i] # Pad
  BY <1>1, NeitherHas DEF IsText
<1>3. \A i \in 1..Len(x \o y) : (x \o y)[i] # Bos
  BY <1>1, NeitherHas DEF IsText
<1>4. IsSeq(x \o y) /\ Len(x \o y) = Len(x) + Len(y)
  BY ONLY <1>1, Concat
<1> QED BY <1>2, <1>3, <1>4 DEF IsText

\* The role, a turn of the user, and what they are followed by.
LEMMA RoleIsFront == IsFront(TextOnly(Role))
BY Markers, Fronts

\* In a turn of the user there is no tts_bos.
LEMMA TurnHasNoBos ==
  ASSUME NEW x, IsText(x)
  PROVE  LET turn == User \o x \o EndOfTurn
         IN  IsSeq(turn) /\ \A i \in 1..Len(turn) : turn[i] # Bos
<1> DEFINE l == User \o x
           turn == l \o EndOfTurn
<1>1. /\ IsSeq(User) /\ IsSeq(x) /\ IsSeq(EndOfTurn)
      /\ \A i \in 1..Len(User) : User[i] # Bos
      /\ \A i \in 1..Len(x) : x[i] # Bos
      /\ \A i \in 1..Len(EndOfTurn) : EndOfTurn[i] # Bos
  BY Markers DEF IsText
<1>2. IsSeq(l) /\ \A i \in 1..Len(l) : l[i] # Bos
  BY ONLY <1>1, NeitherHas DEF l
<1> HIDE DEF l
<1>3. IsSeq(turn) /\ \A i \in 1..Len(turn) : turn[i] # Bos
  BY ONLY <1>1, <1>2, NeitherHas DEF turn
<1> QED BY <1>3 DEF l, turn

\* The frames of a prompt without a reference: none.
LEMMA OnlyCodecBos == IsSeq(<<>>) /\ Under(Pad, <<CodecBos>> \o <<>>) = <<Position(Pad, CodecBos)>>
<1> DEFINE c == <<CodecBos>>
           o == <<Position(Pad, CodecBos)>>
           u == Under(Pad, c)
<1>1. IsSeq(c) /\ Len(c) = 1 /\ c[1] = CodecBos
  BY OneIsSeq
<1>2. c \o <<>> = c
  BY <1>1, ConcatEmptySeq DEF IsSeq
<1>3. IsSeq(o) /\ Len(o) = 1 /\ o[1] = Position(Pad, CodecBos)
  BY OneIsSeq
<1> HIDE DEF c, o
<1>4. IsSeq(u) /\ Len(u) = Len(c) /\ \A i \in 1..Len(c) : u[i] = Position(Pad, c[i])
  BY <1>1, UnderIs
<1> HIDE DEF u
<1>5. Len(u) = Len(o)
  BY <1>1, <1>3, <1>4
<1>6. ASSUME NEW i \in 1..Len(u) PROVE u[i] = o[i]
  <2>1. i = 1 /\ i \in 1..Len(c)
    BY <1>1, <1>4
  <2> QED BY <1>1, <1>3, <1>4, <2>1
<1>7. u = o
  BY <1>3, <1>4, <1>5, <1>6, SameSeq
<1> QED BY <1>2, <1>7, EmptyIsSeq DEF c, o, u

\* A text that is tokenized can be said.
LEMMA TextIsWords ==
  ASSUME NEW x, IsText(x)
  PROVE  /\ IsSeq(Append(x, Eos)) /\ All(x) = <<Bos>> \o Append(x, Eos)
         /\ Words(<<Bos>> \o Append(x, Eos))
         /\ SubSeq(All(x), 1, Len(x) + 2) = All(x)
<1>1. IsSeq(x) /\ \A i \in 1..Len(x) : x[i] # Pad
  BY DEF IsText
<1>2. All(x) = <<Bos>> \o Append(x, Eos) /\ IsSeq(Append(x, Eos))
  BY <1>1, AllIs
<1>3. Words(All(x)) /\ SubSeq(All(x), 1, Len(x) + 2) = All(x)
  BY ONLY <1>1, AllIsWords
<1> QED BY <1>2, <1>3

\* Custom voice and cloned voice,
LEMMA PlainHasShape ==
  ASSUME NEW x, IsText(x)
  PROVE  /\ HasShape(PlainPrompt(SynthesisIds(x)), All(x), <<>>)
         /\ XvectorPrompt(SynthesisIds(x)) = PlainPrompt(SynthesisIds(x))
<1> DEFINE ids == SynthesisIds(x)
           ws == Append(x, Eos)
           a == TextOnly(Role)
<1>1. SubSeq(ids, 1, 3) = Role /\ Stripped(ids, 5) = x
  BY TextIsStripped DEF IsText
<1> HIDE DEF ids
<1>2. PlainPrompt(ids) = a \o Prefixed(CodecPrefix(TRUE, Speaker)) \o Over(ws, CodecPad)
                           \o <<Position(Pad, CodecBos)>>
  BY <1>1 DEF PlainPrompt
<1>3. PICK c : BeforeEnd(c) /\ CodecPrefix(TRUE, Speaker) = c \o <<CodecPad, CodecBos>>
  BY PrefixEnds, BeforeEnds
<1>4. IsFront(a) /\ IsSeq(ws) /\ Words(<<Bos>> \o ws) /\ All(x) = <<Bos>> \o ws
  BY RoleIsFront, TextIsWords
<1> HIDE DEF a, ws
<1>5. HasShape(a \o Prefixed(c \o <<CodecPad, CodecBos>>) \o Over(ws, CodecPad)
                 \o Under(Pad, <<CodecBos>> \o <<>>), <<Bos>> \o ws, <<>>)
  BY <1>3, <1>4, OnlyCodecBos, PromptHasShape
<1>6. HasShape(PlainPrompt(ids), All(x), <<>>)
  BY <1>2, <1>3, <1>4, <1>5, OnlyCodecBos
<1>7. XvectorPrompt(ids) = PlainPrompt(ids)
  <2> DEFINE before == <<Token("think"), Token("think_bos"), Token("language"), Token("think_eos")>>
             bs == before \o Speaker
             e == <<CodecPad, CodecBos>>
             prefix == bs \o e
  <2>1. CodecPrefix(TRUE, Speaker) = prefix
    BY DEF CodecPrefix
  <2>2. /\ IsSeq(before) /\ Len(before) = 4 /\ IsSeq(Speaker) /\ Len(Speaker) = 1
        /\ IsSeq(e) /\ Len(e) = 2 /\ e[2] = CodecBos
    BY Tuples, PromptParts DEF Speaker
  <2>3. XvectorPrompt(ids) = TextOnly(SubSeq(ids, 1, 3)) \o Prefixed(prefix)
          \o Over(Append(Stripped(ids, 5), Eos), CodecPad) \o <<Position(Pad, prefix[7])>>
    BY DEF XvectorPrompt
  <2> HIDE DEF before, e
  <2>4. IsSeq(bs) /\ Len(bs) = Len(before) + Len(Speaker)
    <3>1. IsSeq(before) /\ IsSeq(Speaker)
      BY <2>2
    <3> QED BY ONLY <3>1, Concat DEF bs
  <2> HIDE DEF bs
  <2>5. \A i \in 1..Len(e) : prefix[Len(bs) + i] = e[i]
    <3>1. IsSeq(bs) /\ IsSeq(e)
      BY <2>2, <2>4
    <3> QED BY ONLY <3>1, Concat DEF prefix
  <2> HIDE DEF prefix
  <2>6. prefix[7] = CodecBos
    <3>1. 2 \in 1..Len(e) /\ Len(bs) + 2 = 7
      BY <2>2, <2>4
    <3>2. prefix[Len(bs) + 2] = e[2]
      BY <2>5, <3>1
    <3> QED BY <2>2, <3>1, <3>2
  <2> QED BY <1>1, <1>2, <2>1, <2>3, <2>6 DEF a, ws
<1> QED BY <1>6, <1>7 DEF ids

\* an instructed one,
LEMMA InstructHasShape ==
  ASSUME NEW x, IsText(x), NEW d, IsText(d)
  PROVE  HasShape(InstructPrompt(d, SynthesisIds(x)), All(x), <<>>)
<1> DEFINE p == PlainPrompt(SynthesisIds(x))
           turn == User \o d \o EndOfTurn
           front == IF d = <<>> THEN <<>> ELSE Over(turn, CodecPad)
           words == All(x)
<1>1. HasShape(p, words, <<>>)
  BY PlainHasShape
<1>2. InstructPrompt(d, SynthesisIds(x)) = front \o p
  BY DEF InstructPrompt
<1>3. IsSeq(turn) /\ \A i \in 1..Len(turn) : turn[i] # Bos
  BY TurnHasNoBos
<1> HIDE DEF turn
<1>4. IsFront(front)
  <2>1. IsFront(<<>>)
    BY EmptyIsSeq DEF IsFront
  <2>2. IsFront(Over(turn, CodecPad))
    BY <1>3, Fronts
  <2> QED BY <2>1, <2>2
<1> HIDE DEF p, front, words
<1>5. PICK f, b : Shaped(p, f, words, b, <<>>)
  BY <1>1 DEF HasShape
<1>6. Shaped(front \o p, Len(front) + f, words, Len(front) + b, <<>>)
  BY <1>4, <1>5, Fronted
<1>7. HasShape(front \o p, words, <<>>)
  BY <1>6 DEF HasShape
<1> QED BY <1>2, <1>7 DEF words

\* a voice from a reference, with and without a cache,
LEMMA IclHasShape ==
  ASSUME NEW r, IsText(r), NEW x, IsText(x), NEW frames, IsSeq(frames), NEW language \in BOOLEAN
  PROVE  /\ HasShape(IclPrompt(ReferenceIds(r), SynthesisIds(x), frames, language),
                     All(r \o x), frames)
         /\ FromCache(PromptCache(ReferenceIds(r), frames, language), SynthesisIds(x))
              = IclPrompt(ReferenceIds(r), SynthesisIds(x), frames, language)
<1> DEFINE rs == ReferenceIds(r)
           ids == SynthesisIds(x)
           rx == r \o x
           ws == Append(rx, Eos)
           a == TextOnly(Role)
<1>1. SubSeq(rs, 1, 3) = Role /\ Stripped(rs, 2) = r /\ Stripped(ids, 5) = x
  BY TextIsStripped DEF IsText
<1> HIDE DEF ids, rs
<1>2. IsText(rx)
  BY TextsJoin
<1>3. ws = rx \o <<Eos>> /\ IsSeq(ws) /\ Words(<<Bos>> \o ws) /\ All(rx) = <<Bos>> \o ws
  BY <1>2, TextIsWords, Appended DEF IsText
<1>4. IclPrompt(rs, ids, frames, language)
        = a \o Prefixed(CodecPrefix(language, Speaker)) \o Over(rx \o <<Eos>>, CodecPad)
            \o Under(Pad, <<CodecBos>> \o frames)
  BY <1>1 DEF IclPrompt
<1>5. PICK c : BeforeEnd(c) /\ CodecPrefix(language, Speaker) = c \o <<CodecPad, CodecBos>>
  BY PrefixEnds, BeforeEnds
<1>6. IsFront(a)
  BY RoleIsFront
<1> HIDE DEF a, ws, rx
<1>7. HasShape(a \o Prefixed(c \o <<CodecPad, CodecBos>>) \o Over(ws, CodecPad)
                 \o Under(Pad, <<CodecBos>> \o frames), <<Bos>> \o ws, frames)
  BY <1>3, <1>5, <1>6, PromptHasShape
<1>8. HasShape(IclPrompt(rs, ids, frames, language), All(rx), frames)
  BY <1>3, <1>4, <1>5, <1>7
<1>9. FromCache(PromptCache(rs, frames, language), ids) = IclPrompt(rs, ids, frames, language)
  BY DEF FromCache, PromptCache, IclPrompt
<1> QED BY <1>8, <1>9 DEF rs, ids, rx
-----------------------------------------------------------------------------
(***************************************************************************)
(* A described voice, and the inductive invariant of what is fed.          *)
(***************************************************************************)
\* What has been said with the n-th token.
SaidTo(x, n) == SubSeq(All(x), 1, n)

\* It has n tokens, those that the whole text begins with.
LEMMA SaidToIs ==
  ASSUME NEW x, IsText(x), NEW n \in Nat, n <= Len(x) + 2
  PROVE  /\ IsSeq(SaidTo(x, n)) /\ Len(SaidTo(x, n)) = n
         /\ \A i \in 1..n : SaidTo(x, n)[i] = All(x)[i]
<1>1. IsSeq(All(x)) /\ Len(All(x)) = Len(x) + 2
  BY AllIs DEF IsText
<1> QED BY <1>1, PrefixIs DEF SaidTo

\* and a described one: of the text only the first token.
LEMMA DesignHasShape ==
  ASSUME NEW d, IsText(d), NEW x, IsText(x), NEW language \in BOOLEAN
  PROVE  \E f : Shaped(DesignPrompt(d, Append(x, Eos), language), f, SaidTo(x, 2), f + 1, <<>>)
<1> DEFINE turn == User \o d \o EndOfTurn
           a == TextOnly(turn) \o TextOnly(Role)
           t == Append(x, Eos)[1]
           o == <<Position(Bos, CodecPad)>>
           z == <<Position(t, CodecBos)>>
           q == o \o z
           w == SaidTo(x, 2)
           p == Prefixed(CodecPrefix(language, <<>>))
<1>1. IsFront(a)
  <2>1. IsSeq(turn) /\ \A i \in 1..Len(turn) : turn[i] # Bos
    BY TurnHasNoBos
  <2> HIDE DEF turn
  <2>2. IsFront(TextOnly(turn))
    BY <2>1, Fronts
  <2> QED BY <2>2, RoleIsFront, FrontsJoin
<1>2. DesignPrompt(d, Append(x, Eos), language) = (a \o p) \o z
  BY DEF DesignPrompt
<1>3. PICK c : BeforeEnd(c) /\ CodecPrefix(language, <<>>) = c \o <<CodecPad, CodecBos>>
  BY PrefixEnds, BeforeEnds
<1> DEFINE u == Under(Pad, c)
<1>4. p = u \o o
  BY <1>3, PrefixedIs DEF BeforeEnd
<1>5. IsFront(u)
  BY <1>3, Fronts DEF BeforeEnd
<1>6. /\ IsSeq(o) /\ Len(o) = 1 /\ o[1] = Position(Bos, CodecPad)
      /\ IsSeq(z) /\ Len(z) = 1 /\ z[1] = Position(t, CodecBos)
  BY OneIsSeq
<1>7. w[1] = Bos /\ w[2] = t /\ t # Pad /\ IsSeq(w) /\ Len(w) = 2
  <2>1. IsSeq(x) /\ Len(x) \in Nat /\ Words(All(x)) /\ Len(All(x)) = Len(x) + 2
    BY TextIsWords, AllIs, SeqIsTable DEF IsText
  <2>2. 2 \in Nat /\ 2 <= Len(x) + 2
    BY <2>1
  <2>3. IsSeq(w) /\ Len(w) = 2 /\ w[1] = All(x)[1] /\ w[2] = All(x)[2]
    <3>1. IsSeq(w) /\ Len(w) = 2 /\ \A i \in 1..2 : w[i] = All(x)[i]
      BY <2>2, SaidToIs
    <3> HIDE DEF w
    <3> QED BY <3>1
  <2>4. All(x)[1] = Bos /\ \A i \in 1..Len(x) + 1 : All(x)[1 + i] = Append(x, Eos)[i]
    BY <2>1, AllIs
  <2>5. 1 \in 1..Len(x) + 1 /\ 1 + 1 = 2 /\ 2 \in 1..Len(All(x))
    BY <2>1
  <2>6. All(x)[2] = t
    BY <2>4, <2>5
  <2>7. All(x)[2] # Pad
    BY <2>1, <2>5 DEF Words
  <2> QED BY <2>3, <2>4, <2>6, <2>7
<1> HIDE DEF a, p, u, o, z, t, w
<1>8. IsSeq(q) /\ Len(q) = 2 /\ q[1] = Position(Bos, CodecPad) /\ q[2] = Position(t, CodecBos)
  <2>1. /\ IsSeq(q) /\ Len(q) = Len(o) + Len(z)
        /\ \A i \in 1..Len(o) : q[i] = o[i]
        /\ \A i \in 1..Len(z) : q[Len(o) + i] = z[i]
    <3>1. IsSeq(o) /\ IsSeq(z)
      BY <1>6
    <3> QED BY ONLY <3>1, Concat DEF q
  <2> HIDE DEF q
  <2>2. 1 \in 1..Len(o) /\ 1 \in 1..Len(z)
    BY <1>6
  <2> QED BY <1>6, <2>1, <2>2
<1> HIDE DEF q
<1>9. Shaped(q, 1, w, 2, <<>>)
  <2>1. /\ q[1].text = Bos /\ q[1].codec = CodecPad /\ q[2].text = t /\ q[2].codec = CodecBos
    BY <1>8, PositionIs
  <2>2. /\ 1 \in 1..Len(q) /\ 2 \in 1..Len(q) /\ 1 + Len(w) - 1 <= Len(q) /\ 2 + Len(<<>>) = Len(q)
        /\ 1..Len(<<>>) = {} /\ 1..1 - 1 = {} /\ 1..2 - 1 = {1}
    BY <1>7, <1>8, EmptyIsSeq
  <2>3. ASSUME NEW i \in 1..Len(q)
        PROVE  i < 1 + Len(w) /\ Speaks(q[i]) /\ q[i].text = w[i - 1 + 1]
    <3>1. i = 1 \/ i = 2
      BY <1>8
    <3>2. CASE i = 1
      BY <1>7, <2>1, <3>2, MarksDiffer DEF Speaks
    <3>3. CASE i = 2
      BY <1>7, <2>1, <3>3, MarksDiffer DEF Speaks
    <3> QED BY <3>1, <3>2, <3>3
  <2>4. \A k \in 1..2 - 1 : q[k].codec # CodecBos
    BY <2>1, <2>2, MarksDiffer
  <2>5. \A k \in 1..1 - 1 : q[k].text # Bos
    BY <2>2
  <2>6. \A i \in 1..Len(<<>>) : q[2 + i].codec = <<>>[i]
    BY <2>2
  <2> QED BY <1>7, <1>8, <2>1, <2>2, <2>3, <2>4, <2>5, <2>6, EmptyIsSeq DEF Shaped
<1>10. (a \o p) \o z = (a \o u) \o q
  <2>1. IsSeq(a) /\ IsSeq(u) /\ IsSeq(o) /\ IsSeq(z)
    BY <1>1, <1>5, <1>6 DEF IsFront
  <2> DEFINE au == a \o u
  <2>2. IsSeq(au)
    BY <2>1, Joins2
  <2>3. a \o (u \o o) = au \o o
    <3> HIDE DEF a, u, o
    <3>1. Regroups(a, u, o)
      BY ONLY <2>1, JoinsAgain
    <3> QED BY ONLY <3>1 DEF Regroups, au
  <2> HIDE DEF au
  <2>4. (au \o o) \o z = au \o (o \o z)
    <3>1. IsSeq(au) /\ IsSeq(o) /\ IsSeq(z)
      BY <2>1, <2>2
    <3>2. Regroups(au, o, z)
      BY ONLY <3>1, JoinsAgain
    <3> QED BY ONLY <3>2 DEF Regroups
  <2> QED BY <1>4, <2>3, <2>4 DEF au, q
<1> DEFINE front == a \o u
           F == Len(front)
<1>11. IsFront(front)
  BY <1>1, <1>5, FrontsJoin
<1> HIDE DEF front
<1>12. Shaped(front \o q, F + 1, w, F + 2, <<>>)
  BY <1>9, <1>11, Fronted
<1>13. F + 2 = (F + 1) + 1
  <2>1. F \in Nat
    BY <1>11, SeqIsTable DEF IsFront
  <2> QED BY <2>1
<1> QED BY <1>2, <1>10, <1>12, <1>13 DEF front, w

\* Those that begin with a reference, what they have to say, and how much of it by now.
InContext == {"icl", "icl timed", "icl trace", "icl stream", "icl session"}
Meant == IF session.kind \in InContext THEN Tokens("ref", RefTokens) \o Text ELSE Text
Count ==
  IF session.kind \in InContext THEN RefTokens + (req.tokens + 2)
  ELSE IF session.kind = "design session" THEN MinOf(req.tokens + 2, 2 + step) ELSE req.tokens + 2
ToHear ==
  IF session.kind \in InContext THEN RefCodes \o Tokens("frame", step) ELSE Tokens("frame", step)
Icl == IclPrompt(RefIds, Ids, RefCodes, session.language)

PromptInv ==
  /\ req \in Request /\ session \in [kind : Kinds, language : BOOLEAN] /\ step \in Nat
  /\ \E f, b : /\ Shaped(fed, f, SaidTo(Meant, Count), b, ToHear)
               /\ session.kind = "design session" => b = f + 1
  /\ session.kind \in InContext => SubSeq(fed, 1, Len(fed) - step) = Icl /\ step <= Len(fed)

\* What there is to say is a text, with the reference's in front of it.
LEMMA MeantIs ==
  ASSUME req \in Request
  PROVE  /\ IsText(Meant) /\ Len(Meant) \in Nat /\ req.tokens \in Nat
         /\ Len(Meant) = IF session.kind \in InContext THEN RefTokens + req.tokens ELSE req.tokens
<1>1. /\ IsText(Text) /\ Len(Text) = req.tokens /\ req.tokens \in Nat
      /\ IsText(Tokens("ref", RefTokens)) /\ Len(Tokens("ref", RefTokens)) = RefTokens
  BY TextsAre
<1>2. RefTokens \in Nat
  BY PipelineAssumption
<1>3. /\ IsText(Tokens("ref", RefTokens) \o Text)
      /\ Len(Tokens("ref", RefTokens) \o Text) = RefTokens + req.tokens
  BY <1>1, TextsJoin
<1> QED BY <1>1, <1>2, <1>3 DEF Meant

\* That is what the property asks for.
LEMMA PromptInvSuffices == PromptInv => PromptIsWhole
<1> SUFFICES ASSUME PromptInv PROVE PromptIsWhole
  OBVIOUS
<1>1. SpokenOnce(fed, Meant, Count, ToHear)
  <2>1. PICK f, b : Shaped(fed, f, SaidTo(Meant, Count), b, ToHear)
    BY DEF PromptInv
  <2>2. SaidTo(Meant, Count) = SubSeq(<<Bos>> \o Meant \o <<Eos>>, 1, Count)
    BY DEF SaidTo, All
  <2> QED BY <2>1, <2>2, ShapedIsSpoken
<1>2. ReferenceIsHeard
  BY ReferenceHeard
<1>3. session.kind \in Kinds /\ "design session" \notin InContext
  BY DEF PromptInv, InContext
<1>4. CASE session.kind \in InContext
  <2>1. SpokenOnce(fed, Tokens("ref", RefTokens) \o Text, RefTokens + (req.tokens + 2),
                   RefCodes \o Tokens("frame", step))
    BY <1>1, <1>4 DEF Meant, Count, ToHear
  <2>2. SubSeq(fed, 1, Len(fed) - step) = IclPrompt(RefIds, Ids, RefCodes, session.language)
    BY <1>4 DEF PromptInv, Icl
  <2> QED BY <1>2, <1>4, <2>1, <2>2 DEF PromptIsWhole, InContext
<1>5. CASE session.kind = "design session"
  <2>1. SpokenOnce(fed, Text, MinOf(req.tokens + 2, 2 + step), Tokens("frame", step))
    BY <1>1, <1>3, <1>5 DEF Meant, Count, ToHear
  <2> QED BY <1>3, <1>5, <2>1 DEF PromptIsWhole, InContext
<1>6. CASE session.kind \notin InContext /\ session.kind # "design session"
  <2>1. SpokenOnce(fed, Text, req.tokens + 2, Tokens("frame", step))
    BY <1>1, <1>6 DEF Meant, Count, ToHear
  <2> QED BY <1>6, <2>1 DEF PromptIsWhole, InContext
<1> QED BY <1>4, <1>5, <1>6

\* One more frame comes last.
LEMMA FramesGrow ==
  ASSUME NEW n \in Nat
  PROVE  /\ Tokens("frame", n + 1) = Append(Tokens("frame", n), <<"frame", n + 1>>)
         /\ RefCodes \o Tokens("frame", n + 1)
              = Append(RefCodes \o Tokens("frame", n), <<"frame", n + 1>>)
<1> DEFINE t == Tokens("frame", n)
           u == Tokens("frame", n + 1)
           e == <<"frame", n + 1>>
           v == Append(t, e)
<1>1. IsSeq(t) /\ Len(t) = n /\ \A i \in 1..n : t[i] = <<"frame", i>>
  BY TokensAre
<1>2. IsSeq(u) /\ Len(u) = n + 1 /\ \A i \in 1..n + 1 : u[i] = <<"frame", i>>
  <2>1. n + 1 \in Nat
    OBVIOUS
  <2> QED BY <2>1, TokensAre
<1> HIDE DEF t, u
<1>3. IsSeq(v) /\ Len(v) = n + 1 /\ (\A i \in 1..n : v[i] = t[i]) /\ v[n + 1] = e
  BY <1>1, AppendedIs
<1> HIDE DEF v
<1>4. ASSUME NEW i \in 1..n + 1 PROVE u[i] = v[i]
  <2>1. CASE i = n + 1
    BY <1>2, <1>3, <2>1
  <2>2. CASE i # n + 1
    <3>1. i \in 1..n
      BY <2>2
    <3> QED BY <1>1, <1>2, <1>3, <3>1
  <2> QED BY <2>1, <2>2
<1>5. u = v
  BY <1>2, <1>3, <1>4, SameSeq
<1>6. RefCodes \o u = Append(RefCodes \o t, e)
  <2> DEFINE r == RefCodes
             o == <<e>>
             rt == r \o t
  <2>1. IsSeq(r)
    BY PipelineAssumption, TokensAre DEF RefCodes
  <2>2. IsSeq(o)
    BY OneIsSeq
  <2>3. IsSeq(rt)
    BY <1>1, <2>1, Joins2
  <2> HIDE DEF o, r
  <2>4. Append(t, e) = t \o o
    BY <1>1, Appended DEF o
  <2>5. Append(rt, e) = rt \o o
    BY <2>3, Appended DEF o
  <2>6. (r \o t) \o o = r \o (t \o o)
    <3>1. IsSeq(r) /\ IsSeq(t) /\ IsSeq(o)
      BY <1>1, <2>1, <2>2
    <3>2. Regroups(r, t, o)
      BY ONLY <3>1, JoinsAgain
    <3> QED BY ONLY <3>2 DEF Regroups
  <2> QED BY <1>5, <2>4, <2>5, <2>6 DEF v, r
<1> QED BY <1>5, <1>6 DEF t, u, v

\* The text that trails behind the prompt of a described voice.
LEMMA TrailingIs ==
  ASSUME NEW x, IsText(x), NEW n \in Nat
  PROVE  TextStep(Tail(Append(x, Eos)), n) = IF n < Len(x) THEN All(x)[n + 3] ELSE Pad
<1> DEFINE y == Append(x, Eos)
           t == Tail(y)
           X == Len(x)
<1>1. X \in Nat /\ IsSeq(x)
  BY SeqIsTable DEF IsText
<1>2. IsSeq(y) /\ Len(y) = X + 1 /\ \A i \in 1..X + 1 : All(x)[1 + i] = y[i]
  BY <1>1, AllIs
<1> HIDE DEF y
<1>3. Len(t) = X /\ \A i \in 1..X : t[i] = y[i + 1]
  <2>1. y # <<>>
    BY <1>1, <1>2, EmptyIsSeq
  <2>2. y \in Seq(Own(y))
    BY <1>2 DEF IsSeq
  <2>3. Len(t) = Len(y) - 1 /\ \A i \in 1..Len(t) : t[i] = y[i + 1]
    BY <2>1, <2>2, HeadTailProperties
  <2> QED BY <1>1, <1>2, <2>3
<1> HIDE DEF t, X
<1>4. ASSUME n < X PROVE t[n + 1] = All(x)[n + 3]
  <2>1. n + 1 \in 1..X /\ n + 2 \in 1..X + 1 /\ (n + 1) + 1 = n + 2 /\ 1 + (n + 2) = n + 3
    BY <1>1, <1>4
  <2>2. t[n + 1] = y[n + 2]
    BY <1>3, <2>1
  <2>3. All(x)[n + 3] = y[n + 2]
    BY <1>2, <2>1
  <2> QED BY <2>2, <2>3
<1> QED BY <1>3, <1>4 DEF TextStep, y, t, X

\* What has been said grows by the next token.
LEMMA SaidGrows ==
  ASSUME NEW x, IsText(x), NEW n \in Nat, n < Len(x) + 2
  PROVE  SaidTo(x, n + 1) = Append(SaidTo(x, n), All(x)[n + 1]) /\ All(x)[n + 1] # Pad
<1> DEFINE s == SaidTo(x, n)
           t == SaidTo(x, n + 1)
           e == All(x)[n + 1]
           v == Append(s, e)
<1>1. IsSeq(x) /\ Len(x) \in Nat
  BY SeqIsTable DEF IsText
<1>2. IsSeq(s) /\ Len(s) = n /\ \A i \in 1..n : s[i] = All(x)[i]
  <2>1. n <= Len(x) + 2
    BY <1>1
  <2> QED BY <2>1, SaidToIs
<1>3. IsSeq(t) /\ Len(t) = n + 1 /\ \A i \in 1..n + 1 : t[i] = All(x)[i]
  <2>1. n + 1 <= Len(x) + 2 /\ n + 1 \in Nat
    BY <1>1
  <2> QED BY <2>1, SaidToIs
<1> HIDE DEF s, t
<1>4. IsSeq(v) /\ Len(v) = n + 1 /\ (\A i \in 1..n : v[i] = s[i]) /\ v[n + 1] = e
  BY <1>2, AppendedIs
<1> HIDE DEF v
<1>5. ASSUME NEW i \in 1..n + 1 PROVE t[i] = v[i]
  <2>1. CASE i = n + 1
    BY <1>3, <1>4, <2>1
  <2>2. CASE i # n + 1
    <3>1. i \in 1..n
      BY <2>2
    <3> QED BY <1>2, <1>3, <1>4, <3>1
  <2> QED BY <2>1, <2>2
<1>6. t = v
  BY <1>3, <1>4, <1>5, SameSeq
<1>7. e # Pad
  <2>1. IsSeq(x) /\ \A i \in 1..Len(x) : x[i] # Pad
    BY DEF IsText
  <2>2. Words(All(x)) /\ Len(All(x)) = Len(x) + 2
    BY <2>1, AllIsWords, AllIs
  <2>3. n + 1 \in 1..Len(All(x))
    BY <1>1, <2>2
  <2> QED BY <2>2, <2>3 DEF Words
<1> QED BY <1>6, <1>7 DEF s, t, v

\* The prompt begins as it should,
LEMMA PromptInit == PInit => PromptInv
<1> SUFFICES ASSUME PInit PROVE PromptInv
  OBVIOUS
<1>1. /\ req \in Request /\ session \in [kind : Kinds, language : BOOLEAN] /\ step = 0
      /\ fed = Call.prompt
  BY DEF PInit, Init
<1>2. session.kind \in Kinds /\ session.language \in BOOLEAN
  BY <1>1
<1>3. /\ IsText(Text) /\ IsText(Description) /\ IsText(Tokens("ref", RefTokens)) /\ IsSeq(RefCodes)
  BY <1>1, TextsAre
<1>4. /\ IsText(Meant) /\ Len(Meant) \in Nat /\ req.tokens \in Nat
      /\ Len(Meant) = IF session.kind \in InContext THEN RefTokens + req.tokens ELSE req.tokens
  BY <1>1, MeantIs
<1>5. Tokens("frame", 0) = <<>>
  <2> DEFINE t == Tokens("frame", 0)
  <2>1. IsSeq(t) /\ Len(t) = 0
    BY TokensAre
  <2> HIDE DEF t
  <2>2. t = <<>>
    BY <2>1, NothingIs
  <2> QED BY <2>2 DEF t
<1>6. "design session" \notin InContext
  BY DEF InContext
<1>7. session.kind # "design session" => SaidTo(Meant, Count) = All(Meant)
  <2>1. SubSeq(All(Meant), 1, Len(Meant) + 2) = All(Meant)
    BY <1>4, TextIsWords
  <2>2. ASSUME session.kind # "design session" PROVE Count = Len(Meant) + 2
    <3>1. RefTokens \in Nat
      BY PipelineAssumption
    <3>2. CASE session.kind \in InContext
      <4>1. Count = RefTokens + (req.tokens + 2)
        BY <2>2, <3>2 DEF Count
      <4> QED BY <1>4, <3>1, <3>2, <4>1
    <3>3. CASE session.kind \notin InContext
      <4>1. Count = req.tokens + 2
        BY <2>2, <3>3 DEF Count
      <4> QED BY <1>4, <3>3, <4>1
    <3> QED BY <3>2, <3>3
  <2> QED BY <2>1, <2>2 DEF SaidTo
<1>8. RefIds = ReferenceIds(Tokens("ref", RefTokens)) /\ Ids = SynthesisIds(Text)
  BY DEF RefIds, Ids
<1> USE DEF Streams, AllAtOnce
<1>9. CASE session.kind \in InContext
  <2>1. /\ HasShape(Icl, All(Tokens("ref", RefTokens) \o Text), RefCodes)
        /\ FromCache(PromptCache(RefIds, RefCodes, session.language), Ids) = Icl
    BY <1>2, <1>3, <1>8, IclHasShape DEF Icl
  <2>2. Call.prompt = Icl
    BY <1>9, <2>1 DEF Call, InContext, GenerateWithIcl, GenerateWithIclTimed, TraceWithIcl,
       GenerateWithIclStreaming, GenerateWithIclSession, Icl
  <2>3. ToHear = RefCodes
    <3>1. RefCodes \o <<>> = RefCodes
      BY <1>3, ConcatEmptySeq DEF IsSeq
    <3> QED BY <1>1, <1>5, <1>9, <3>1 DEF ToHear
  <2>4. HasShape(fed, SaidTo(Meant, Count), ToHear)
    BY <1>1, <1>6, <1>7, <1>9, <2>1, <2>2, <2>3 DEF Meant
  <2>5. IsSeq(fed) /\ Len(fed) \in Nat
    <3>1. IsSeq(fed)
      BY <2>4 DEF HasShape, Shaped
    <3> QED BY <3>1, SeqIsTable
  <2>6. SubSeq(fed, 1, Len(fed) - step) = Icl /\ step <= Len(fed)
    <3> DEFINE n == Len(fed)
               t == SubSeq(fed, 1, n)
    <3>1. n \in Nat /\ n <= Len(fed)
      BY <2>5
    <3>2. IsSeq(t) /\ Len(t) = n /\ \A i \in 1..n : t[i] = fed[i]
      BY <2>5, <3>1, PrefixIs
    <3> HIDE DEF t
    <3>3. t = fed
      BY <2>5, <3>2, SameSeq
    <3>4. Len(fed) - step = n
      BY <1>1, <3>1
    <3> QED BY <1>1, <2>2, <3>1, <3>3, <3>4 DEF t
  <2> QED BY <1>1, <1>6, <1>9, <2>4, <2>6 DEF PromptInv, HasShape
<1>10. CASE session.kind = "design session"
  <2>1. \E f : Shaped(DesignPrompt(Description, SpokenText, session.language), f, SaidTo(Text, 2),
                      f + 1, <<>>)
    BY <1>2, <1>3, DesignHasShape DEF SpokenText
  <2>2. Call.prompt = DesignPrompt(Description, SpokenText, session.language)
    BY <1>10 DEF Call, GenerateWithDesignSession
  <2>3. ToHear = <<>> /\ Meant = Text /\ Count = 2
    <3>1. MinOf(req.tokens + 2, 2 + 0) = 2
      BY <1>4 DEF MinOf
    <3> QED BY <1>1, <1>5, <1>6, <1>10, <3>1 DEF ToHear, Meant, Count
  <2> QED BY <1>1, <1>6, <1>10, <2>1, <2>2, <2>3 DEF PromptInv
<1>11. CASE session.kind \notin InContext /\ session.kind # "design session"
  <2>1. /\ HasShape(PlainPrompt(Ids), All(Text), <<>>) /\ XvectorPrompt(Ids) = PlainPrompt(Ids)
        /\ HasShape(InstructPrompt(Description, Ids), All(Text), <<>>)
    BY <1>3, <1>8, PlainHasShape, InstructHasShape
  <2>2. Call.prompt = PlainPrompt(Ids) \/ Call.prompt = InstructPrompt(Description, Ids)
    BY <1>2, <1>11, <2>1 DEF Call, Kinds, InContext, GenerateWithParams, GenerateWithInstruct,
       GenerateWithXvector
  <2>3. ToHear = <<>> /\ Meant = Text
    BY <1>1, <1>5, <1>11 DEF ToHear, Meant
  <2>4. HasShape(fed, SaidTo(Meant, Count), ToHear)
    BY <1>1, <1>7, <1>11, <2>1, <2>2, <2>3
  <2> QED BY <1>1, <1>11, <2>4 DEF PromptInv, HasShape
<1> QED BY <1>9, <1>10, <1>11

\* and goes on so.
LEMMA PromptNext == PromptInv /\ [PNext]_plvars => PromptInv'
<1> SUFFICES ASSUME PromptInv, [PNext]_plvars PROVE PromptInv'
  OBVIOUS
<1>1. /\ req \in Request /\ session \in [kind : Kinds, language : BOOLEAN] /\ step \in Nat
      /\ UNCHANGED <<req, session>>
  <2>1. UNCHANGED req
    BY DEF PNext, Next, Generate, EndOfSpeech, HitCap, ChunkReady, FinalBatch, Return,
       Finished, vars, plvars
  <2>2. UNCHANGED session
    BY DEF PNext, plvars
  <2> QED BY <2>1, <2>2 DEF PromptInv
<1>2. Meant' = Meant /\ Icl' = Icl
  BY <1>1 DEF Meant, Icl, Text, RefIds, Ids, RefCodes
<1>3. CASE step' = step /\ fed' = fed
  <2>1. Count' = Count /\ ToHear' = ToHear
    BY <1>1, <1>3 DEF Count, ToHear, RefCodes
  <2>2. SaidTo(Meant, Count)' = SaidTo(Meant, Count)
    BY <1>2, <2>1
  <2> QED BY <1>1, <1>2, <1>3, <2>1, <2>2 DEF PromptInv
<1>4. CASE PNext /\ step' # step
  <2> DEFINE t == TextStep(Call.trailing, step)
             c == <<"frame", step + 1>>
  <2>1. step' = step + 1
    BY <1>1, <1>4 DEF PNext, Next, Generate, EndOfSpeech, HitCap, ChunkReady, FinalBatch, Return,
       Finished, vars
  <2>2. fed' = Append(fed, Position(t, c))
    BY <1>4, <2>1 DEF PNext, Feed
  <2>3. PICK f, b : /\ Shaped(fed, f, SaidTo(Meant, Count), b, ToHear)
                    /\ session.kind = "design session" => b = f + 1
    BY DEF PromptInv
  <2>4. ToHear' = Append(ToHear, c)
    BY <1>1, <2>1, FramesGrow DEF ToHear, RefCodes
  <2>5. /\ IsText(Meant) /\ Len(Meant) \in Nat /\ req.tokens \in Nat
        /\ Len(Meant) = IF session.kind \in InContext THEN RefTokens + req.tokens ELSE req.tokens
    BY <1>1, MeantIs
  <2>6. "design session" \notin InContext /\ session.kind \in Kinds
    BY <1>1 DEF InContext
  <2>9. /\ req' \in Request /\ session' \in [kind : Kinds, language : BOOLEAN] /\ step' \in Nat
        /\ session' = session /\ InContext' = InContext
    BY <1>1, <2>1 DEF Request, InContext
  <2> HIDE DEF c
  <2>7. CASE session.kind # "design session"
    <3>1. Count' = Count
      BY <1>1, <2>7 DEF Count
    <3>2. t = Pad
      <4>1. Call.trailing = <<>>
        BY <2>6, <2>7 DEF Call, Kinds, Streams, AllAtOnce, GenerateWithParams, GenerateWithInstruct,
           GenerateWithXvector, GenerateWithIcl, GenerateWithIclTimed, TraceWithIcl,
           GenerateWithIclStreaming, GenerateWithIclSession
      <4>2. ~(step < Len(<<>>))
        BY <1>1, EmptyIsSeq
      <4> QED BY <4>1, <4>2 DEF TextStep
    <3> HIDE DEF t
    <3>3. Shaped(fed', f, SaidTo(Meant, Count), b, ToHear')
      BY <2>2, <2>3, <2>4, <3>2, FrameFed
    <3>4. SaidTo(Meant, Count)' = SaidTo(Meant, Count)
      BY <1>2, <3>1
    <3>5. session.kind \in InContext
            => SubSeq(fed', 1, Len(fed') - step') = Icl /\ step' <= Len(fed')
      <4> SUFFICES ASSUME session.kind \in InContext
                   PROVE  SubSeq(fed', 1, Len(fed') - step') = Icl /\ step' <= Len(fed')
        OBVIOUS
      <4>0. SubSeq(fed, 1, Len(fed) - step) = Icl /\ step <= Len(fed)
        BY DEF PromptInv
      <4> DEFINE p == fed'
                 n == Len(fed) - step
                 l == SubSeq(fed, 1, n)
                 r == SubSeq(p, 1, n)
      <4>1. IsSeq(fed) /\ Len(fed) \in Nat
        <5>1. IsSeq(fed)
          BY <2>3 DEF Shaped
        <5> QED BY <5>1, SeqIsTable
      <4>2. n \in Nat /\ n <= Len(fed) /\ l = Icl
        BY <1>1, <4>1, <4>0
      <4>3. IsSeq(p) /\ Len(p) = Len(fed) + 1 /\ \A i \in 1..Len(fed) : p[i] = fed[i]
        BY <2>2, <4>1, AppendedIs
      <4> HIDE DEF p
      <4>4. Len(p) - step' = n /\ step' <= Len(p)
        BY <1>1, <2>1, <4>1, <4>2, <4>3
      <4> HIDE DEF n
      <4>5. IsSeq(l) /\ Len(l) = n /\ \A i \in 1..n : l[i] = fed[i]
        BY <4>1, <4>2, PrefixIs
      <4>6. IsSeq(r) /\ Len(r) = n /\ \A i \in 1..n : r[i] = p[i]
        <5>1. n <= Len(p)
          BY <4>1, <4>2, <4>3
        <5> QED BY <4>2, <4>3, <5>1, PrefixIs
      <4> HIDE DEF l, r
      <4>7. ASSUME NEW i \in 1..n PROVE l[i] = r[i]
        <5>1. i \in 1..Len(fed)
          BY <4>1, <4>2
        <5> QED BY <4>3, <4>5, <4>6, <5>1
      <4>8. l = r
        BY <4>5, <4>6, <4>7, SameSeq
      <4> QED BY <4>2, <4>4, <4>8 DEF r, p
    <3>6. (\E x, y : /\ Shaped(fed, x, SaidTo(Meant, Count), y, ToHear)
                     /\ session.kind = "design session" => y = x + 1)'
      BY <1>1, <2>7, <3>3, <3>4
    <3> QED BY <1>2, <3>5, <3>6, <2>9 DEF PromptInv
  <2>8. CASE session.kind = "design session"
    <3>1. Meant = Text /\ Len(Meant) = req.tokens /\ Count = MinOf(req.tokens + 2, 2 + step)
          /\ Count' = MinOf(req.tokens + 2, 2 + (step + 1))
      BY <1>1, <2>1, <2>5, <2>6, <2>8 DEF Meant, Count
    <3>2. t = IF step < req.tokens THEN All(Meant)[step + 3] ELSE Pad
      <4>1. Call.trailing = Tail(Append(Text, Eos))
        BY <2>8 DEF Call, GenerateWithDesignSession, Streams, SpokenText
      <4>2. TextStep(Tail(Append(Meant, Eos)), step)
              = IF step < Len(Meant) THEN All(Meant)[step + 3] ELSE Pad
        BY <1>1, <2>5, TrailingIs
      <4> QED BY <3>1, <4>1, <4>2
    <3> HIDE DEF t
    <3>3. CASE step < req.tokens
      <4>1. /\ Count = step + 2 /\ Count' = (step + 2) + 1 /\ step + 2 \in Nat
            /\ step + 2 < Len(Meant) + 2 /\ (step + 2) + 1 = step + 3 /\ step + 2 <= Len(Meant) + 2
        BY <1>1, <2>5, <3>1, <3>3 DEF MinOf
      <4>2. SaidTo(Meant, Count') = Append(SaidTo(Meant, Count), t) /\ t # Pad
        <5>1. /\ SaidTo(Meant, (step + 2) + 1)
                   = Append(SaidTo(Meant, step + 2), All(Meant)[(step + 2) + 1])
              /\ All(Meant)[(step + 2) + 1] # Pad
          BY <2>5, <4>1, SaidGrows
        <5> QED BY <3>2, <3>3, <4>1, <5>1
      <4>3. f + Len(SaidTo(Meant, Count)) - 1 = Len(fed)
        <5>1. Len(SaidTo(Meant, Count)) = step + 2
          BY <2>5, <4>1, SaidToIs
        <5>2. Len(ToHear) = step
          BY <1>1, <2>6, <2>8, TokensAre DEF ToHear
        <5>3. b = f + 1 /\ b + Len(ToHear) = Len(fed) /\ f \in 1..Len(fed) /\ Len(fed) \in Nat
          BY <2>3, <2>8, SeqIsTable DEF Shaped
        <5> QED BY <1>1, <5>1, <5>2, <5>3
      <4>4. c # None
        BY <1>1 DEF c, None, Token
      <4>5. Shaped(fed', f, SaidTo(Meant, Count'), b, ToHear')
        BY <2>2, <2>3, <2>4, <4>2, <4>3, <4>4, WordFed
      <4>6. SaidTo(Meant, Count)' = SaidTo(Meant, Count')
        BY <1>2
      <4>7. (\E x, y : /\ Shaped(fed, x, SaidTo(Meant, Count), y, ToHear)
                       /\ session.kind = "design session" => y = x + 1)'
        BY <1>1, <2>3, <2>8, <4>5, <4>6
      <4> QED BY <2>6, <2>8, <4>7, <2>9 DEF PromptInv
    <3>4. CASE ~(step < req.tokens)
      <4>1. Count' = Count
        BY <1>1, <2>5, <3>1, <3>4 DEF MinOf
      <4>2. Shaped(fed', f, SaidTo(Meant, Count), b, ToHear')
        BY <2>2, <2>3, <2>4, <3>2, <3>4, FrameFed
      <4>3. SaidTo(Meant, Count)' = SaidTo(Meant, Count)
        BY <1>2, <4>1
      <4>4. (\E x, y : /\ Shaped(fed, x, SaidTo(Meant, Count), y, ToHear)
                       /\ session.kind = "design session" => y = x + 1)'
        BY <1>1, <2>3, <2>8, <4>2, <4>3
      <4> QED BY <2>6, <2>8, <4>4, <2>9 DEF PromptInv
    <3> QED BY <3>3, <3>4
  <2> QED BY <2>7, <2>8
<1>5. CASE PNext /\ step' = step
  BY <1>3, <1>5 DEF PNext, Feed
<1>6. CASE UNCHANGED plvars
  BY <1>3, <1>6 DEF plvars, vars
<1> QED BY <1>4, <1>5, <1>6

\* Whoever calls, with whatever text and reference: the talker is fed each token of
\* the text once and in order, and behind it the frames; the prompt from a cache is
\* the prompt without; and the reference's frames hear all of the recording.
THEOREM PromptsAreWhole == PSpec => []PromptIsWhole
BY PromptInit, PromptNext, PromptInvSuffices, PTL DEF PSpec
-----------------------------------------------------------------------------
(***************************************************************************)
(* All together.                                                           *)
(***************************************************************************)
\* The entry points, the networks and the vocoder leave the loop's control as it is:
\* so every call hands over each frame once, keeps the engine contract, and says, hears,
\* samples and decodes as said above.
THEOREM PipelineIsSafe ==
  PSpec => /\ [](/\ EachFrameOnce /\ TalkerSeesAll /\ SamplesSpeechOrEnd
                 /\ DecodedAsWhole /\ PromptIsWhole)
           /\ ImplementsEngine
<1>1. PInit => Init
  BY DEF PInit
<1>2. [PNext]_plvars => [Next]_vars
  BY DEF PNext, plvars
<1>3. PSpec => Spec
  BY <1>1, <1>2, PTL DEF PSpec, Spec
<1> QED
  BY <1>3, FramesOnce, LoopImplementsEngine, TalkerHearsAll, CanAlwaysEnd, DecodesAsWhole,
     PromptsAreWhole, PTL
=============================================================================
