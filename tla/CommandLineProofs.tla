-------------------------- MODULE CommandLineProofs --------------------------
(***************************************************************************)
(* Proofs about the commands of spqx: the portable engine (GgmlStream.tla),*)
(* the command that speaks with it (Say.tla), the life of a frozen voice   *)
(* (VoiceInstrument.tla) and the voice library (VoiceLibrary.tla), each    *)
(* for every value of its constants, in a section of its own.              *)
(***************************************************************************)
EXTENDS MCCommandLine, FiniteSetTheorems, SequenceTheorems, TLAPS

-----------------------------------------------------------------------------
(* The portable engine, for every frame cap and batch size: it never       *)
(* reports cut-off speech as complete, and it keeps the engine contract.   *)

\* The library runs only while no callback has told it to stop, and one of them
\* says stop or fails, never both.
CallInv ==
  /\ max \in Nat /\ samples \in Nat /\ offers \in Nat
  /\ lib \in {"running", "asked to stop", "ended"}
  /\ lib = "running" => ~stopped /\ ~failed
  /\ lib = "asked to stop" => stopped \/ failed
  /\ ~(stopped /\ failed)
  /\ lib # "ended" => result = "none"

\* A library that ended well has finished the speech or reached the cap, unless
\* it was told to stop.
EndInv ==
  /\ status \in {"none", "ok", "cancelled", "error"}
  /\ lib = "ended" => status # "none"
  /\ lib = "ended" /\ status = "ok" => spoke \/ samples >= max \/ stopped \/ failed
  /\ status = "cancelled" => stopped \/ failed
  /\ result # "none" => result = Outcome

FlagInv == stopped \in BOOLEAN

GgmlInv == CallInv /\ EndInv /\ FlagInv

\* Every step keeps the flag a truth value.
LEMMA NextFlagInv == FlagInv /\ [Next]_vars => FlagInv'
<1> SUFFICES ASSUME FlagInv, [Next]_vars PROVE FlagInv'
  OBVIOUS
<1> USE DEF FlagInv
<1>1. CASE CancelSaysYes \/ CancelPanics \/ BadChunk
  BY <1>1 DEF CancelSaysYes, CancelPanics, BadChunk
<1>2. ASSUME NEW n \in 1..MaxBatch, Chunk(n) PROVE FlagInv'
  BY <1>2 DEF Chunk, Remembered
<1>3. CASE EndOfSpeech \/ HitCap \/ Break \/ Obey \/ Classify
  BY <1>3 DEF EndOfSpeech, HitCap, Break, Obey, Classify
<1>4. CASE Finished \/ UNCHANGED vars
  BY <1>4, SMT DEF Finished, vars
<1>5. CASE Again
  BY <1>5 DEF Again
<1> QED BY <1>1, <1>2, <1>3, <1>4, <1>5 DEF Next

\* The invariant of the portable engine holds at the start.
LEMMA GgmlInit == Init => GgmlInv
<1> SUFFICES ASSUME Init PROVE GgmlInv
  OBVIOUS
<1>1. CallInv
  BY GgmlAssumption DEF Init, CallInv
<1>2. EndInv
  BY DEF Init, EndInv
<1>3. FlagInv
  BY Zenon DEF Init, FlagInv
<1> QED BY <1>1, <1>2, <1>3 DEF GgmlInv

\* Every callback, every end of the library and the classification keep it.
LEMMA GgmlNext == CallInv /\ EndInv /\ [Next]_vars => (CallInv /\ EndInv)'
<1> SUFFICES ASSUME CallInv, EndInv, [Next]_vars PROVE (CallInv /\ EndInv)'
  OBVIOUS
<1>a. 1..MaxFrames \subseteq Nat
  BY GgmlAssumption
<1>0. \A n \in 1..MaxBatch : /\ n \in Nat /\ samples + n \in Nat
                             /\ max \in Nat /\ offers + 1 \in Nat
  <2>1. samples \in Nat /\ max \in Nat /\ offers \in Nat
    BY Zenon DEF CallInv
  <2>2. \A n \in 1..MaxBatch : n \in Nat
    BY GgmlAssumption
  <2>3. \A i, j \in Nat : i + j \in Nat
    OBVIOUS
  <2> QED BY <2>1, <2>2, <2>3
<1> USE DEF CallInv, EndInv, Outcome, ReachedCap
<1>1. CASE CancelSaysYes
  <2>1. CallInv'
    BY <1>1 DEF CancelSaysYes, CanCall
  <2>2. EndInv'
    BY <1>1 DEF CancelSaysYes, CanCall
  <2> QED BY <2>1, <2>2
<1>2. CASE CancelPanics
  <2>1. CallInv'
    BY <1>2 DEF CancelPanics, CanCall
  <2>2. EndInv'
    BY <1>2 DEF CancelPanics, CanCall
  <2> QED BY <2>1, <2>2
<1>3. CASE BadChunk
  <2>1. CallInv'
    BY <1>3 DEF BadChunk, CanCall
  <2>2. EndInv'
    BY <1>3 DEF BadChunk, CanCall
  <2> QED BY <2>1, <2>2
<1>4. CASE EndOfSpeech
  <2>1. CallInv'
    BY <1>4 DEF EndOfSpeech, CanCall
  <2>2. EndInv'
    BY <1>4 DEF EndOfSpeech, CanCall
  <2> QED BY <2>1, <2>2
<1>5. CASE HitCap
  <2>1. CallInv'
    BY <1>5 DEF HitCap, CanCall
  <2>2. EndInv'
    BY <1>5 DEF HitCap, CanCall
  <2> QED BY <2>1, <2>2
<1>6. CASE Break
  <2>1. CallInv'
    BY <1>6 DEF Break, CanCall
  <2>2. EndInv'
    BY <1>6 DEF Break, CanCall
  <2> QED BY <2>1, <2>2
<1>7. CASE Obey
  <2>1. CallInv'
    BY <1>7 DEF Obey, CanCall
  <2>2. EndInv'
    <3>1. /\ stopped' = stopped /\ failed' = failed /\ result' = "none"
          /\ lib' = "ended" /\ status' \in {"ok", "cancelled", "error"}
          /\ stopped \/ failed
      BY <1>7 DEF Obey
    <3> QED BY <3>1
  <2> QED BY <2>1, <2>2
<1>8. CASE Classify
  <2>1. CallInv'
    BY <1>8 DEF Classify, CanCall
  <2>2. EndInv'
    BY <1>8 DEF Classify, CanCall
  <2> QED BY <2>1, <2>2
<1>9. ASSUME NEW n \in 1..MaxBatch, Chunk(n) PROVE (CallInv /\ EndInv)'
  <2>1. /\ max' = max /\ samples' = samples + n /\ offers' = offers + 1
        /\ UNCHANGED <<status, result>> /\ lib' # "ended"
    BY <1>9 DEF Chunk, CanCall, Counted
  <2>2. \/ lib' = "running" /\ ~stopped' /\ ~failed'
        \/ lib' = "asked to stop" /\ stopped' /\ ~failed'
        \/ lib' = "asked to stop" /\ ~stopped' /\ failed'
    BY <1>9, Zenon DEF Chunk, CanCall, Remembered
  <2>3. result = "none" /\ status' \in {"none", "ok", "cancelled", "error"}
    BY <1>9 DEF Chunk, CanCall
  <2>4. status # "cancelled"
    BY <1>9 DEF Chunk, CanCall
  <2>5. CallInv'
    <3>1. max' \in Nat /\ samples' \in Nat /\ offers' \in Nat
      BY <1>0, <2>1
    <3> QED BY <2>1, <2>2, <2>3, <3>1
  <2>6. EndInv'
    BY <2>1, <2>2, <2>3, <2>4
  <2> QED BY <2>5, <2>6
<1>10. CASE Finished \/ UNCHANGED vars
  <2>1. UNCHANGED vars
    BY <1>10 DEF Finished
  <2>2. CallInv'
    BY <2>1 DEF vars
  <2>3. EndInv'
    BY <2>1 DEF vars
  <2> QED BY <2>2, <2>3
<1>11. CASE Again
  <2>1. max' \in Nat
    <3>1. max' \in 1..MaxFrames
      BY <1>11, Zenon DEF Again
    <3> QED BY <1>a, <3>1
  <2>2. /\ lib' = "running" /\ status' = "none" /\ result' = "none"
        /\ samples' = 0 /\ offers' = 0 /\ ~stopped' /\ ~failed'
    BY <1>11, Zenon DEF Again
  <2>3. CallInv'
    BY <2>1, <2>2
  <2>4. EndInv'
    BY <2>2
  <2> QED BY <2>3, <2>4
<1> QED BY <1>1, <1>2, <1>3, <1>4, <1>5, <1>6, <1>7, <1>8, <1>9, <1>10, <1>11 DEF Next

\* So it holds throughout.
LEMMA GgmlInvariance == Spec => []GgmlInv
<1>1. GgmlInv /\ [Next]_vars => GgmlInv'
  BY GgmlNext, NextFlagInv DEF GgmlInv
<1> QED BY GgmlInit, <1>1, PTL DEF Spec
-----------------------------------------------------------------------------
\* Every variable has its type; the engine never hands over more than the cap, and
\* every batch it offers has sound.
THEOREM GgmlTypeCorrect == Spec => []TypeOK
<1>1. Init => TypeOK
  <2> SUFFICES ASSUME Init PROVE TypeOK
    OBVIOUS
  <2>1. max \in 1..MaxFrames /\ max \in Nat /\ 0 \in 0..0 /\ 0 \in 0..max
    BY GgmlAssumption DEF Init
  <2> QED BY <2>1 DEF Init, TypeOK
<1>2. TypeOK /\ [Next]_vars => TypeOK'
  <2> SUFFICES ASSUME TypeOK, [Next]_vars PROVE TypeOK'
    OBVIOUS
  <2>0. max \in Nat /\ samples \in Nat /\ offers \in Nat /\ samples <= max /\ offers <= samples
    <3>1. max \in 1..MaxFrames /\ samples \in 0..max /\ offers \in 0..samples
      BY Zenon DEF TypeOK
    <3>2. max \in Nat
      BY <3>1, GgmlAssumption
    <3>3. samples \in Nat /\ samples <= max
      BY <3>1, <3>2
    <3> QED BY <3>1, <3>2, <3>3
  <2>1. CASE CancelSaysYes \/ CancelPanics \/ BadChunk
    BY <2>1 DEF CancelSaysYes, CancelPanics, BadChunk, TypeOK
  <2>2. ASSUME NEW n \in 1..MaxBatch, Chunk(n) PROVE TypeOK'
    <3>1. n \in Nat \ {0}
      BY GgmlAssumption
    <3>2. /\ samples + n <= max /\ samples' = samples + n /\ offers' = offers + 1
          /\ UNCHANGED <<max, status, spoke, result>>
          /\ lib' \in {"running", "asked to stop"}
      BY <2>2 DEF Chunk, Counted
    <3>3. samples' \in 0..max' /\ offers' \in 0..samples'
      <4>1. /\ samples + n \in Nat /\ offers + 1 \in Nat /\ offers + 1 <= samples + n
        BY <2>0, <3>1
      <4>2. /\ max' = max /\ samples + n <= max
            /\ samples' = samples + n /\ offers' = offers + 1
        BY <3>2
      <4>3. samples + n \in 0..max /\ offers + 1 \in 0..(samples + n)
        BY <2>0, <4>1, <4>2
      <4> QED BY <4>2, <4>3, Zenon
    <3>4. stopped' \in BOOLEAN /\ failed' \in BOOLEAN
      BY <2>2, Zenon DEF Chunk, Remembered, TypeOK
    <3> QED BY <3>2, <3>3, <3>4 DEF TypeOK
  <2>3. CASE EndOfSpeech \/ HitCap \/ Obey \/ Break
    BY <2>3 DEF EndOfSpeech, HitCap, Obey, Break, TypeOK
  <2>4. CASE Classify
    <3>1. Outcome \in {"none", "eos", "cap", "cancelled", "failed"}
      BY DEF Outcome
    <3> QED BY <2>4, <3>1 DEF Classify, TypeOK
  <2>5. CASE Again
    <3>1. max' \in 1..MaxFrames /\ max' \in Nat
      BY <2>5, GgmlAssumption DEF Again
    <3>2. 0 \in 0..max' /\ 0 \in 0..0
      BY <3>1
    <3> QED BY <2>5, <3>1, <3>2 DEF Again, TypeOK
  <2>6. CASE Finished \/ UNCHANGED vars
    BY <2>6 DEF Finished, vars, TypeOK
  <2> QED BY <2>1, <2>2, <2>3, <2>4, <2>5, <2>6 DEF Next
<1> QED BY <1>1, <1>2, PTL DEF Spec

\* Only speech that the model ended itself, with sound and without an error, is
\* reported as complete.
THEOREM GgmlSuccessIsWhole == Spec => []SuccessIsWhole
<1>1. GgmlInv => SuccessIsWhole
  <2> SUFFICES ASSUME GgmlInv, result = "eos"
               PROVE  spoke /\ status = "ok" /\ ~failed /\ samples > 0
    BY DEF SuccessIsWhole
  <2>1. result = Outcome /\ lib = "ended"
    BY DEF GgmlInv, CallInv, EndInv
  <2>2. /\ ~failed /\ status # "cancelled" /\ ~stopped /\ status # "error"
        /\ samples # 0 /\ ~(samples >= max)
    BY <2>1 DEF Outcome, ReachedCap
  <2>3. status = "ok"
    BY <2>1, <2>2 DEF GgmlInv, EndInv
  <2> QED BY <2>1, <2>2, <2>3 DEF GgmlInv, CallInv, EndInv
<1> QED BY <1>1, GgmlInvariance, PTL

\* The portable engine keeps the contract of Session::synthesize.
THEOREM GgmlImplementsEngine == Spec => ImplementsEngine
<1>1. Init => Contract!EInit
  BY DEF Init, Contract!EInit
<1>2. GgmlInv /\ [Next]_vars => [Contract!ENext]_(Contract!evars)
  <2> SUFFICES ASSUME GgmlInv, [Next]_vars PROVE [Contract!ENext]_(Contract!evars)
    OBVIOUS
  <2> USE DEF GgmlInv, CallInv, Contract!evars, Contract!ENext
  <2>1. CASE CancelSaysYes
    BY <2>1 DEF CancelSaysYes, CanCall, Contract!Poll
  <2>2. ASSUME NEW n \in 1..MaxBatch, Chunk(n) PROVE Contract!Audio
    <3>1. /\ result = "none" /\ ~stopped /\ offers' = offers + 1 /\ result' = result
      BY <2>2 DEF Chunk, CanCall
    <3>2. stopped' \in BOOLEAN
      BY <2>2, Zenon DEF Chunk, Remembered, FlagInv, GgmlInv
    <3> QED BY <3>1, <3>2, Zenon DEF Contract!Audio
  <2>3. CASE CancelPanics \/ BadChunk \/ EndOfSpeech \/ HitCap \/ Obey \/ Break
    BY <2>3 DEF CancelPanics, BadChunk, EndOfSpeech, HitCap, Obey, Break
  <2>4. CASE Classify
    BY <2>4 DEF Classify, EndInv, Outcome, Contract!Return
  <2>5. CASE Finished \/ UNCHANGED vars
    BY <2>5 DEF Finished, vars
  <2>6. CASE Again
    BY <2>6 DEF Again, Contract!Again
  <2> QED BY <2>1, <2>2, <2>3, <2>4, <2>5, <2>6 DEF Next
<1> QED BY <1>1, <1>2, GgmlInvariance, PTL DEF Spec, ImplementsEngine, Contract!ESpec
-----------------------------------------------------------------------------
(* The command that speaks, for every number of attempts, tail and batch:  *)
(* who is told that all went well has the whole speech.                    *)

\* A set of natural numbers has a least element: the set of the intervals 0..x has a
\* minimal one.
LEMMA Smallest ==
  ASSUME NEW T \in SUBSET Nat, T # {}
  PROVE  \E x \in T : \A y \in T : x <= y
<1> DEFINE U == {0..x : x \in T}
<1>1. U \subseteq FiniteSubsetsOf(Nat) /\ U # {}
  <2>1. \A x \in T : 0..x \in SUBSET Nat
    OBVIOUS
  <2>2. \A x \in T : IsFiniteSet(0..x)
    BY FS_Interval
  <2> QED BY <2>1, <2>2 DEF FiniteSubsetsOf
<1> HIDE DEF U
<1>2. PICK m \in U : \A y \in U : ~(<<y, m>> \in StrictSubsetOrdering(Nat))
  BY <1>1, FS_StrictSubsetOrderingWellFounded, WFMin
<1>3. PICK x \in T : m = 0..x
  BY DEF U
<1>4. ASSUME NEW y \in T, ~(x <= y) PROVE FALSE
  <2>1. 0..y \in U
    BY DEF U
  <2>2. 0..y \subseteq 0..x /\ 0..y # 0..x
    <3>1. x \in 0..x /\ x \notin 0..y
      BY <1>4
    <3>2. 0..y \subseteq 0..x
      BY <1>4
    <3> QED BY <3>1, <3>2
  <2>3. <<0..y, 0..x>> \in StrictSubsetOrdering(Nat)
    BY <2>2 DEF StrictSubsetOrdering
  <2> QED BY <2>1, <2>3, <1>2, <1>3
<1> QED BY <1>4

\* A set of numbers up to a bound has a greatest element.
LEMMA Largest ==
  ASSUME NEW n \in Nat, NEW T \in SUBSET (0..n), T # {}
  PROVE  \E x \in T : \A y \in T : x >= y
<1> DEFINE D == {n - x : x \in T}
<1>1. D \in SUBSET Nat /\ D # {}
  <2>1. \A x \in T : n - x \in Nat
    OBVIOUS
  <2> QED BY <2>1
<1> HIDE DEF D
<1>2. PICK d \in D : \A e \in D : d <= e
  BY <1>1, Smallest
<1>3. PICK x \in T : d = n - x
  BY DEF D
<1>4. \A y \in T : n - y \in D
  BY DEF D
<1> QED BY <1>2, <1>3, <1>4

\* A command that has its speech: nothing failed, and a candidate is one.
HasSpeech == at \in {"drain", "open", "write", "verdict"} \/ outcome = "ok"

SayTypes ==
  /\ command \in Command
  /\ at \in {"elsewhere", "start", "load", "speak", "drain", "open", "write", "verdict", "done"}
  /\ outcome \in {"running", "ok", "failed"}
  /\ spoken \in Seq(Frame) /\ kept \in Seq(Frame)
  /\ channel \in Nat

\* What is kept is what was heard; what was heard was sent.
KeptInv ==
  /\ command.kind = "design" \/ command.out => kept = spoken
  /\ command.play /\ at \in {"load", "speak"} => sending
  /\ command.play => ~missed

\* Behind the speech: a candidate was valid, behind the device its channel is empty.
SpeechInv ==
  /\ HasSpeech /\ command.kind = "design" => ValidCandidate
  /\ at \in {"open", "write", "verdict"} \/ outcome = "ok" => channel = 0
  /\ outcome = "ok" => at = "done" /\ (command.kind = "design" \/ IsWhole)
  /\ at # "done" => outcome = "running"

\* A file that is being written is ours, and then holds what was kept.
FileInv ==
  /\ at = "write" => file = "partial"
  /\ (at = "verdict" \/ outcome = "ok") /\ command.out => file = "ours" /\ written = Trimmed

SayInv == SayTypes /\ KeptInv /\ SpeechInv /\ FileInv

\* The invariant of a command that speaks holds at the start.
LEMMA SayInit == SInit => SayInv
<1> SUFFICES ASSUME SInit PROVE SayInv
  OBVIOUS
<1>1. <<>> \in Seq(Frame)
  BY EmptySeq
<1>2. at \in {"elsewhere", "start"} /\ outcome = "running"
  BY DEF SInit
<1>3. SayTypes
  BY <1>1, <1>2 DEF SInit, SayTypes
<1>4. KeptInv
  BY <1>2 DEF SInit, KeptInv
<1>5. SpeechInv
  BY <1>2 DEF SpeechInv, HasSpeech
<1>6. FileInv
  BY <1>2 DEF FileInv
<1> QED BY <1>3, <1>4, <1>5, <1>6 DEF SayInv

\* A command that gives up has nothing to show.
LEMMA FailInv ==
  ASSUME SayInv, Fails, UNCHANGED <<command, audio, device>>, UNCHANGED written
  PROVE  SayInv'
<1> USE DEF Fails, audio, device
<1>1. SayTypes'
  BY DEF SayInv, SayTypes
<1>2. KeptInv'
  BY DEF SayInv, KeptInv
<1>3. SpeechInv'
  BY DEF SpeechInv, HasSpeech
<1>4. FileInv'
  BY DEF FileInv
<1> QED BY <1>1, <1>2, <1>3, <1>4 DEF SayInv

\* A chunk that is taken, refused or dropped, and the engine's own steps.
LEMMA SpeakInv == ASSUME SayInv, Speak PROVE SayInv'
<1>1. at = "speak" /\ UNCHANGED <<command, at, outcome, file, written>>
  BY DEF Speak, disk
<1>2. outcome = "running"
  BY <1>1 DEF SayInv, SpeechInv
<1>3. SpeechInv' /\ FileInv'
  BY <1>1, <1>2 DEF SpeechInv, FileInv, HasSpeech
<1>4. ASSUME NEW n \in 1..MaxBatch, NEW chunk \in [1..n -> Frame], Takes(chunk)
      PROVE  SayTypes' /\ KeptInv'
  <2>1. chunk \in Seq(Frame) /\ Len(chunk) \in Nat
    <3>1. n \in Nat
      BY GgmlAssumption
    <3>2. chunk \in Seq(Frame)
      BY <3>1, SeqDef
    <3> QED BY <3>2, LenProperties
  <2>2. spoken \o chunk \in Seq(Frame) /\ kept \o chunk \in Seq(Frame)
    BY <2>1, ConcatProperties DEF SayInv, SayTypes
  <2>3. SayTypes'
    BY <1>1, <1>4, <2>1, <2>2 DEF SayInv, SayTypes, Takes
  <2>4. KeptInv'
    BY <1>1, <1>4 DEF SayInv, KeptInv, Takes
  <2> QED BY <2>3, <2>4
<1>5. ASSUME UNCHANGED <<spoken, kept, missed, channel, sending>> PROVE SayTypes' /\ KeptInv'
  BY <1>1, <1>5 DEF SayInv, SayTypes, KeptInv
<1>6. ASSUME NEW n \in 1..MaxBatch, CannotResample(n) PROVE SayTypes' /\ KeptInv'
  BY <1>5, <1>6 DEF CannotResample, device
<1>7. ASSUME UNCHANGED <<audio, device>> PROVE SayTypes' /\ KeptInv'
  BY <1>5, <1>7 DEF audio, device
<1> QED BY <1>3, <1>4, <1>6, <1>7 DEF Speak, SayInv

\* The command starts and loads a session.
LEMMA StartInv == ASSUME SayInv, Start \/ Load PROVE SayInv'
<1>1. /\ at \in {"start", "load"} /\ at' \in {"load", "speak"}
      /\ UNCHANGED <<command, outcome, attempt, spoken, kept, broken, missed, channel, file,
                     written>>
      /\ command.play => sending'
  BY DEF Start, Load, audio, disk, device, SayInv, KeptInv
<1>2. SayTypes'
  BY <1>1 DEF SayInv, SayTypes
<1>3. KeptInv'
  BY <1>1 DEF SayInv, KeptInv
<1>4. outcome = "running"
  BY <1>1 DEF SayInv, SpeechInv
<1>5. SpeechInv' /\ FileInv'
  BY <1>1, <1>4 DEF SpeechInv, FileInv, HasSpeech
<1> QED BY <1>2, <1>3, <1>5 DEF SayInv

\* The speech is accepted, or the candidate is rejected and the next seed tried.
LEMMA EndOfSpeechInv == ASSUME SayInv, Spoke \/ Reject PROVE SayInv'
<1>1. CASE Spoke
  <2>1. /\ at = "speak" /\ at' = "drain"
        /\ command.kind = "design" => ValidCandidate
        /\ UNCHANGED <<result, command, outcome, spoken, kept, missed, channel, file, written>>
    BY <1>1 DEF Spoke, audio, disk, vars
  <2>2. SayTypes'
    BY <2>1 DEF SayInv, SayTypes
  <2>5. KeptInv'
    BY <2>1 DEF SayInv, KeptInv
  <2>3. outcome = "running"
    BY <2>1 DEF SayInv, SpeechInv
  <2>4. SpeechInv' /\ FileInv'
    BY <2>1, <2>3 DEF SpeechInv, FileInv, HasSpeech, ValidCandidate, eos_reached
  <2> QED BY <2>2, <2>4, <2>5 DEF SayInv
<1>2. CASE Reject /\ LastAttempt
  <2>1. Fails /\ UNCHANGED <<command, audio, device>> /\ UNCHANGED written
    BY <1>2 DEF Reject, disk
  <2> QED BY <2>1, FailInv
<1>3. CASE Reject /\ ~LastAttempt
  <2>1. /\ at = "speak" /\ at' = "load" /\ spoken' = <<>> /\ kept' = <<>>
        /\ UNCHANGED <<command, outcome, missed, channel, sending, file, written>>
    BY <1>3 DEF Reject, disk, device
  <2>2. <<>> \in Seq(Frame)
    BY EmptySeq
  <2>3. SayTypes' /\ KeptInv'
    BY <2>1, <2>2 DEF SayInv, SayTypes, KeptInv
  <2>4. outcome = "running"
    BY <2>1 DEF SayInv, SpeechInv
  <2>5. SpeechInv' /\ FileInv'
    BY <2>1, <2>4 DEF SpeechInv, FileInv, HasSpeech
  <2> QED BY <2>3, <2>5 DEF SayInv
<1> QED BY <1>1, <1>2, <1>3

\* The device plays what is left.
LEMMA DrainInv == ASSUME SayInv, Drain PROVE SayInv'
<1>1. /\ at = "drain" /\ channel = 0
      /\ \/ at' = "open" /\ command.out
         \/ at' = "verdict" /\ ~command.out
      /\ UNCHANGED <<result, command, outcome, spoken, kept, missed, channel, sending, file,
                     written>>
  BY DEF Drain, Drained, audio, device, disk, vars
<1>2. SayTypes'
  BY <1>1 DEF SayInv, SayTypes
<1>3. KeptInv'
  BY <1>1 DEF SayInv, KeptInv
<1>4. outcome = "running"
  BY <1>1 DEF SayInv, SpeechInv, SayTypes
<1>5. SpeechInv'
  BY <1>1, <1>4 DEF SayInv, SpeechInv, HasSpeech, ValidCandidate, eos_reached
<1>6. FileInv'
  BY <1>1, <1>4 DEF SayInv, FileInv
<1> QED BY <1>2, <1>3, <1>5, <1>6 DEF SayInv

\* The file is opened, written, or cannot be.
LEMMA FilesInv == ASSUME SayInv, Open \/ Write \/ WriteFails PROVE SayInv'
<1>1. CASE (Open /\ MayOpen) \/ Write
  <2>1. /\ \/ at = "open" /\ at' = "write" /\ file' = "partial" /\ written' = written
           \/ at = "write" /\ at' = "verdict" /\ file' = "ours" /\ written' = Trimmed
        /\ UNCHANGED <<result, command, outcome, spoken, kept, missed, channel, sending>>
    BY <1>1 DEF Open, Write, audio, device, vars
  <2>2. SayTypes'
    BY <2>1 DEF SayInv, SayTypes
  <2>3. KeptInv'
    BY <2>1 DEF SayInv, KeptInv
  <2>4. outcome = "running" /\ Trimmed' = Trimmed
    BY <2>1 DEF SayInv, SpeechInv, Trimmed
  <2>5. SpeechInv'
    BY <2>1, <2>4 DEF SayInv, SpeechInv, HasSpeech, ValidCandidate, eos_reached
  <2>6. FileInv'
    BY <2>1, <2>4 DEF SayInv, FileInv
  <2> QED BY <2>2, <2>3, <2>5, <2>6 DEF SayInv
<1>2. CASE (Open /\ ~MayOpen) \/ WriteFails
  <2>1. Fails /\ UNCHANGED <<command, audio, device>> /\ UNCHANGED written
    BY <1>2 DEF Open, WriteFails, disk
  <2> QED BY <2>1, FailInv
<1> QED BY <1>1, <1>2

\* The last step tells success from failure.
LEMMA VerdictInv == ASSUME SayInv, Verdict PROVE SayInv'
<1>1. /\ at = "verdict" /\ at' = "done"
      /\ outcome' = IF command.kind = "design" \/ IsWhole THEN "ok" ELSE "failed"
      /\ UNCHANGED <<result, command, spoken, kept, missed, channel, sending, file, written>>
  BY DEF Verdict, audio, device, disk, vars
<1>2. SayTypes'
  BY <1>1 DEF SayInv, SayTypes
<1>3. KeptInv'
  BY <1>1 DEF SayInv, KeptInv
<1>4. IsWhole' = IsWhole /\ ValidCandidate' = ValidCandidate /\ Trimmed' = Trimmed
  BY <1>1 DEF IsWhole, ValidCandidate, eos_reached, Trimmed
<1>5. SpeechInv'
  BY <1>1, <1>4 DEF SayInv, SpeechInv, HasSpeech
<1>6. FileInv'
  BY <1>1, <1>4 DEF SayInv, FileInv
<1> QED BY <1>2, <1>3, <1>5, <1>6 DEF SayInv

\* The device, the other process, and a caller that is no command.
LEMMA OthersInv ==
  ASSUME SayInv, Play \/ OtherCreates \/ Elsewhere \/ Done \/ UNCHANGED allvars PROVE SayInv'
<1>1. CASE Elsewhere
  <2>1. at = "elsewhere" /\ UNCHANGED svars
    BY <1>1 DEF Elsewhere
  <2> USE DEF svars, audio, device, disk
  <2>2. outcome = "running" /\ ~HasSpeech
    BY <2>1 DEF SayInv, SpeechInv, HasSpeech
  <2>3. SayTypes' /\ KeptInv' /\ FileInv'
    BY <2>1, <2>2 DEF SayInv, SayTypes, KeptInv, FileInv
  <2>4. SpeechInv'
    BY <2>1, <2>2 DEF SpeechInv, HasSpeech
  <2> QED BY <2>3, <2>4 DEF SayInv
<1>2. CASE Play \/ OtherCreates \/ Done \/ UNCHANGED allvars
  <2>1. /\ UNCHANGED <<result, command, at, outcome, spoken, kept, missed, sending, written>>
        /\ channel' = channel \/ (channel > 0 /\ channel' = channel - 1)
        /\ file' = file \/ (file = "absent" /\ file' = "foreign")
    <3>1. CASE Play
      BY <3>1 DEF Play, vars, audio, disk
    <3>2. CASE OtherCreates
      BY <3>2 DEF OtherCreates, vars, audio, device
    <3>3. CASE Done \/ UNCHANGED allvars
      BY <3>3 DEF Done, allvars, svars, vars, audio, device, disk
    <3> QED BY <1>2, <3>1, <3>2, <3>3
  <2>2. SayTypes'
    BY <2>1 DEF SayInv, SayTypes
  <2>3. KeptInv'
    BY <2>1 DEF SayInv, KeptInv
  <2>4. IsWhole' = IsWhole /\ ValidCandidate' = ValidCandidate /\ Trimmed' = Trimmed
    BY <2>1 DEF IsWhole, ValidCandidate, eos_reached, Trimmed
  <2>5. channel = 0 => channel' = 0
    BY <2>1
  <2>6. SpeechInv'
    BY <2>1, <2>4, <2>5 DEF SayInv, SpeechInv, HasSpeech
  <2>7. FileInv'
    BY <2>1, <2>4 DEF SayInv, FileInv
  <2> QED BY <2>2, <2>3, <2>6, <2>7 DEF SayInv
<1> QED BY <1>1, <1>2

\* Every step keeps the invariant.
LEMMA SayNext == SayInv /\ [SNext]_allvars => SayInv'
<1> SUFFICES ASSUME SayInv, [SNext]_allvars PROVE SayInv'
  OBVIOUS
<1>1. CASE Refuse \/ LoadFails \/ SpeechFails
  <2>1. Fails /\ UNCHANGED <<command, audio, device>> /\ UNCHANGED written
    BY <1>1 DEF Refuse, LoadFails, SpeechFails, disk
  <2> QED BY <2>1, FailInv
<1> QED BY <1>1, StartInv, SpeakInv, EndOfSpeechInv, DrainInv, FilesInv, VerdictInv, OthersInv
     DEF SNext, CommandStep

\* So it holds throughout.
LEMMA SayInvHolds == SaySpec => []SayInv
BY SayInit, SayNext, PTL DEF SaySpec

\* Trimming the tail takes no block of speech.
LEMMA TailIsBehindSpeech ==
  ASSUME NEW S, NEW s \in Seq(S), NEW speech, NEW keep \in Nat
  PROVE  /\ TrimmedTo(speech, s, keep) \in 0..Len(s)
         /\ \A i \in 1..Len(s) : s[i] \in speech => i <= TrimmedTo(speech, s, keep)
<1> DEFINE T == {i \in DOMAIN s : s[i] \in speech} \cup {0}
           m == Max(T)
<1>1. Len(s) \in Nat /\ DOMAIN s = 1..Len(s)
  BY LenProperties
<1>2. T \in SUBSET (0..Len(s)) /\ T # {}
  BY <1>1
<1>3. m \in T /\ \A y \in T : m >= y
  <2>1. \E x \in T : \A y \in T : x >= y
    BY <1>1, <1>2, Largest
  <2> HIDE DEF T
  <2> QED BY <2>1 DEF Max
<1>4. m \in 0..Len(s) /\ \A i \in 1..Len(s) : s[i] \in speech => i <= m
  BY <1>1, <1>2, <1>3
<1>5. TrailingNonspeech(speech, s) = Len(s) - m
  BY DEF TrailingNonspeech
<1> HIDE DEF m, T
<1>6. TrimmedTo(speech, s, keep) = IF Len(s) - m <= keep THEN Len(s) ELSE m + keep
  BY <1>1, <1>4, <1>5 DEF TrimmedTo
<1>7. TrimmedTo(speech, s, keep) \in 0..Len(s) /\ m <= TrimmedTo(speech, s, keep)
  BY <1>1, <1>4, <1>6
<1> QED BY <1>1, <1>4, <1>7

\* Who is told that all went well has the speech, the whole speech, and nothing
\* else, in the file and on the device (`say`, `design`, `player.wait`).
THEOREM SuccessHasEverything == SaySpec => []SuccessIsTrue
<1>1. SayInv => SuccessIsTrue
  <2> SUFFICES ASSUME SayInv, outcome = "ok" PROVE SuccessIsTrue
    BY DEF SuccessIsTrue
  <2>1. eos_reached /\ channel = 0
    BY DEF SayInv, SpeechInv, HasSpeech, IsWhole, ValidCandidate
  <2>2. command.play => ~missed
    BY DEF SayInv, KeptInv
  <2>3. spoken \in Seq(Frame) /\ Len(spoken) \in Nat
    BY LenProperties DEF SayInv, SayTypes
  <2>4. command.kind = "design" =>
          /\ command.out => written = spoken
          /\ \E i \in DOMAIN spoken : spoken[i] # "silence"
          /\ \A i \in DOMAIN spoken : spoken[i] # "clipped"
    BY DEF SayInv, KeptInv, SpeechInv, FileInv, HasSpeech, ValidCandidate, Trimmed
  <2>5. ASSUME command.out
        PROVE  /\ file = "ours"
               /\ \A i \in DOMAIN spoken : spoken[i] \in SpeechFrames => i <= Len(written)
               /\ written = SubSeq(spoken, 1, Len(written))
               /\ command.kind = "say" => TailOf(spoken) <= MAX_TRAILING
    <3>1. file = "ours" /\ written = Trimmed /\ kept = spoken
      BY <2>5 DEF SayInv, KeptInv, FileInv
    <3>2. command.kind = "say" => TailOf(spoken) <= MAX_TRAILING
      BY <3>1 DEF SayInv, SpeechInv, IsWhole
    <3> DEFINE n == TrimmedTo(SpeechFrames, spoken, KEEP)
    <3>3. /\ n \in 0..Len(spoken)
          /\ \A i \in 1..Len(spoken) : spoken[i] \in SpeechFrames => i <= n
      BY <2>3, SayAssumption, TailIsBehindSpeech
    <3> HIDE DEF n
    <3>4. CASE command.kind = "say"
      <4>1. written = SubSeq(spoken, 1, n)
        BY <3>1, <3>4 DEF Trimmed, n
      <4>2. Len(written) = n
        <5>1. \A i \in 1..n : spoken[i] \in Frame
          BY <2>3, <3>3, ElementOfSeq
        <5> QED BY <2>3, <3>3, <4>1, <5>1, SubSeqProperties
      <4> QED BY <2>3, <3>1, <3>2, <3>3, <4>1, <4>2, LenProperties
    <3>5. CASE command.kind # "say"
      <4>1. written = spoken /\ SubSeq(spoken, 1, Len(spoken)) = spoken
        BY <2>3, <3>1, <3>5, SubSeqFull DEF Trimmed
      <4>2. DOMAIN spoken = 1..Len(spoken)
        BY <2>3, LenProperties
      <4> QED BY <2>3, <3>1, <3>2, <4>1, <4>2
    <3> QED BY <3>4, <3>5
  <2> QED BY <2>1, <2>2, <2>4, <2>5 DEF SuccessIsTrue
<1> QED BY <1>1, SayInvHolds, PTL

\* `spqx design` never replaces a file, also one that appeared after it had looked
\* (`create_new` in design.rs).
THEOREM ForeignFileStays == SaySpec => NothingReplaced
<1> DEFINE Stays == command.kind = "design" /\ file = "foreign" => file' = "foreign"
<1>1. SayInv /\ [SNext]_allvars => [Stays]_allvars
  <2> SUFFICES ASSUME SayInv, [SNext]_allvars
               PROVE  file = "foreign" /\ command.kind = "design" => file' = "foreign"
    OBVIOUS
  <2>1. CASE Open
    BY <2>1 DEF Open, MayOpen
  <2>2. CASE Write
    BY <2>2 DEF Write, SayInv, FileInv
  <2>3. CASE Refuse \/ Start \/ Load \/ LoadFails \/ Speak \/ SpeechFails \/ Spoke
             \/ Reject \/ Drain \/ WriteFails \/ Verdict
    BY <2>3 DEF Refuse, Start, Load, LoadFails, Speak, SpeechFails, Spoke, Reject, Drain,
                WriteFails, Verdict, disk
  <2>4. CASE Play \/ OtherCreates \/ Elsewhere \/ Done \/ UNCHANGED allvars
    BY <2>4 DEF Play, OtherCreates, Elsewhere, Done, allvars, svars, disk
  <2> QED BY <2>1, <2>2, <2>3, <2>4 DEF SNext, CommandStep
<1> QED BY <1>1, SayInvHolds, PTL DEF SaySpec, NothingReplaced
-----------------------------------------------------------------------------
(* The click gate (Gate.tla), for every chunk, window and length of click: *)
(* the recursions of the search and of the loop have a solution, which a   *)
(* downward induction over the blocks compares with what they should find. *)

\* The first block that is not of these levels, and all before it that are.
LEMMA FirstNotIs ==
  ASSUME NEW levels, NEW p, Len(p) \in Nat, NEW i \in 1..Len(p) + 1
  PROVE  /\ FirstNot(levels, p, i) \in i..Len(p) + 1
         /\ \A k \in i..FirstNot(levels, p, i) - 1 : p[k] \in levels
         /\ FirstNot(levels, p, i) <= Len(p) => p[FirstNot(levels, p, i)] \notin levels
<1> DEFINE n == Len(p)
           T == {j \in i..n : p[j] \notin levels} \cup {n + 1}
           f == FirstNot(levels, p, i)
<1>1. T \in SUBSET Nat /\ T # {} /\ n \in Nat /\ i \in Nat
  OBVIOUS
<1>2. f = CHOOSE x \in T : \A y \in T : x =< y
  BY DEF FirstNot, Min
<1>3. f \in T /\ \A y \in T : f <= y
  <2> HIDE DEF T, f
  <2> QED BY <1>1, <1>2, Smallest
<1> HIDE DEF f
<1>4. f \in i..n + 1
  BY <1>3
<1>5. ASSUME NEW k \in i..f - 1 PROVE p[k] \in levels
  <2>1. k \in i..n /\ k < f
    BY <1>4
  <2> QED BY <1>3, <2>1
<1>6. f <= n => p[f] \notin levels
  BY <1>1, <1>3
<1> QED BY <1>4, <1>5, <1>6 DEF f

\* The first block from which on all before i are of these levels.
LEMMA BackIs ==
  ASSUME NEW levels, NEW p, Len(p) \in Nat, NEW i \in 1..Len(p) + 1
  PROVE  /\ Back(levels, p, i) \in 1..i
         /\ \A k \in Back(levels, p, i)..i - 1 : p[k] \in levels
         /\ Back(levels, p, i) # 1 => p[Back(levels, p, i) - 1] \notin levels
<1> DEFINE T == {j \in 1..i : \A k \in j..(i - 1) : p[k] \in levels}
           b == Back(levels, p, i)
<1>1. T \in SUBSET Nat /\ i \in T
  OBVIOUS
<1>2. b = CHOOSE x \in T : \A y \in T : x =< y
  BY DEF Back, Min
<1>3. b \in T /\ \A y \in T : b <= y
  <2> HIDE DEF T, b
  <2> QED BY <1>1, <1>2, Smallest
<1> HIDE DEF b
<1>4. b \in 1..i /\ \A k \in b..i - 1 : p[k] \in levels
  BY <1>3
<1>5. ASSUME b # 1, p[b - 1] \in levels PROVE FALSE
  <2>1. b - 1 \in 1..i /\ \A k \in (b - 1)..i - 1 : k = b - 1 \/ k \in b..i - 1
    BY <1>4, <1>5
  <2>2. b - 1 \in T
    BY <1>4, <1>5, <2>1
  <2> QED BY <1>3, <1>4, <2>2
<1> QED BY <1>4, <1>5 DEF b

\* What the search for the onset does at block i.
OnsetStep(f, p, i) ==
  IF i > Len(p) THEN i
  ELSE IF ~Loud(p, i) THEN f[i + 1]
  ELSE IF Sustained(p, i) THEN i
  ELSE f[FirstNot(SPEECH, p, i)]
\* f is what it gives, from block k on.
IsSearch(f, p, k) == f = [i \in k..Len(p) + 1 |-> OnsetStep(f, p, i)]

\* A loud run ends after the block it begins with.
LEMMA LoudRun ==
  ASSUME NEW p, Len(p) \in Nat, NEW i \in 1..Len(p), Loud(p, i)
  PROVE  FirstNot(SPEECH, p, i) \in i + 1..Len(p) + 1
<1> DEFINE f == FirstNot(SPEECH, p, i)
<1>1. i \in 1..Len(p) + 1
  OBVIOUS
<1>2. f \in i..Len(p) + 1 /\ (f <= Len(p) => p[f] \notin SPEECH)
  BY <1>1, FirstNotIs
<1> HIDE DEF f
<1>3. f # i
  BY <1>2 DEF Loud
<1> QED BY <1>2, <1>3 DEF f

\* Induction from n + 1 down to 1, over a set.
LEMMA Descended ==
  ASSUME NEW n \in Nat, NEW P, n + 1 \in P,
         \A i \in 1..n : (\A j \in i + 1..n + 1 : j \in P) => i \in P
  PROVE  \A i \in 1..n + 1 : i \in P
<1> DEFINE T == {i \in 1..n + 1 : i \notin P}
<1>1. ASSUME T # {} PROVE FALSE
  <2>1. T \in SUBSET (0..n + 1) /\ n + 1 \in Nat
    OBVIOUS
  <2>2. PICK x \in T : \A y \in T : x >= y
    <3> HIDE DEF T
    <3> QED BY <1>1, <2>1, Largest
  <2>3. x \in 1..n /\ x \notin P
    BY <2>2
  <2>4. ASSUME NEW j \in x + 1..n + 1, j \notin P PROVE FALSE
    <3>1. j \in T /\ j > x
      BY <2>3, <2>4
    <3> QED BY <2>2, <2>3, <3>1
  <2> QED BY <2>3, <2>4
<1> QED BY <1>1

\* The search for the onset comes to an end in every chunk.
LEMMA Searchable ==
  ASSUME NEW p, Len(p) \in Nat
  PROVE  \E f : IsSearch(f, p, 1)
<1> DEFINE n == Len(p)
           P == {k \in 1..n + 1 : \E f : IsSearch(f, p, k)}
<1>1. n + 1 \in P
  <2> DEFINE f == [i \in n + 1..n + 1 |-> i]
  <2>1. \A i \in n + 1..n + 1 : OnsetStep(f, p, i) = i
    BY DEF OnsetStep
  <2>2. IsSearch(f, p, n + 1)
    BY <2>1 DEF IsSearch
  <2> QED BY <2>2
<1>2. ASSUME NEW k \in 1..n, \A j \in k + 1..n + 1 : j \in P PROVE k \in P
  <2>1. k + 1 \in k + 1..n + 1
    OBVIOUS
  <2>2. PICK f : IsSearch(f, p, k + 1)
    BY <1>2, <2>1
  <2> DEFINE g == [i \in k..n + 1 |-> IF i = k THEN OnsetStep(f, p, k) ELSE f[i]]
  <2>3. \A j \in k + 1..n + 1 : g[j] = f[j] /\ j # k
    OBVIOUS
  <2>4. g[k] = OnsetStep(f, p, k) /\ g = [i \in k..n + 1 |-> g[i]]
    OBVIOUS
  <2> HIDE DEF g
  <2>5. ASSUME NEW i \in k..n + 1 PROVE OnsetStep(g, p, i) = OnsetStep(f, p, i)
    <3>1. CASE i <= n /\ ~Loud(p, i)
      <4>1. i + 1 \in k + 1..n + 1
        BY <3>1
      <4> QED BY <2>3, <3>1, <4>1 DEF OnsetStep
    <3>2. CASE i <= n /\ Loud(p, i)
      <4> DEFINE e == FirstNot(SPEECH, p, i)
      <4>1. e \in i + 1..n + 1
        <5>1. i \in 1..Len(p)
          BY <3>2
        <5> QED BY <3>2, <5>1, LoudRun
      <4> HIDE DEF e
      <4>2. e \in k + 1..n + 1
        BY <4>1
      <4> QED BY <2>3, <3>2, <4>2 DEF OnsetStep, e
    <3>3. CASE i > n
      BY <3>3 DEF OnsetStep
    <3> QED BY <3>1, <3>2, <3>3
  <2>6. ASSUME NEW i \in k..n + 1 PROVE g[i] = OnsetStep(f, p, i)
    <3>1. CASE i = k
      BY <2>4, <3>1
    <3>2. CASE i # k
      <4>1. i \in k + 1..n + 1
        BY <3>2
      <4> QED BY <2>2, <2>3, <4>1 DEF IsSearch
    <3> QED BY <3>1, <3>2
  <2>7. IsSearch(g, p, k)
    BY <2>4, <2>5, <2>6 DEF IsSearch
  <2> QED BY <2>7
<1>3. 1 \in P
  <2> HIDE DEF P
  <2>1. n \in Nat
    OBVIOUS
  <2> HIDE DEF n
  <2>2. \A i \in 1..n + 1 : i \in P
    BY <1>1, <1>2, <2>1, Descended
  <2> QED BY <2>1, <2>2
<1> QED BY <1>3

\* The search comes to block i: no loud run has begun before it and goes on there.
OnsetEntry(p, i) == i = 1 \/ i > Len(p) \/ ~Loud(p, i) \/ ~Loud(p, i - 1)

\* What the search finds from block i on: the first speech, or one past the last block.
FindsSpeech(p, i, o) ==
  /\ o \in i..Len(p) + 1
  /\ \A k \in i..o - 1 : ~Speech(p, k)
  /\ o <= Len(p) => Speech(p, o)

\* From every such block on, it finds the first speech.
LEMMA SearchFinds ==
  ASSUME NEW p, Len(p) \in Nat, NEW f, IsSearch(f, p, 1)
  PROVE  \A i \in 1..Len(p) + 1 : OnsetEntry(p, i) => FindsSpeech(p, i, f[i])
<1> DEFINE n == Len(p)
           P == {i \in 1..n + 1 : OnsetEntry(p, i) => FindsSpeech(p, i, f[i])}
<1>1. \A i \in 1..n + 1 : f[i] = OnsetStep(f, p, i)
  BY DEF IsSearch
<1>2. n + 1 \in P
  <2>1. f[n + 1] = n + 1
    BY <1>1 DEF OnsetStep
  <2>2. FindsSpeech(p, n + 1, f[n + 1])
    BY <2>1 DEF FindsSpeech
  <2> QED BY <2>2
<1>3. ASSUME NEW i \in 1..n, \A j \in i + 1..n + 1 : j \in P PROVE i \in P
  <2> SUFFICES ASSUME OnsetEntry(p, i) PROVE FindsSpeech(p, i, f[i])
    OBVIOUS
  <2>0. f[i] = OnsetStep(f, p, i)
    BY <1>1
  <2>1. CASE ~Loud(p, i)
    <3>1. f[i] = f[i + 1]
      BY <2>0, <2>1 DEF OnsetStep
    <3>2. OnsetEntry(p, i + 1)
      BY <2>1 DEF OnsetEntry
    <3>3. FindsSpeech(p, i + 1, f[i + 1])
      <4>1. i + 1 \in i + 1..n + 1
        OBVIOUS
      <4> QED BY <1>3, <3>2, <4>1
    <3>4. ~Speech(p, i)
      BY <2>1 DEF Speech
    <3> HIDE DEF P
    <3> QED BY <3>1, <3>3, <3>4 DEF FindsSpeech
  <2>2. CASE Loud(p, i) /\ Sustained(p, i)
    <3>1. f[i] = i
      BY <2>0, <2>2 DEF OnsetStep
    <3>2. Speech(p, i)
      BY <2>2 DEF OnsetEntry, Speech
    <3> QED BY <3>1, <3>2 DEF FindsSpeech
  <2>3. CASE Loud(p, i) /\ ~Sustained(p, i)
    <3> DEFINE e == FirstNot(SPEECH, p, i)
    <3>1. f[i] = f[e]
      BY <2>0, <2>3 DEF OnsetStep
    <3>2. e \in i + 1..n + 1
      BY <2>3, LoudRun
    <3>3. /\ \A k \in i..e - 1 : p[k] \in SPEECH
          /\ e <= n => p[e] \notin SPEECH
      <4>1. i \in 1..Len(p) + 1
        OBVIOUS
      <4> QED BY <4>1, FirstNotIs
    <3> HIDE DEF e
    <3>4. OnsetEntry(p, e)
      BY <3>2, <3>3 DEF OnsetEntry, Loud
    <3>5. FindsSpeech(p, e, f[e])
      BY <1>3, <3>2, <3>4
    <3>6. ASSUME NEW k \in i..e - 1 PROVE ~Speech(p, k)
      <4>1. CASE k = i
        BY <2>3, <4>1 DEF Speech
      <4>2. CASE k # i
        <5>1. k - 1 \in i..e - 1 /\ k # 1
          BY <3>2, <4>2
        <5>2. Loud(p, k - 1)
          BY <3>3, <5>1 DEF Loud
        <5> QED BY <5>1, <5>2 DEF Speech
      <4> QED BY <4>1, <4>2
    <3> HIDE DEF P
    <3>7. f[e] \in e..n + 1 /\ (\A k \in e..f[e] - 1 : ~Speech(p, k))
          /\ (f[e] <= n => Speech(p, f[e]))
      BY <3>5 DEF FindsSpeech
    <3>8. ASSUME NEW k \in i..f[e] - 1 PROVE ~Speech(p, k)
      <4>1. k \in i..e - 1 \/ k \in e..f[e] - 1
        BY <3>2, <3>7
      <4> QED BY <3>6, <3>7, <4>1
    <3>9. f[e] \in i..n + 1
      BY <3>2, <3>7
    <3> QED BY <3>1, <3>7, <3>8, <3>9 DEF FindsSpeech
  <2> QED BY <2>1, <2>2, <2>3
<1> HIDE DEF P
<1>4. n \in Nat
  OBVIOUS
<1> HIDE DEF n
<1>5. \A i \in 1..n + 1 : i \in P
  BY <1>2, <1>3, <1>4, Descended
<1> QED BY <1>5 DEF P, n

\* So the onset is the first loud run that is sustained.
LEMMA OnsetIs ==
  ASSUME NEW p, Len(p) \in Nat
  PROVE  FindsSpeech(p, 1, OnsetBlock(p))
<1> DEFINE g == CHOOSE f : f = [i \in 1..(Len(p) + 1) |->
                   IF i > Len(p) THEN i
                   ELSE IF ~Loud(p, i) THEN f[i + 1]
                   ELSE IF Sustained(p, i) THEN i
                   ELSE f[FirstNot(SPEECH, p, i)]]
<1>1. OnsetBlock(p) = g[1]
  BY DEF OnsetBlock
<1>2. PICK f : IsSearch(f, p, 1)
  BY Searchable
<1>3. f = [i \in 1..(Len(p) + 1) |->
                   IF i > Len(p) THEN i
                   ELSE IF ~Loud(p, i) THEN f[i + 1]
                   ELSE IF Sustained(p, i) THEN i
                   ELSE f[FirstNot(SPEECH, p, i)]]
  BY <1>2 DEF IsSearch, OnsetStep
<1>4. g = [i \in 1..(Len(p) + 1) |->
                   IF i > Len(p) THEN i
                   ELSE IF ~Loud(p, i) THEN g[i + 1]
                   ELSE IF Sustained(p, i) THEN i
                   ELSE g[FirstNot(SPEECH, p, i)]]
  BY <1>3
<1> HIDE DEF g
<1>5. IsSearch(g, p, 1)
  BY <1>4 DEF IsSearch, OnsetStep
<1>6. OnsetEntry(p, 1) /\ 1 \in 1..Len(p) + 1
  BY DEF OnsetEntry
<1> QED BY <1>1, <1>5, <1>6, SearchFinds

\* A connected sound that ends before block start, as loud as a click and as short as one.
Cut(p, start, a, b) ==
  /\ Sound(p, a, b) /\ b < start /\ b - a < MaxClick
  /\ \E k \in a..b : Click(p, k)

\* The blocks of those that end at block i or later.
CutFrom(p, start, i) ==
  {x \in 1..Len(p) : \E a \in 1..x, b \in x..Len(p) : Cut(p, start, a, b) /\ b >= i}

\* What the loop does at block i.
GateStep(f, p, start, i) ==
  IF i >= start THEN {}
  ELSE IF ~Click(p, i) THEN f[i + 1]
  ELSE (IF Lowest(FirstNot(SOUND, p, i + 1), start) - Back(SOUND, p, i) <= MaxClick
        THEN Back(SOUND, p, i)..(Lowest(FirstNot(SOUND, p, i + 1), start) - 1) ELSE {})
       \cup f[Lowest(FirstNot(SOUND, p, i + 1), start)]
\* f is what it silences, from block k on.
IsGating(f, p, start, k) == f = [i \in k..Len(p) + 1 |-> GateStep(f, p, start, i)]

\* The loop comes to block i: no click of the sound that i is in lies before it.
GateEntry(p, i) ==
  \A a \in 1..i, b \in i..Len(p) : Sound(p, a, b) => \A k \in a..i - 1 : ~Click(p, k)

\* The speech does not begin in the middle of a sound.
IsStart(p, start) == /\ start \in 1..Len(p) + 1
                     /\ start = 1 \/ ~Sounds(p, start - 1)

\* A block as loud as a click is above silence.
LEMMA ClickSounds == ASSUME NEW p, NEW i, Click(p, i) PROVE Sounds(p, i)
BY DEF Click, CLICK, Sounds, SOUND

\* Two connected sounds with a block in common are the same.
LEMMA SoundIsOne ==
  ASSUME NEW p, Len(p) \in Nat, NEW a \in 1..Len(p), NEW b \in 1..Len(p),
         NEW c \in 1..Len(p), NEW d \in 1..Len(p), NEW x \in 1..Len(p),
         Sound(p, a, b), Sound(p, c, d), a <= x, x <= b, c <= x, x <= d
  PROVE  a = c /\ b = d
<1>1. /\ \A i \in a..b : Sounds(p, i)
      /\ a = 1 \/ ~Sounds(p, a - 1)
      /\ b = Len(p) \/ ~Sounds(p, b + 1)
  BY DEF Sound
<1>2. /\ \A i \in c..d : Sounds(p, i)
      /\ c = 1 \/ ~Sounds(p, c - 1)
      /\ d = Len(p) \/ ~Sounds(p, d + 1)
  BY DEF Sound
<1>3. ~(a < c)
  <2>1. ASSUME a < c PROVE c - 1 \in a..b /\ c # 1
    BY <2>1
  <2> QED BY <1>1, <1>2, <2>1
<1>4. ~(c < a)
  <2>1. ASSUME c < a PROVE a - 1 \in c..d /\ a # 1
    BY <2>1
  <2> QED BY <1>1, <1>2, <2>1
<1>5. ~(b < d)
  <2>1. ASSUME b < d PROVE b + 1 \in c..d /\ b # Len(p)
    BY <2>1
  <2> QED BY <1>1, <1>2, <2>1
<1>6. ~(d < b)
  <2>1. ASSUME d < b PROVE d + 1 \in a..b /\ d # Len(p)
    BY <2>1
  <2> QED BY <1>1, <1>2, <2>1
<1> QED BY <1>3, <1>4, <1>5, <1>6

\* The sound around a click: the loop finds all of it.
LEMMA SoundAround ==
  ASSUME NEW p, Len(p) \in Nat, NEW start, IsStart(p, start),
         NEW i \in 1..Len(p), i < start, Click(p, i)
  PROVE  LET first == Back(SOUND, p, i)
             e == FirstNot(SOUND, p, i + 1)
         IN  /\ first \in 1..i /\ e \in i + 1..Len(p) + 1
             /\ Sound(p, first, e - 1) /\ e <= start /\ Lowest(e, start) = e
             /\ e <= Len(p) => ~Sounds(p, e)
<1> DEFINE n == Len(p)
           first == Back(SOUND, p, i)
           e == FirstNot(SOUND, p, i + 1)
<1>1. /\ first \in 1..i /\ \A k \in first..i - 1 : Sounds(p, k)
      /\ first # 1 => ~Sounds(p, first - 1)
  <2>1. i \in 1..Len(p) + 1
    OBVIOUS
  <2> QED BY <2>1, BackIs DEF Sounds
<1>2. /\ e \in i + 1..n + 1 /\ \A k \in i + 1..e - 1 : Sounds(p, k)
      /\ e <= n => ~Sounds(p, e)
  <2>1. i + 1 \in 1..Len(p) + 1
    OBVIOUS
  <2> QED BY <2>1, FirstNotIs DEF Sounds
<1> HIDE DEF first, e
<1>3. Sounds(p, i)
  BY ClickSounds
<1>4. ASSUME NEW k \in first..e - 1 PROVE Sounds(p, k)
  <2>1. k \in first..i - 1 \/ k = i \/ k \in i + 1..e - 1
    BY <1>1, <1>2
  <2> QED BY <1>1, <1>2, <1>3, <2>1
<1>5. Sound(p, first, e - 1)
  <2>1. first <= e - 1 /\ (e - 1 = n \/ e <= n) /\ (e - 1) + 1 = e
    BY <1>1, <1>2
  <2> QED BY <1>1, <1>2, <1>4, <2>1 DEF Sound
<1>6. start \in 1..n + 1 /\ (start = 1 \/ ~Sounds(p, start - 1))
  BY DEF IsStart
<1>7. e <= start
  <2>1. ASSUME e > start PROVE start - 1 \in first..e - 1 /\ start # 1
    BY <1>1, <1>2, <1>6, <2>1
  <2> QED BY <1>2, <1>4, <1>6, <2>1
<1>8. Lowest(e, start) = e
  BY <1>7 DEF Lowest
<1> QED BY <1>1, <1>2, <1>5, <1>7, <1>8 DEF first, e

\* The loop of the gate comes to an end in every chunk.
LEMMA Gateable ==
  ASSUME NEW p, Len(p) \in Nat, NEW start, IsStart(p, start)
  PROVE  \E f : IsGating(f, p, start, 1)
<1> DEFINE n == Len(p)
           P == {k \in 1..n + 1 : \E f : IsGating(f, p, start, k)}
<1>0. start \in 1..n + 1
  BY DEF IsStart
<1>1. n + 1 \in P
  <2> DEFINE f == [i \in n + 1..n + 1 |-> {}]
  <2>1. \A i \in n + 1..n + 1 : GateStep(f, p, start, i) = {}
    BY <1>0 DEF GateStep
  <2>2. IsGating(f, p, start, n + 1)
    BY <2>1 DEF IsGating
  <2> QED BY <2>2
<1>2. ASSUME NEW k \in 1..n, \A j \in k + 1..n + 1 : j \in P PROVE k \in P
  <2>1. k + 1 \in k + 1..n + 1
    OBVIOUS
  <2>2. PICK f : IsGating(f, p, start, k + 1)
    BY <1>2, <2>1
  <2> DEFINE g == [i \in k..n + 1 |-> IF i = k THEN GateStep(f, p, start, k) ELSE f[i]]
  <2>3. \A j \in k + 1..n + 1 : g[j] = f[j] /\ j # k
    OBVIOUS
  <2>4. g[k] = GateStep(f, p, start, k) /\ g = [i \in k..n + 1 |-> g[i]]
    OBVIOUS
  <2> HIDE DEF g
  <2>5. ASSUME NEW i \in k..n + 1 PROVE GateStep(g, p, start, i) = GateStep(f, p, start, i)
    <3>1. CASE i < start /\ ~Click(p, i)
      <4>1. i + 1 \in k + 1..n + 1
        BY <1>0, <3>1
      <4> QED BY <2>3, <3>1, <4>1 DEF GateStep
    <3>2. CASE i < start /\ Click(p, i)
      <4> DEFINE e == FirstNot(SOUND, p, i + 1)
                 l == Lowest(e, start)
      <4>1. l = e /\ e \in i + 1..n + 1
        <5>1. i \in 1..Len(p)
          BY <1>0, <3>2
        <5> QED BY <3>2, <5>1, SoundAround
      <4> HIDE DEF l, e
      <4>2. l \in k + 1..n + 1
        BY <4>1
      <4>3. g[l] = f[l]
        BY <2>3, <4>2
      <4> QED BY <3>2, <4>3 DEF GateStep, l, e
    <3>3. CASE i >= start
      BY <3>3 DEF GateStep
    <3> QED BY <1>0, <3>1, <3>2, <3>3
  <2>6. ASSUME NEW i \in k..n + 1 PROVE g[i] = GateStep(f, p, start, i)
    <3>1. CASE i = k
      BY <2>4, <3>1
    <3>2. CASE i # k
      <4>1. i \in k + 1..n + 1
        BY <3>2
      <4> QED BY <2>2, <2>3, <4>1 DEF IsGating
    <3> QED BY <3>1, <3>2
  <2>7. IsGating(g, p, start, k)
    BY <2>4, <2>5, <2>6 DEF IsGating
  <2> QED BY <2>7
<1>3. 1 \in P
  <2> HIDE DEF P
  <2>1. n \in Nat
    OBVIOUS
  <2> HIDE DEF n
  <2>2. \A i \in 1..n + 1 : i \in P
    BY <1>1, <1>2, <2>1, Descended
  <2> QED BY <2>1, <2>2
<1> QED BY <1>3

\* At a click, what is cut from here on is the sound around it, if that is short, and
\* what is cut after it.
LEMMA CutAtClick ==
  ASSUME NEW p, Len(p) \in Nat, NEW start, IsStart(p, start), MaxClick \in Nat,
         NEW i \in 1..Len(p), NEW c \in 1..i, NEW e \in i + 1..Len(p) + 1,
         Sound(p, c, e - 1), e <= start, Click(p, i)
  PROVE  CutFrom(p, start, i)
           = (IF e - c <= MaxClick THEN c..e - 1 ELSE {}) \cup CutFrom(p, start, e)
<1> DEFINE n == Len(p)
           R == IF e - c <= MaxClick THEN c..e - 1 ELSE {}
<1>0. start \in 1..n + 1 /\ n \in Nat
  BY DEF IsStart
<1>1. ASSUME NEW x \in CutFrom(p, start, i), x \notin CutFrom(p, start, e) PROVE x \in R
  <2>1. x \in 1..n /\ \E a \in 1..x, b \in x..n : Cut(p, start, a, b) /\ b >= i
    BY <1>1 DEF CutFrom
  <2>2. PICK a \in 1..x, b \in x..n : Cut(p, start, a, b) /\ b >= i
    BY <2>1
  <2>3. b < e
    BY <1>1, <2>1, <2>2 DEF CutFrom
  <2>4. Sound(p, a, b) /\ b - a < MaxClick
    BY <2>2 DEF Cut
  <2>5. a = c /\ b = e - 1
    <3>1. b \in 1..n /\ a \in 1..n /\ c \in 1..n /\ e - 1 \in 1..n /\ b \in c..e - 1
      BY <2>1, <2>2, <2>3
    <3>2. a <= b /\ b <= b /\ c <= b /\ b <= e - 1
      BY <2>1, <2>2, <3>1
    <3>3. DEFINE d == e - 1
    <3> HIDE DEF d
    <3>4. Sound(p, c, d) /\ d \in 1..n /\ b <= d
      BY <3>1, <3>2 DEF d
    <3>5. a = c /\ b = d
      BY <2>4, <3>1, <3>2, <3>4, SoundIsOne
    <3> QED BY <3>5 DEF d
  <2>6. x \in c..e - 1 /\ e - c <= MaxClick
    BY <2>1, <2>2, <2>4, <2>5
  <2> QED BY <2>6
<1>2. ASSUME NEW x \in R PROVE x \in CutFrom(p, start, i)
  <2>1. e - c <= MaxClick /\ x \in c..e - 1
    BY <1>2
  <2>2. x \in 1..n /\ c \in 1..x /\ e - 1 \in x..n /\ e - 1 >= i
    BY <2>1
  <2>3. Cut(p, start, c, e - 1)
    <3>1. e - 1 < start /\ (e - 1) - c < MaxClick /\ i \in c..e - 1
      BY <1>0, <2>1
    <3> QED BY <3>1 DEF Cut
  <2> QED BY <2>2, <2>3 DEF CutFrom
<1>3. ASSUME NEW x \in CutFrom(p, start, e) PROVE x \in CutFrom(p, start, i)
  <2>1. x \in 1..n /\ \E a \in 1..x, b \in x..n : Cut(p, start, a, b) /\ b >= e
    BY <1>3 DEF CutFrom
  <2>2. PICK a \in 1..x, b \in x..n : Cut(p, start, a, b) /\ b >= e
    BY <2>1
  <2>3. b >= i
    BY <2>1, <2>2
  <2> QED BY <2>1, <2>2, <2>3 DEF CutFrom
<1> QED BY <1>1, <1>2, <1>3

\* Whatever the loop silences from block i on, it silences no more and no less.
LEMMA LoopCuts ==
  ASSUME NEW p, Len(p) \in Nat, NEW start, IsStart(p, start), MaxClick \in Nat,
         NEW f, IsGating(f, p, start, 1)
  PROVE  \A i \in 1..Len(p) + 1 : GateEntry(p, i) => f[i] = CutFrom(p, start, i)
<1> DEFINE n == Len(p)
           P == {i \in 1..n + 1 : GateEntry(p, i) => f[i] = CutFrom(p, start, i)}
<1>0. start \in 1..n + 1 /\ n \in Nat
  BY DEF IsStart
<1>1. \A i \in 1..n + 1 : f[i] = GateStep(f, p, start, i)
  BY DEF IsGating
<1>2. ASSUME NEW i \in 1..n + 1, i >= start PROVE f[i] = CutFrom(p, start, i)
  <2>1. f[i] = {}
    BY <1>1, <1>2 DEF GateStep
  <2>2. ASSUME NEW x \in 1..n, NEW a \in 1..x, NEW b \in x..n, Cut(p, start, a, b), b >= i
        PROVE  FALSE
    <3>1. b < start
      BY <2>2 DEF Cut
    <3> QED BY <1>0, <1>2, <2>2, <3>1
  <2>3. CutFrom(p, start, i) = {}
    BY <2>2 DEF CutFrom
  <2> QED BY <2>1, <2>3
<1>3. n + 1 \in P
  <2>1. n + 1 \in 1..n + 1 /\ n + 1 >= start
    BY <1>0
  <2> QED BY <1>2, <2>1
<1>4. ASSUME NEW i \in 1..n, \A j \in i + 1..n + 1 : j \in P PROVE i \in P
  <2> SUFFICES ASSUME GateEntry(p, i), i < start PROVE f[i] = CutFrom(p, start, i)
    BY <1>0, <1>2
  <2>0. f[i] = GateStep(f, p, start, i) /\ ~(i >= start)
    BY <1>0, <1>1
  <2>1. CASE ~Click(p, i)
    <3>1. f[i] = f[i + 1]
      BY <2>0, <2>1 DEF GateStep
    <3>2. ASSUME NEW a \in 1..i + 1, NEW b \in i + 1..n, Sound(p, a, b), NEW k \in a..i
          PROVE  ~Click(p, k)
      <4>1. k = i \/ (k \in a..i - 1 /\ a \in 1..i /\ b \in i..n)
        BY <3>2
      <4> QED BY <2>1, <3>2, <4>1 DEF GateEntry
    <3>3. GateEntry(p, i + 1)
      BY <3>2 DEF GateEntry
    <3>4. f[i + 1] = CutFrom(p, start, i + 1)
      <4>1. i + 1 \in i + 1..n + 1
        OBVIOUS
      <4> QED BY <1>4, <3>3, <4>1
    <3> HIDE DEF P
    <3>5. ASSUME NEW x \in 1..n, NEW a \in 1..x, NEW b \in x..n, Cut(p, start, a, b), b >= i
          PROVE  b >= i + 1
      <4>1. ASSUME b = i PROVE FALSE
        <5>1. Sound(p, a, b) /\ \E k \in a..b : Click(p, k)
          BY <3>5 DEF Cut
        <5>2. PICK k \in a..b : Click(p, k)
          BY <5>1
        <5>3. a \in 1..i /\ b \in i..n /\ k \in a..i - 1
          BY <2>1, <4>1, <5>2
        <5> QED BY <5>1, <5>2, <5>3 DEF GateEntry
      <4> QED BY <3>5, <4>1
    <3>6. CutFrom(p, start, i) = CutFrom(p, start, i + 1)
      <4>1. ASSUME NEW x \in CutFrom(p, start, i) PROVE x \in CutFrom(p, start, i + 1)
        BY <3>5 DEF CutFrom
      <4>2. ASSUME NEW x \in CutFrom(p, start, i + 1) PROVE x \in CutFrom(p, start, i)
        <5>1. x \in 1..n /\ \E a \in 1..x, b \in x..n : Cut(p, start, a, b) /\ b >= i + 1
          BY <4>2 DEF CutFrom
        <5>2. PICK a \in 1..x, b \in x..n : Cut(p, start, a, b) /\ b >= i + 1
          BY <5>1
        <5>3. b >= i
          BY <5>2
        <5> QED BY <5>1, <5>2, <5>3 DEF CutFrom
      <4> QED BY <4>1, <4>2
    <3> QED BY <3>1, <3>4, <3>6
  <2>2. CASE Click(p, i)
    <3> DEFINE c == Back(SOUND, p, i)
               e == FirstNot(SOUND, p, i + 1)
    <3>1. /\ c \in 1..i /\ e \in i + 1..n + 1
          /\ Sound(p, c, e - 1) /\ e <= start /\ Lowest(e, start) = e
          /\ e <= n => ~Sounds(p, e)
      BY <2>2, SoundAround
    <3>2. f[i] = (IF e - c <= MaxClick THEN c..e - 1 ELSE {}) \cup f[e]
      BY <2>0, <2>2, <3>1 DEF GateStep
    <3> HIDE DEF c, e
    <3>3. GateEntry(p, e)
      <4>1. ASSUME NEW a \in 1..e, NEW b \in e..n, Sound(p, a, b) PROVE FALSE
        <5>1. e \in a..b /\ e <= n
          BY <3>1
        <5> QED BY <3>1, <4>1, <5>1 DEF Sound
      <4> QED BY <4>1 DEF GateEntry
    <3>4. f[e] = CutFrom(p, start, e)
      BY <1>4, <3>1, <3>3
    <3> HIDE DEF P
    <3>5. CutFrom(p, start, i)
            = (IF e - c <= MaxClick THEN c..e - 1 ELSE {}) \cup CutFrom(p, start, e)
      BY <2>2, <3>1, CutAtClick
    <3> QED BY <3>2, <3>4, <3>5
  <2> QED BY <2>1, <2>2
<1> HIDE DEF P
<1>5. n + 1 \in P /\ n \in Nat
  BY <1>3
<1> HIDE DEF n
<1>6. \A i \in 1..n + 1 : i \in P
  BY <1>4, <1>5, Descended
<1> QED BY <1>6 DEF P, n

\* The gate silences what may be cut before the speech, in the whole chunk.
LEMMA GatedIs ==
  ASSUME NEW p, Len(p) \in Nat, IsStart(p, TrueStart(p)), MaxClick \in Nat
  PROVE  Gated(p) = CutFrom(p, TrueStart(p), 1)
<1> DEFINE start == TrueStart(p)
           g == CHOOSE f : f = [i \in 1..(Len(p) + 1) |->
                   IF i >= start THEN {}
                   ELSE IF ~Click(p, i) THEN f[i + 1]
                   ELSE (IF Lowest(FirstNot(SOUND, p, i + 1), start) - Back(SOUND, p, i)
                              <= MaxClick
                         THEN Back(SOUND, p, i)..(Lowest(FirstNot(SOUND, p, i + 1), start) - 1)
                         ELSE {})
                        \cup f[Lowest(FirstNot(SOUND, p, i + 1), start)]]
<1>1. Gated(p) = g[1]
  BY DEF Gated
<1> HIDE DEF start
<1>2. PICK f : IsGating(f, p, start, 1)
  BY Gateable DEF start
<1>3. IsGating(g, p, start, 1)
  <2>1. g = CHOOSE f1 : IsGating(f1, p, start, 1)
    BY DEF IsGating, GateStep
  <2> QED BY <1>2, <2>1
<1> HIDE DEF g
<1>4. GateEntry(p, 1) /\ 1 \in 1..Len(p) + 1
  BY DEF GateEntry
<1> QED BY <1>1, <1>3, <1>4, LoopCuts DEF start

\* The speech begins with the sound that the onset is in.
LEMMA StartIs ==
  ASSUME NEW p, Len(p) \in Nat
  PROVE  /\ TrueStart(p) \in 1..OnsetBlock(p)
         /\ \A k \in TrueStart(p)..OnsetBlock(p) - 1 : Sounds(p, k)
         /\ TrueStart(p) # 1 => ~Sounds(p, TrueStart(p) - 1)
         /\ IsStart(p, TrueStart(p))
<1> DEFINE o == OnsetBlock(p)
           start == TrueStart(p)
<1>1. o \in 1..Len(p) + 1
  BY OnsetIs DEF FindsSpeech
<1>2. /\ start \in 1..o /\ \A k \in start..o - 1 : Sounds(p, k)
      /\ start # 1 => ~Sounds(p, start - 1)
  BY <1>1, BackIs DEF TrueStart, Sounds
<1> HIDE DEF o, start
<1>3. IsStart(p, start)
  BY <1>1, <1>2 DEF IsStart
<1> QED BY <1>2, <1>3 DEF o, start

\* The blocks of a chunk are numbered from one.
Indexed(p) == DOMAIN p = 1..Len(p)

\* A sound is silenced just when it is a click.
LEMMA CutIsClick ==
  ASSUME NEW p, Len(p) \in Nat, Indexed(p),
         NEW a \in 1..Len(p), NEW b \in a..Len(p)
  PROVE  Cut(p, TrueStart(p), a, b) <=> IsClick(p, a, b)
<1> DEFINE n == Len(p)
           o == OnsetBlock(p)
           start == TrueStart(p)
<1>1. /\ o \in 1..n + 1 /\ \A k \in 1..o - 1 : ~Speech(p, k)
      /\ o <= n => Speech(p, o)
  BY OnsetIs DEF FindsSpeech
<1>2. /\ start \in 1..o /\ \A k \in start..o - 1 : Sounds(p, k)
      /\ start # 1 => ~Sounds(p, start - 1)
  BY StartIs
<1> HIDE DEF o, start
<1>3. start \in 1..n + 1 /\ (start = 1 \/ ~Sounds(p, start - 1))
  BY <1>1, <1>2
<1>4. ASSUME Cut(p, start, a, b) PROVE IsClick(p, a, b)
  <2>1. /\ Sound(p, a, b) /\ b < start /\ b - a < MaxClick
        /\ \E k \in a..b : Click(p, k)
    BY <1>4 DEF Cut
  <2>2. ~\E k \in 1..b : Speech(p, k)
    <3>1. \A k \in 1..b : k \in 1..o - 1
      BY <1>1, <1>2, <2>1
    <3> QED BY <1>1, <3>1
  <2>3. b # n
    <3>1. ASSUME b = n PROVE start - 1 = b /\ b \in a..b /\ start # 1
      BY <1>3, <2>1, <3>1
    <3> QED BY <1>3, <2>1, <3>1 DEF Sound
  <2> QED BY <2>1, <2>2, <2>3 DEF IsClick
<1>5. ASSUME IsClick(p, a, b) PROVE Cut(p, start, a, b)
  <2>1. /\ Sound(p, a, b) /\ b - a < MaxClick
        /\ \E k \in a..b : Click(p, k)
        /\ ~\E k \in 1..b : Speech(p, k)
        /\ b = n => \E k \in DOMAIN p : Speech(p, k)
    BY <1>5 DEF IsClick
  <2>2. b < o
    <3>1. o <= b => o \in 1..b /\ o <= n
      BY <1>1
    <3> QED BY <1>1, <2>1, <3>1
  <2>3. b = n \/ ~Sounds(p, b + 1)
    BY <2>1 DEF Sound
  <2>4. ASSUME b >= start PROVE FALSE
    <3>1. b = o - 1
      <4>0. o \in 1..n + 1 /\ start \in 1..o
        BY <1>1, <1>2
      <4>1. ASSUME b < o - 1 PROVE b # n /\ b + 1 \in start..o - 1
        BY <4>0, <2>4, <4>1
      <4>2. ~(b < o - 1)
        BY <1>2, <2>3, <4>1
      <4> QED BY <4>0, <2>2, <4>2
    <3>2. CASE o <= n
      <4>1. Sounds(p, o)
        BY <1>1, <3>2 DEF Speech, Loud, Sounds, SPEECH, SOUND
      <4>2. b # n /\ b + 1 = o
        BY <1>1, <3>1, <3>2
      <4> QED BY <2>3, <4>1, <4>2
    <3>3. CASE o = n + 1
      <4>1. b = n
        BY <3>1, <3>3
      <4>2. PICK k \in DOMAIN p : Speech(p, k)
        BY <2>1, <4>1
      <4>3. k \in 1..b
        BY <4>1 DEF Indexed
      <4> QED BY <2>1, <4>2, <4>3
    <3> QED BY <1>1, <3>2, <3>3
  <2>5. b < start
    BY <1>3, <2>4
  <2> QED BY <2>1, <2>5 DEF Cut
<1> QED BY <1>4, <1>5 DEF start

\* For every length of a click, window and chunk: the gate silences the connected
\* sounds that are as loud as a click and as short, before the speech, and no others.
LEMMA GateIsExact == OnlyClicksAreCut
<1> SUFFICES ASSUME NEW p \in Chunks
             PROVE  Gated(p) = {i \in DOMAIN p :
                                 \E a \in 1..i, b \in i..Len(p) : IsClick(p, a, b)}
  BY DEF OnlyClicksAreCut
<1>1. Len(p) \in Nat /\ Indexed(p)
  <2>1. PICK n \in 0..MaxBlocks : p \in [1..n -> 0..3]
    BY DEF Chunks
  <2>2. p \in Seq(0..3)
    BY <2>1, GateAssumption
  <2> QED BY <2>2 DEF Indexed
<1>2. MaxClick \in Nat
  BY GateAssumption
<1>3. Gated(p) = CutFrom(p, TrueStart(p), 1)
  BY <1>1, <1>2, StartIs, GatedIs
<1>4. ASSUME NEW i \in 1..Len(p), NEW a \in 1..i, NEW b \in i..Len(p)
      PROVE  (Cut(p, TrueStart(p), a, b) /\ b >= 1) <=> IsClick(p, a, b)
  <2>1. a \in 1..Len(p) /\ b \in a..Len(p) /\ b >= 1
    BY <1>1
  <2> QED BY <1>1, <2>1, CutIsClick
<1>5. CutFrom(p, TrueStart(p), 1)
        = {i \in 1..Len(p) : \E a \in 1..i, b \in i..Len(p) : IsClick(p, a, b)}
  BY <1>4 DEF CutFrom
<1> QED BY <1>1, <1>3, <1>5 DEF Indexed

\* Whatever a command has delivered, its click gate cuts clicks and nothing else.
THEOREM GateCutsClicks == SaySpec => []GateOnlyCutsClicks
<1>1. GateOnlyCutsClicks
  BY GateIsExact DEF GateOnlyCutsClicks
<1> QED BY <1>1, PTL
-----------------------------------------------------------------------------
(* Frozen voices, for every set of models, recordings, seeds and labels,   *)
(* whatever is replaced when: a file names what it was made of.            *)

IsValues(v) == v = [by |-> v.by, of |-> v.of, moved |-> v.moved]

\* What one vector, context or bank has to say of itself.
TrueVector(f) == IsValues(f.values) /\ (~slipped => f.values.by = f.scope)
TrueContext(c) == /\ c.text = ORIGINAL
                  /\ ~slipped => c.codes.by = c.scope
                  /\ ~flickered => c.source = c.codes.of
TrueBank(b) == \A s \in b.sources : IsValues(s.values) /\ (~slipped => s.values.by = b.scope)

Fields == {"kind", "at", "full", "seed", "input", "speaker", "context", "pca", "from",
           "hash", "changes"}
InSession == {"hash", "encode", "rehash", "export"}
OnReference == {"load"} \union InSession
Frozenly == {"scope", "initialize", "speak"}

JobTypes ==
  /\ DOMAIN job = Fields
  /\ job.at \in {"idle"} \union OnReference \union Frozenly
  /\ slipped \in BOOLEAN /\ flickered \in BOOLEAN
  /\ artifact \in Artifact /\ loaded \in SUBSET Artifact
  /\ recording \in Recording /\ job.changes \in Nat

ExportsTrue == \A e \in exports : /\ \A f \in e.speaker : TrueVector(f)
                                  /\ \A c \in e.context : TrueContext(c)
                                  /\ \A b \in e.pca : TrueBank(b)

\* A draft was spoken by a model of the scope it names, with what it says.
Voiced(d) == /\ d.wave.input = FrozenSession(d.bundle.conditioning, d.bundle.icl_context,
                                             d.bundle.seed)
             /\ d.wave.by \in Artifact
             /\ ~slipped => Scope(d.wave.by) = d.bundle.conditioning.scope
DraftsTrue == \A d \in drafts : /\ TrueVector(d.bundle.conditioning)
                                /\ \A c \in d.bundle.icl_context : TrueContext(c)
                                /\ Voiced(d)

Reference == [voice : Nat, default : BOOLEAN, saved : {{}} \union {{d} : d \in drafts}]
RegistryTrue == registry \in Seq(Reference)

\* A session for a reference has loaded the model that is there, and what it has
\* prepared is of that model and of the recording that it hashed.
SameRecording(of) ==
  ~flickered => \/ job.changes = 0 /\ job.hash = {recording} /\ of = recording
                \/ job.changes # 0 /\ recording \notin job.hash
SessionTrue ==
  /\ job.at \in {"load", "initialize", "scope", "hash"} => job.changes = 0
  /\ job.at \in {"initialize", "scope"} => \A i \in job.input : i.kind # "reference"
  /\ job.at \in {"load", "hash", "encode"} =>
       \A i \in job.input : {"values", "codes"} \subseteq DOMAIN i
  /\ job.at \in InSession => loaded # {} /\ (~slipped => loaded = {artifact})
  /\ \A m, n \in loaded : m = n
  /\ job.at = "encode" => SameRecording(recording)
  /\ job.at \in {"rehash", "export"} =>
       \A i \in job.input : \E m \in loaded, of \in Recording :
         /\ i.values = {Encoded(m, of)} /\ i.codes = {CodesOf(m, of)}
         /\ job.at = "rehash" => SameRecording(of)
         /\ job.at = "export" /\ ~flickered => job.hash = {of}

\* A frozen voice is loaded by a model of its scope.
ScopeTrue ==
  /\ job.at \in OnReference \/ job.kind = "design" => job.speaker = {}
  /\ job.at = "initialize" /\ ~slipped => \A f \in job.speaker : f.scope = Scope(artifact)
  /\ job.at = "speak" /\ ~slipped => \A f \in job.speaker, m \in loaded : f.scope = Scope(m)

\* What a command has in its hands is true, and is what it gives the library.
JobTrue ==
  /\ \A f \in job.speaker : TrueVector(f)
  /\ \A c \in job.context : TrueContext(c)
  /\ job.kind = "preview" =>
       /\ job.at \in Frozenly
       /\ \A f \in job.speaker : job.input = {FrozenSession(f, job.context, job.seed)}
  /\ job.kind = "say" => \A r \in job.from : \A d \in r.saved :
       /\ job.at \in Frozenly /\ d \in drafts
       /\ job.speaker = {d.bundle.conditioning}
       /\ job.input = {FrozenSession(d.bundle.conditioning, d.bundle.icl_context,
                                     IF job.seed # NoSeed THEN job.seed ELSE d.bundle.seed)}

CInv == /\ JobTypes /\ ExportsTrue /\ DraftsTrue /\ RegistryTrue
        /\ SessionTrue /\ ScopeTrue /\ JobTrue

\* What is in no job.
LEMMA NoJobIs ==
  /\ DOMAIN NoJob = Fields /\ NoJob.kind = "none" /\ NoJob.at = "idle" /\ NoJob.changes = 0
  /\ NoJob.speaker = {} /\ NoJob.context = {} /\ NoJob.from = {} /\ NoJob.input = {}
  /\ NoJob.hash = {} /\ NoJob.seed = NoSeed /\ NoJob.pca = {}
BY DEF NoJob, Fields

\* Of a job that begins, what is not given is as in no job.
LEMMA BeginGives ==
  ASSUME NEW fields, Begin(fields)
  PROVE  /\ job.at = "idle" /\ loaded' = {} /\ DOMAIN job' = Fields
         /\ \A f \in Fields : job'[f] = IF f \in DOMAIN fields THEN fields[f] ELSE NoJob[f]
BY NoJobIs DEF Begin

\* What a job is given when it begins, it has.
LEMMA BeginSets ==
  ASSUME NEW fields, Begin(fields), DOMAIN fields \subseteq Fields
  PROVE  \A f \in DOMAIN fields : job'[f] = fields[f]
BY BeginGives

\* A command that has ended leaves nothing behind but its files.
LEMMA IdleTrue ==
  ASSUME job' = NoJob, loaded' = {}
  PROVE  /\ DOMAIN job' = Fields /\ job'.at = "idle" /\ loaded' \in SUBSET Artifact
         /\ SessionTrue' /\ ScopeTrue' /\ JobTrue'
BY NoJobIs DEF SessionTrue, ScopeTrue, JobTrue, OnReference, InSession

\* What was replaced stays replaced, so what was true of a file stays true of it.
LEMMA StillTrue ==
  ASSUME JobTypes, (slipped => slipped'), (flickered => flickered')
  PROVE  /\ \A f : TrueVector(f) => TrueVector(f)'
         /\ \A c : TrueContext(c) => TrueContext(c)'
         /\ \A b : TrueBank(b) => TrueBank(b)'
         /\ \A d : Voiced(d) => Voiced(d)'
BY DEF JobTypes, TrueVector, TrueContext, TrueBank, Voiced

\* As long as no file changes, what was true of exports, drafts and the registry is.
LEMMA FilesStayTrue ==
  ASSUME CInv, UNCHANGED files, (slipped => slipped'), (flickered => flickered')
  PROVE  ExportsTrue' /\ DraftsTrue' /\ RegistryTrue'
<1>1. /\ \A f : TrueVector(f) => TrueVector(f)'
      /\ \A c : TrueContext(c) => TrueContext(c)'
      /\ \A b : TrueBank(b) => TrueBank(b)'
      /\ \A d : Voiced(d) => Voiced(d)'
  BY StillTrue DEF CInv
<1>2. exports' = exports /\ drafts' = drafts /\ registry' = registry
  BY DEF files
<1>3. ExportsTrue'
  BY <1>1, <1>2 DEF CInv, ExportsTrue
<1>4. DraftsTrue'
  BY <1>1, <1>2 DEF CInv, DraftsTrue
<1>5. RegistryTrue'
  BY <1>2 DEF CInv, RegistryTrue, Reference
<1> QED
  BY <1>3, <1>4, <1>5

\* The invariant of the frozen voices holds at the start.
LEMMA FrozenInit == IInit => CInv
<1> SUFFICES ASSUME IInit PROVE CInv
  OBVIOUS
<1>1. /\ artifact \in Artifact /\ recording \in Recording /\ job = NoJob /\ loaded = {}
      /\ exports = {} /\ drafts = {} /\ registry = <<Plain>>
      /\ slipped = FALSE /\ flickered = FALSE
  BY InstrumentAssumption DEF IInit
<1>2. JobTypes
  <2>1. slipped \in BOOLEAN /\ flickered \in BOOLEAN
    BY <1>1
  <2>2. DOMAIN job = Fields /\ job.at = "idle" /\ job.changes \in Nat
    BY <1>1, NoJobIs
  <2> QED
    BY <1>1, <2>1, <2>2 DEF JobTypes
<1>3. ExportsTrue /\ DraftsTrue
  BY <1>1 DEF ExportsTrue, DraftsTrue
<1>4. RegistryTrue
  BY <1>1 DEF RegistryTrue, Reference, Plain
<1>5. SessionTrue /\ ScopeTrue /\ JobTrue
  BY <1>1, NoJobIs DEF SessionTrue, ScopeTrue, JobTrue, OnReference, InSession
<1> QED
  BY <1>2, <1>3, <1>4, <1>5 DEF CInv

\* A command that is given up, or speaks, changes no file.
LEMMA GiveUpTrue == ASSUME CInv, GiveUp \/ Speaks PROVE CInv'
<1>1. job' = NoJob /\ loaded' = {} /\ UNCHANGED <<world, files, slipped, flickered>>
  BY DEF GiveUp, Speaks
<1>2. ExportsTrue' /\ DraftsTrue' /\ RegistryTrue'
  BY <1>1, FilesStayTrue
<1>3. JobTypes'
  BY <1>1, IdleTrue, NoJobIs DEF CInv, JobTypes, world
<1> QED
  BY <1>1, <1>2, <1>3, IdleTrue DEF CInv

\* An extraction begins.
LEMMA BeginExtractTrue == ASSUME CInv, BeginExtract PROVE CInv'
<1>1. PICK full \in BOOLEAN :
        job' = [NoJob EXCEPT !.kind = "extract", !.at = "load", !.full = full,
                             !.input = {ReferenceInput(ORIGINAL)}]
  BY DEF BeginExtract
<1>2. /\ loaded' = {} /\ UNCHANGED <<world, files, slipped, flickered>>
      /\ DOMAIN job' = Fields /\ job'.at = "load" /\ job'.kind = "extract"
      /\ job'.changes = 0 /\ job'.speaker = {} /\ job'.context = {}
  BY <1>1, NoJobIs DEF BeginExtract, Fields
<1>3. ExportsTrue' /\ DraftsTrue' /\ RegistryTrue'
  BY <1>2, FilesStayTrue
<1>4. JobTypes'
  BY <1>2 DEF CInv, JobTypes, world, OnReference
<1>5. SessionTrue' /\ ScopeTrue'
  <2>1. job'.input = {ReferenceInput(ORIGINAL)}
    BY <1>1, NoJobIs DEF Fields
  <2>2. {"values", "codes"} \subseteq DOMAIN ReferenceInput(ORIGINAL)
    BY DEF ReferenceInput, Input
  <2> QED
    BY <1>2, <2>1, <2>2 DEF SessionTrue, ScopeTrue, InSession
<1>6. JobTrue'
  BY <1>2 DEF JobTrue
<1> QED
  BY <1>3, <1>4, <1>5, <1>6 DEF CInv

\* A frozen voice is not a reference.
LEMMA FrozenIsNoReference ==
  ASSUME NEW f, NEW c, NEW seed
  PROVE  FrozenSession(f, c, seed).kind # "reference"
BY DEF FrozenSession, FrozenInput, IclInput, Input

\* It loads the model.
LEMMA InitializeTrue == ASSUME CInv, Initialize PROVE CInv'
<1> DEFINE where == IF \E input \in job.input : input.kind = "reference" THEN "hash" ELSE "speak"
<1>1. /\ job.at \in {"load", "initialize"} /\ loaded' = {artifact}
      /\ job' = [job EXCEPT !.at = where]
      /\ UNCHANGED <<world, files, slipped, flickered>>
  BY DEF Initialize, Goes
<1>2. DOMAIN job = Fields
  BY DEF CInv, JobTypes
<1>3. /\ DOMAIN job' = Fields /\ job'.at = where
      /\ job'.kind = job.kind /\ job'.input = job.input /\ job'.speaker = job.speaker
      /\ job'.context = job.context /\ job'.seed = job.seed /\ job'.from = job.from
      /\ job'.changes = job.changes
  BY <1>1, <1>2 DEF Fields
<1>4. ExportsTrue' /\ DraftsTrue' /\ RegistryTrue'
  BY <1>1, FilesStayTrue
<1>5. JobTypes'
  BY <1>1, <1>3 DEF CInv, JobTypes, world, OnReference, InSession, Frozenly
<1>6. job.at = "initialize" => where = "speak"
  BY DEF CInv, SessionTrue
<1>7. SessionTrue'
  BY <1>1, <1>3 DEF CInv, SessionTrue, InSession, world
<1>8. ScopeTrue'
  BY <1>1, <1>3, <1>6 DEF CInv, ScopeTrue, OnReference, InSession, world
<1>9. JobTrue'
  <2>1. /\ \A f : TrueVector(f) => TrueVector(f)'
        /\ \A c : TrueContext(c) => TrueContext(c)'
    BY <1>1, StillTrue DEF CInv
  <2>2. drafts' = drafts
    BY <1>1 DEF files
  <2>3. job.at \in Frozenly => job'.at \in Frozenly
    BY <1>1, <1>3, <1>6 DEF Frozenly
  <2> QED
    BY <1>3, <2>1, <2>2, <2>3 DEF CInv, JobTrue
<1> QED
  BY <1>4, <1>5, <1>7, <1>8, <1>9 DEF CInv

\* It hashes the recording.
LEMMA HashRecordingTrue == ASSUME CInv, HashRecording PROVE CInv'
<1>1. /\ job.at = "hash" /\ job' = [job EXCEPT !.at = "encode", !.hash = {recording}]
      /\ UNCHANGED <<world, files, loaded, slipped, flickered>>
  BY DEF HashRecording
<1>2. DOMAIN job = Fields
  BY DEF CInv, JobTypes
<1>3. /\ DOMAIN job' = Fields /\ job'.at = "encode" /\ job'.hash = {recording}
      /\ job'.kind = job.kind /\ job'.input = job.input /\ job'.speaker = job.speaker
      /\ job'.context = job.context /\ job'.seed = job.seed /\ job'.from = job.from
      /\ job'.changes = job.changes
  BY <1>1, <1>2 DEF Fields
<1>4. ExportsTrue' /\ DraftsTrue' /\ RegistryTrue'
  BY <1>1, FilesStayTrue
<1>5. JobTypes'
  BY <1>1, <1>3 DEF CInv, JobTypes, world, OnReference, InSession, Frozenly
<1>6. SessionTrue'
  BY <1>1, <1>3 DEF CInv, SessionTrue, SameRecording, InSession, world
<1>7. ScopeTrue'
  BY <1>1, <1>3 DEF CInv, ScopeTrue, OnReference, InSession
<1>8. JobTrue'
  BY <1>1, <1>3, StillTrue DEF CInv, JobTrue, Frozenly, files
<1> QED
  BY <1>4, <1>5, <1>6, <1>7, <1>8 DEF CInv

\* It computes the vector of the recording as it is now.
LEMMA EncodeTrue == ASSUME CInv, Encode PROVE CInv'
<1>1. job.at = "encode" /\ UNCHANGED <<world, files, loaded, slipped, flickered>>
  BY DEF Encode
<1>2. PICK model \in loaded :
        job' = [job EXCEPT !.at = "rehash",
                           !.input = {Prepared(i, model, recording) : i \in job.input}]
  BY DEF Encode
<1>3. DOMAIN job = Fields
  BY DEF CInv, JobTypes
<1>4. /\ DOMAIN job' = Fields /\ job'.at = "rehash" /\ job'.hash = job.hash
      /\ job'.input = {Prepared(i, model, recording) : i \in job.input}
      /\ job'.kind = job.kind /\ job'.speaker = job.speaker
      /\ job'.context = job.context /\ job'.seed = job.seed /\ job'.from = job.from
      /\ job'.changes = job.changes
  BY <1>2, <1>3 DEF Fields
<1>5. ExportsTrue' /\ DraftsTrue' /\ RegistryTrue'
  BY <1>1, FilesStayTrue
<1>6. JobTypes'
  BY <1>1, <1>4 DEF CInv, JobTypes, world, OnReference, InSession, Frozenly
<1>7. SessionTrue'
  <2>1. SameRecording(recording)' /\ recording' = recording /\ recording \in Recording
    BY <1>1, <1>4 DEF CInv, JobTypes, SessionTrue, SameRecording, world
  <2>0. \A i \in job.input : {"values", "codes"} \subseteq DOMAIN i
    BY <1>1 DEF CInv, SessionTrue
  <2>2. \A i \in job'.input : /\ i.values = {Encoded(model, recording)}
                             /\ i.codes = {CodesOf(model, recording)}
    BY <1>4, <2>0 DEF Prepared
  <2> QED
    BY <1>1, <1>4, <2>1, <2>2 DEF CInv, SessionTrue, InSession, world
<1>8. ScopeTrue'
  BY <1>1, <1>4 DEF CInv, ScopeTrue, OnReference, InSession
<1>9. JobTrue'
  BY <1>1, <1>4, StillTrue DEF CInv, JobTrue, Frozenly, files
<1> QED
  BY <1>5, <1>6, <1>7, <1>8, <1>9 DEF CInv

\* It hashes model and recording again.
LEMMA RehashTrue == ASSUME CInv, Rehash PROVE CInv'
<1> DEFINE where == IF job.kind = "extract" THEN "export" ELSE "speak"
<1>1. /\ job.at = "rehash" /\ job.hash = {recording} /\ job' = [job EXCEPT !.at = where]
      /\ UNCHANGED <<world, files, loaded, slipped, flickered>>
  BY DEF Rehash, Unchanged, Goes
<1>2. DOMAIN job = Fields
  BY DEF CInv, JobTypes
<1>3. /\ DOMAIN job' = Fields /\ job'.at = where /\ job'.hash = job.hash
      /\ job'.kind = job.kind /\ job'.input = job.input /\ job'.speaker = job.speaker
      /\ job'.context = job.context /\ job'.seed = job.seed /\ job'.from = job.from
      /\ job'.changes = job.changes
  BY <1>1, <1>2 DEF Fields
<1>4. ExportsTrue' /\ DraftsTrue' /\ RegistryTrue'
  BY <1>1, FilesStayTrue
<1>5. JobTypes'
  BY <1>1, <1>3 DEF CInv, JobTypes, world, OnReference, InSession, Frozenly
<1>6. SessionTrue'
  <2>1. \A of : SameRecording(of) /\ ~flickered => job'.hash = {of}
    BY <1>1, <1>3 DEF SameRecording
  <2> QED
    BY <1>1, <1>3, <2>1 DEF CInv, SessionTrue, InSession, world
<1>7. ScopeTrue'
  BY <1>1, <1>3 DEF CInv, ScopeTrue, OnReference, InSession
<1>8. JobTrue'
  BY <1>1, <1>3, StillTrue DEF CInv, JobTrue, Frozenly, files
<1> QED
  BY <1>4, <1>5, <1>6, <1>7, <1>8 DEF CInv

\* What extract writes names the model that is there and the recording it hashed.
LEMMA ExportedIsTrue ==
  ASSUME CInv, job.at = "export", NEW e \in Exported
  PROVE  /\ \A f \in e.speaker : TrueVector(f)
         /\ \A c \in e.context : TrueContext(c)
         /\ e.pca = {}
<1> DEFINE writes(v) ==
        \/ e = [speaker |-> {Frozen(Scope(artifact), v, {})}, context |-> {}, pca |-> {}]
        \/ \E j \in job.input, hash \in job.hash : \E codes \in j.codes :
             e = [speaker |-> {Frozen(Scope(artifact), v, {})},
                  context |-> {FromNative(Scope(artifact), codes, ORIGINAL, hash)}, pca |-> {}]
<1>0. PICK i \in job.input : \E v \in i.values : writes(v)
  <2> DEFINE speaker(v) == Frozen(Scope(artifact), v, {})
             full(v) == {[speaker |-> {speaker(v)}, context |-> {c}, pca |-> {}] :
                     c \in {FromNative(speaker(v).scope, codes, ORIGINAL, hash) :
                              codes \in UNION {j.codes : j \in job.input},
                              hash \in job.hash}}
             exported(v) == IF ~job.full
               THEN {[speaker |-> {speaker(v)}, context |-> {}, pca |-> {}]}
               ELSE full(v)
  <2>1. Exported = UNION {exported(v) : v \in UNION {i.values : i \in job.input}}
    BY DEF Exported
  <2>2. \A v : speaker(v).scope = Scope(artifact)
    BY DEF Frozen
  <2> HIDE DEF exported
  <2>3. PICK v \in UNION {i.values : i \in job.input} : e \in exported(v)
    BY <2>1
  <2>4. PICK i \in job.input : v \in i.values
    BY <2>3
  <2>5. \/ e = [speaker |-> {speaker(v)}, context |-> {}, pca |-> {}]
        \/ e \in full(v)
    BY <2>3 DEF exported
  <2>6. ASSUME e \in full(v)
        PROVE  \E j \in job.input, hash \in job.hash : \E codes \in j.codes :
             e = [speaker |-> {speaker(v)},
                  context |-> {FromNative(Scope(artifact), codes, ORIGINAL, hash)}, pca |-> {}]
    <3> HIDE DEF speaker
    <3> QED
      BY <2>2, <2>6
  <2> QED
    BY <2>4, <2>5, <2>6
<1>1. PICK values \in i.values : writes(values)
  BY <1>0
<1>2. /\ ~slipped => loaded = {artifact}
      /\ \A j \in job.input : \E m \in loaded, of \in Recording :
           /\ j.values = {Encoded(m, of)} /\ j.codes = {CodesOf(m, of)}
           /\ ~flickered => job.hash = {of}
  BY DEF CInv, SessionTrue, InSession
<1>3. \A f \in e.speaker : TrueVector(f)
  <2>1. e.speaker = {Frozen(Scope(artifact), values, {})}
    BY <1>1
  <2>2. PICK m \in loaded, of \in Recording : values = Encoded(m, of)
    BY <1>1, <1>2
  <2>3. IsValues(values) /\ (~slipped => values.by = Scope(artifact))
    BY <1>2, <2>2 DEF Encoded, IsValues
  <2> QED
    BY <2>1, <2>3 DEF TrueVector, Frozen
<1>4. \A c \in e.context : TrueContext(c)
  <2>1. SUFFICES ASSUME NEW c \in e.context PROVE TrueContext(c)
    OBVIOUS
  <2>2. PICK j \in job.input, hash \in job.hash : \E codes \in j.codes :
          c = FromNative(Scope(artifact), codes, ORIGINAL, hash)
    BY <1>1, <2>1
  <2>3. PICK codes \in j.codes : c = FromNative(Scope(artifact), codes, ORIGINAL, hash)
    BY <2>2
  <2>4. PICK m \in loaded, of \in Recording :
          codes = CodesOf(m, of) /\ (~flickered => hash = of)
    BY <1>2, <2>2, <2>3
  <2>5. /\ c.text = ORIGINAL /\ c.scope = Scope(artifact) /\ c.codes = codes
        /\ c.source = hash
    BY <2>3 DEF FromNative
  <2>6. codes.by = Scope(m) /\ codes.of = of
    BY <2>4 DEF CodesOf
  <2> QED
    BY <1>2, <2>4, <2>5, <2>6 DEF TrueContext
<1> QED
  BY <1>1, <1>3, <1>4

\* It writes what it made.
LEMMA ExportTrue == ASSUME CInv, Export PROVE CInv'
<1>1. /\ job.at = "export" /\ exports' = exports \union Exported
      /\ job' = NoJob /\ loaded' = {}
      /\ UNCHANGED <<world, drafts, registry, slipped, flickered>>
  BY DEF Export, Ends
<1>2. /\ \A f : TrueVector(f) => TrueVector(f)'
      /\ \A c : TrueContext(c) => TrueContext(c)'
      /\ \A b : TrueBank(b) => TrueBank(b)'
      /\ \A d : Voiced(d) => Voiced(d)'
  BY <1>1, StillTrue DEF CInv
<1>3. ExportsTrue'
  <2>1. SUFFICES ASSUME NEW e \in exports \union Exported
                 PROVE  /\ \A f \in e.speaker : TrueVector(f)
                        /\ \A c \in e.context : TrueContext(c)
                        /\ \A b \in e.pca : TrueBank(b)
    BY <1>1, <1>2 DEF ExportsTrue
  <2>2. CASE e \in exports
    BY <2>2 DEF CInv, ExportsTrue
  <2>3. CASE e \in Exported
    BY <1>1, <2>3, ExportedIsTrue
  <2> QED
    BY <2>1, <2>2, <2>3
<1>4. DraftsTrue'
  BY <1>1, <1>2 DEF CInv, DraftsTrue
<1>5. RegistryTrue'
  BY <1>1 DEF CInv, RegistryTrue, Reference
<1>6. JobTypes'
  BY <1>1, IdleTrue, NoJobIs DEF CInv, JobTypes, world
<1> QED
  BY <1>1, <1>3, <1>4, <1>5, <1>6, IdleTrue DEF CInv

\* The vectors that are fitted are of one scope, and the bank has it.
LEMMA FitTrue == ASSUME CInv, Fit PROVE CInv'
<1>1. /\ job' = NoJob /\ loaded' = {}
      /\ UNCHANGED <<world, drafts, registry, slipped, flickered>>
  BY DEF Fit, Ends
<1>2. PICK vector \in [Label -> Vectors] :
        LET vectors == {vector[n] : n \in Label}
            sources == {[name |-> n, values |-> vector[n].values] : n \in Label}
        IN  /\ OneSpace(vectors)
            /\ exports' = exports \union
                 {[speaker |-> {}, context |-> {},
                   pca |-> {Bank((CHOOSE v \in vectors : TRUE).scope, sources)}]}
  BY DEF Fit
<1> DEFINE vectors == {vector[n] : n \in Label}
           sources == {[name |-> n, values |-> vector[n].values] : n \in Label}
           bank == Bank((CHOOSE v \in vectors : TRUE).scope, sources)
<1>3. /\ \A f : TrueVector(f) => TrueVector(f)'
      /\ \A c : TrueContext(c) => TrueContext(c)'
      /\ \A b : TrueBank(b) => TrueBank(b)'
      /\ \A d : Voiced(d) => Voiced(d)'
  BY <1>1, StillTrue DEF CInv
<1>4. TrueBank(bank)
  <2>1. SUFFICES ASSUME NEW n \in Label
                 PROVE  IsValues(vector[n].values)
                        /\ (~slipped => vector[n].values.by = bank.scope)
    BY DEF TrueBank, Bank
  <2>2. vector[n] \in vectors /\ (CHOOSE v \in vectors : TRUE) \in vectors
    OBVIOUS
  <2>3. vector[n].scope = (CHOOSE v \in vectors : TRUE).scope
    BY <1>2, <2>2 DEF OneSpace
  <2>4. bank.scope = vector[n].scope
    BY <2>3 DEF Bank
  <2>5. TrueVector(vector[n])
    BY DEF CInv, ExportsTrue, Vectors
  <2> QED
    BY <2>4, <2>5 DEF TrueVector
<1>5. exports' = exports \union {[speaker |-> {}, context |-> {}, pca |-> {bank}]}
  BY <1>2
<1>6. ExportsTrue'
  <2> HIDE DEF bank
  <2> QED
    BY <1>3, <1>4, <1>5 DEF CInv, ExportsTrue
<1>7. DraftsTrue'
  BY <1>1, <1>3 DEF CInv, DraftsTrue
<1>8. RegistryTrue'
  BY <1>1 DEF CInv, RegistryTrue, Reference
<1>9. JobTypes'
  BY <1>1, IdleTrue, NoJobIs DEF CInv, JobTypes, world
<1> QED
  BY <1>1, <1>6, <1>7, <1>8, <1>9, IdleTrue DEF CInv

\* An edit stays in the space of its bank.
LEMMA EditedIsTrue ==
  ASSUME NEW bank, TrueBank(bank), NEW base \in Names(bank), NEW offset
  PROVE  TrueVector(Edited(bank, base, offset))
<1> DEFINE s == CHOOSE x \in bank.sources : x.name = base
           v == IF offset = 0 THEN s.values
                ELSE [s.values EXCEPT !.moved = {[bank |-> bank, by |-> offset]}]
<1>1. s \in bank.sources
  BY DEF Names
<1>2. IsValues(s.values) /\ (~slipped => s.values.by = bank.scope)
  BY <1>1 DEF TrueBank
<1> HIDE DEF s
<1>3. IsValues(v) /\ v.by = s.values.by
  BY <1>2 DEF IsValues
<1>4. /\ Edited(bank, base, offset).values = v
      /\ Edited(bank, base, offset).scope = bank.scope
  BY DEF Edited, Frozen, s
<1> HIDE DEF v
<1> QED
  BY <1>2, <1>3, <1>4 DEF TrueVector

\* Nothing but what the command has in its hands can be wrong where it begins.
LEMMA BeginTrue ==
  ASSUME CInv, NEW fields, Begin(fields),
         UNCHANGED <<world, files, slipped, flickered>>,
         job'.at \in {"load", "scope", "initialize"},
         job'.at = "load" => job'.input = {ReferenceInput(ORIGINAL)},
         job'.at \in {"scope", "initialize"} => \A i \in job'.input : i.kind # "reference",
         job'.at \in OnReference \/ job'.kind = "design" => job'.speaker = {},
         job'.at = "initialize" => job'.kind = "design",
         "changes" \notin DOMAIN fields,
         JobTrue'
  PROVE  CInv'
<1>1. job'.changes = 0 /\ loaded' = {} /\ DOMAIN job' = Fields
  BY BeginGives, NoJobIs DEF Fields
<1>2. ExportsTrue' /\ DraftsTrue' /\ RegistryTrue'
  BY FilesStayTrue
<1>3. JobTypes'
  BY <1>1 DEF CInv, JobTypes, world, OnReference, Frozenly
<1>4. SessionTrue'
  <2>1. {"values", "codes"} \subseteq DOMAIN ReferenceInput(ORIGINAL)
    BY DEF ReferenceInput, Input
  <2> QED
    BY <1>1, <2>1 DEF SessionTrue, InSession
<1>5. ScopeTrue'
  BY DEF ScopeTrue
<1> QED
  BY <1>2, <1>3, <1>4, <1>5 DEF CInv

\* A preview begins with a vector and a context that are what they say.
LEMMA PreviewTrue ==
  ASSUME CInv, NEW speaker, NEW context, NEW pca, NEW seed,
         Preview(speaker, context, pca, seed), slipped' = slipped, flickered' = flickered,
         TrueVector(speaker), \A c \in context : TrueContext(c)
  PROVE  CInv'
<1> DEFINE fields == [kind |-> "preview", at |-> "scope", seed |-> seed,
                      speaker |-> {speaker}, context |-> context, pca |-> pca,
                      input |-> {FrozenSession(speaker, context, seed)}]
<1>1. Begin(fields) /\ UNCHANGED <<world, files, slipped, flickered>>
  BY DEF Preview
<1>2. DOMAIN fields = {"kind", "at", "seed", "speaker", "context", "pca", "input"}
  OBVIOUS
<1>3. /\ job'.kind = "preview" /\ job'.at = "scope" /\ job'.seed = seed
      /\ job'.speaker = {speaker} /\ job'.context = context
      /\ job'.input = {FrozenSession(speaker, context, seed)}
  <2>1. \A f \in DOMAIN fields : job'[f] = fields[f]
    <3>1. DOMAIN fields \subseteq Fields
      BY <1>2 DEF Fields
    <3> QED
      BY <1>1, <3>1, BeginSets
  <2> QED
    BY <1>2, <2>1
<1>4. JobTrue'
  BY <1>1, <1>3, StillTrue DEF CInv, JobTrue, Frozenly
<1> HIDE DEF fields
<1> QED
  BY <1>1, <1>2, <1>3, <1>4, BeginTrue, FrozenIsNoReference DEF OnReference, InSession

\* A preview begins, of a bank's vector, of a file or of the prompt itself.
LEMMA BeginPreviewTrue == ASSUME CInv, BeginPreview PROVE CInv'
<1>1. PICK seed \in Seed, context \in {{}} \union {p.context : p \in Prompts} :
        \/ \E bank \in Banks, offset \in {0, 1} : \E base \in Names(bank) :
             Preview(Edited(bank, base, offset), context, {bank}, seed)
        \/ \E v \in Vectors : Preview(v, context, {}, seed)
        \/ \E p \in Prompts : \E v \in p.speaker :
             p.context = context /\ Preview(v, context, {}, seed)
  BY DEF BeginPreview
<1>2. \A c \in context : TrueContext(c)
  BY DEF CInv, ExportsTrue, Prompts
<1>3. UNCHANGED <<slipped, flickered>>
  BY <1>1 DEF Preview
<1>4. CASE \E bank \in Banks, offset \in {0, 1} : \E base \in Names(bank) :
             Preview(Edited(bank, base, offset), context, {bank}, seed)
  <2>1. PICK bank \in Banks, offset \in {0, 1} : \E base \in Names(bank) :
             Preview(Edited(bank, base, offset), context, {bank}, seed)
    BY <1>4
  <2>2. TrueBank(bank)
    BY DEF CInv, ExportsTrue, Banks
  <2>3. PICK base \in Names(bank) : Preview(Edited(bank, base, offset), context, {bank}, seed)
    BY <2>1
  <2> QED
    BY <1>2, <1>3, <2>2, <2>3, EditedIsTrue, PreviewTrue
<1>5. CASE \E v \in Vectors : Preview(v, context, {}, seed)
  <2>1. \A v \in Vectors : TrueVector(v)
    BY DEF CInv, ExportsTrue, Vectors
  <2> QED
    BY <1>2, <1>3, <1>5, <2>1, PreviewTrue
<1>6. CASE \E p \in Prompts : \E v \in p.speaker :
             p.context = context /\ Preview(v, context, {}, seed)
  <2>1. \A p \in Prompts : \A v \in p.speaker : TrueVector(v)
    BY DEF CInv, ExportsTrue, Prompts
  <2> QED
    BY <1>2, <1>3, <1>6, <2>1, PreviewTrue
<1> QED
  BY <1>1, <1>4, <1>5, <1>6

\* A described candidate begins, which has no frozen voice.
LEMMA BeginDesignTrue == ASSUME CInv, BeginDesign PROVE CInv'
<1> DEFINE fields == [kind |-> "design", at |-> "initialize",
                      input |-> {DescriptionInput("a voice", NoSeed)}]
<1>1. Begin(fields) /\ UNCHANGED <<world, files, slipped, flickered>>
  BY DEF BeginDesign
<1>2. DOMAIN fields = {"kind", "at", "input"}
  OBVIOUS
<1>3. /\ job'.kind = "design" /\ job'.at = "initialize"
      /\ job'.input = {DescriptionInput("a voice", NoSeed)}
      /\ job'.speaker = {} /\ job'.context = {} /\ job'.from = {}
  <2>1. \A f \in DOMAIN fields : job'[f] = fields[f]
    <3>1. DOMAIN fields \subseteq Fields
      BY <1>2 DEF Fields
    <3> QED
      BY <1>1, <3>1, BeginSets
  <2>2. job'.speaker = {} /\ job'.context = {} /\ job'.from = {}
    BY <1>1, <1>2, BeginGives, NoJobIs DEF Fields
  <2> QED
    BY <1>2, <2>1, <2>2
<1>4. JobTrue'
  BY <1>3 DEF JobTrue
<1>5. DescriptionInput("a voice", NoSeed).kind # "reference"
  BY DEF DescriptionInput, Input
<1> HIDE DEF fields
<1> QED
  BY <1>1, <1>2, <1>3, <1>4, <1>5, BeginTrue

\* It compares the vector's scope with the model's.
LEMMA CheckScopeTrue == ASSUME CInv, CheckScope PROVE CInv'
<1>1. /\ job.at = "scope" /\ job' = [job EXCEPT !.at = "initialize"]
      /\ \A f \in job.speaker : f.scope = Scope(artifact)
      /\ UNCHANGED <<world, files, loaded, slipped, flickered>>
  BY DEF CheckScope, Goes, InScope
<1>2. DOMAIN job = Fields
  BY DEF CInv, JobTypes
<1>3. /\ DOMAIN job' = Fields /\ job'.at = "initialize"
      /\ job'.kind = job.kind /\ job'.input = job.input /\ job'.speaker = job.speaker
      /\ job'.context = job.context /\ job'.seed = job.seed /\ job'.from = job.from
      /\ job'.changes = job.changes
  BY <1>1, <1>2 DEF Fields
<1>4. ExportsTrue' /\ DraftsTrue' /\ RegistryTrue'
  BY <1>1, FilesStayTrue
<1>5. JobTypes'
  BY <1>1, <1>3 DEF CInv, JobTypes, world, Frozenly
<1>6. SessionTrue'
  BY <1>1, <1>3 DEF CInv, SessionTrue, InSession
<1>7. ScopeTrue'
  BY <1>1, <1>3 DEF CInv, ScopeTrue, OnReference, InSession, world
<1>8. JobTrue'
  BY <1>1, <1>3, StillTrue DEF CInv, JobTrue, Frozenly, files
<1> QED
  BY <1>4, <1>5, <1>6, <1>7, <1>8 DEF CInv

\* What a preview leaves was said by a model of the scope of its vector.
LEMMA RenderTrue == ASSUME CInv, Render PROVE CInv'
<1>1. /\ job.at = "speak" /\ job.kind = "preview" /\ job' = NoJob /\ loaded' = {}
      /\ UNCHANGED <<world, exports, registry, slipped, flickered>>
  BY DEF Render, Ends
<1>2. PICK wave \in Heard, speaker \in job.speaker :
        drafts' = drafts \union
          {[bundle |-> Bundle(speaker, job.context, job.pca, job.seed, wave), wave |-> wave]}
  BY DEF Render
<1>3. PICK i \in job.input, m \in loaded : wave = [input |-> i, by |-> m]
  BY DEF Heard
<1> DEFINE b == Bundle(speaker, job.context, job.pca, job.seed, wave)
           new == [bundle |-> b, wave |-> wave]
<1>4. /\ \A f : TrueVector(f) => TrueVector(f)'
      /\ \A c : TrueContext(c) => TrueContext(c)'
      /\ \A x : TrueBank(x) => TrueBank(x)'
      /\ \A d : Voiced(d) => Voiced(d)'
  BY <1>1, StillTrue DEF CInv
<1>5. /\ new.bundle.conditioning = speaker /\ new.bundle.icl_context = job.context
      /\ new.bundle.seed = job.seed /\ new.wave = wave
  BY DEF Bundle
<1> HIDE DEF b, new
<1>6. Voiced(new)
  <2>1. wave.input = FrozenSession(speaker, job.context, job.seed)
    BY <1>1, <1>3 DEF CInv, JobTrue
  <2>2. wave.by = m /\ m \in Artifact
    BY <1>3 DEF CInv, JobTypes
  <2>3. ~slipped => speaker.scope = Scope(m)
    BY <1>1, <1>2, <1>3 DEF CInv, ScopeTrue
  <2> QED
    BY <1>5, <2>1, <2>2, <2>3 DEF Voiced
<1>7. drafts' = drafts \union {new}
  BY <1>2 DEF b, new
<1>8. DraftsTrue'
  BY <1>4, <1>5, <1>6, <1>7 DEF CInv, DraftsTrue, JobTrue
<1>9. ExportsTrue'
  BY <1>1, <1>4 DEF CInv, ExportsTrue
<1>10. RegistryTrue'
  <2>1. Seq(Reference) \subseteq Seq(Reference')
    <3>1. Reference \subseteq Reference'
      BY <1>7 DEF Reference
    <3> QED
      BY <3>1
  <2> QED
    BY <1>1, <2>1 DEF CInv, RegistryTrue
<1>11. JobTypes'
  BY <1>1, IdleTrue, NoJobIs DEF CInv, JobTypes, world
<1> QED
  BY <1>1, <1>8, <1>9, <1>10, <1>11, IdleTrue DEF CInv

\* A draft becomes a voice.
LEMMA SaveTrue == ASSUME CInv, Save PROVE CInv'
<1>1. /\ job' = NoJob /\ loaded' = {}
      /\ UNCHANGED <<world, exports, drafts, slipped, flickered>>
  BY DEF Save, Ends
<1>2. PICK draft \in drafts, voice \in Voices \union {Len(registry) + 1} :
        \/ registry' = registry
        \/ registry' = Append(registry, [voice |-> voice, default |-> Of(voice) = {},
                                         saved |-> {draft}])
  BY DEF Save
<1>3. /\ \A f : TrueVector(f) => TrueVector(f)'
      /\ \A c : TrueContext(c) => TrueContext(c)'
      /\ \A x : TrueBank(x) => TrueBank(x)'
      /\ \A d : Voiced(d) => Voiced(d)'
  BY <1>1, StillTrue DEF CInv
<1>4. ExportsTrue' /\ DraftsTrue'
  BY <1>1, <1>3 DEF CInv, ExportsTrue, DraftsTrue
<1>5. registry \in Seq(Reference) /\ Reference' = Reference
  BY <1>1 DEF CInv, RegistryTrue, Reference
<1>6. voice \in Nat
  <2>1. \A r \in DOMAIN registry : registry[r].voice \in Nat
    <3>1. \A r \in DOMAIN registry : registry[r] \in Reference
      BY <1>5
    <3> QED
      BY <3>1 DEF Reference
  <2> QED
    BY <1>5, <2>1 DEF Voices
<1>7. [voice |-> voice, default |-> Of(voice) = {}, saved |-> {draft}] \in Reference
  BY <1>6 DEF Reference
<1>8. RegistryTrue'
  BY <1>2, <1>5, <1>7, AppendProperties DEF RegistryTrue
<1>9. JobTypes'
  BY <1>1, IdleTrue, NoJobIs DEF CInv, JobTypes, world
<1> QED
  BY <1>1, <1>4, <1>8, <1>9, IdleTrue DEF CInv

\* The voice that is named is one that was saved, and it is given as it is.
LEMMA SayFrozenTrue ==
  ASSUME CInv, NEW r \in DOMAIN registry, NEW draft \in registry[r].saved, NEW override,
         SayFrozen(registry[r], draft, override),
         UNCHANGED <<world, files, slipped, flickered>>
  PROVE  CInv'
<1> DEFINE b == draft.bundle
           seed == IF override # NoSeed THEN override ELSE b.seed
           fields == [kind |-> "say", at |-> "scope", seed |-> override,
                      from |-> {registry[r]}, speaker |-> {b.conditioning},
                      context |-> b.icl_context,
                      input |-> {FrozenSession(b.conditioning, b.icl_context, seed)}]
<1>1. Begin(fields)
  BY DEF SayFrozen, ContextOf
<1>2. DOMAIN fields = {"kind", "at", "seed", "from", "speaker", "context", "input"}
  OBVIOUS
<1>3. /\ job'.kind = "say" /\ job'.at = "scope" /\ job'.seed = override
      /\ job'.from = {registry[r]} /\ job'.speaker = {b.conditioning}
      /\ job'.context = b.icl_context
      /\ job'.input = {FrozenSession(b.conditioning, b.icl_context, seed)}
  <2>1. \A f \in DOMAIN fields : job'[f] = fields[f]
    <3>1. DOMAIN fields \subseteq Fields
      BY <1>2 DEF Fields
    <3> QED
      BY <1>1, <3>1, BeginSets
  <2> QED
    BY <1>2, <2>1
<1>4. draft \in drafts /\ \A d \in registry[r].saved : d = draft
  <2>1. registry[r] \in Reference
    BY DEF CInv, RegistryTrue
  <2>2. registry[r].saved \in {{}} \union {{d} : d \in drafts}
    BY <2>1 DEF Reference
  <2> QED
    BY <2>2
<1>5. drafts' = drafts
  BY DEF files
<1>6. TrueVector(b.conditioning)' /\ \A c \in b.icl_context : TrueContext(c)'
  BY <1>4, StillTrue DEF CInv, DraftsTrue
<1>7. JobTrue'
  BY <1>3, <1>4, <1>5, <1>6 DEF JobTrue, Frozenly
<1>8. \A i \in job'.input : i.kind # "reference"
  BY <1>3, FrozenIsNoReference
<1> HIDE DEF fields
<1> QED
  BY <1>1, <1>2, <1>3, <1>7, <1>8, BeginTrue DEF OnReference, InSession

\* A voice of the registry is spoken with.
LEMMA BeginSayTrue == ASSUME CInv, BeginSay PROVE CInv'
<1>1. UNCHANGED <<world, files, slipped, flickered>>
  BY DEF BeginSay
<1>2. PICK voice \in Voices, named \in 0..Len(registry), override \in Seed :
        \E r \in Selected(voice, named) :
          IF registry[r].saved = {}
          THEN Begin([kind |-> "say", at |-> "load", from |-> {registry[r]},
                      input |-> {ReferenceInput(ORIGINAL)}])
          ELSE \E draft \in registry[r].saved : SayFrozen(registry[r], draft, override)
  BY DEF BeginSay
<1>3. PICK r \in Selected(voice, named) :
        \/ /\ registry[r].saved = {}
           /\ Begin([kind |-> "say", at |-> "load", from |-> {registry[r]},
                     input |-> {ReferenceInput(ORIGINAL)}])
        \/ \E draft \in registry[r].saved : SayFrozen(registry[r], draft, override)
  BY <1>2
<1>4. r \in DOMAIN registry
  BY DEF Selected, Of
<1>5. CASE \E draft \in registry[r].saved : SayFrozen(registry[r], draft, override)
  BY <1>1, <1>4, <1>5, SayFrozenTrue
<1>6. CASE /\ registry[r].saved = {}
           /\ Begin([kind |-> "say", at |-> "load", from |-> {registry[r]},
                     input |-> {ReferenceInput(ORIGINAL)}])
  <2> DEFINE fields == [kind |-> "say", at |-> "load", from |-> {registry[r]},
                        input |-> {ReferenceInput(ORIGINAL)}]
  <2>1. DOMAIN fields = {"kind", "at", "from", "input"}
    OBVIOUS
  <2>2. /\ job'.kind = "say" /\ job'.at = "load" /\ job'.from = {registry[r]}
        /\ job'.input = {ReferenceInput(ORIGINAL)}
        /\ job'.speaker = {} /\ job'.context = {}
    <3>1. \A f \in DOMAIN fields : job'[f] = fields[f]
      <4>1. DOMAIN fields \subseteq Fields
        BY <2>1 DEF Fields
      <4> QED
        BY <1>6, <4>1, BeginSets
    <3>2. job'.speaker = {} /\ job'.context = {}
      BY <1>6, <2>1, BeginGives, NoJobIs DEF Fields
    <3> QED
      BY <2>1, <3>1, <3>2
  <2>3. JobTrue'
    BY <1>6, <2>2 DEF JobTrue
  <2> HIDE DEF fields
  <2> QED
    BY <1>1, <1>6, <2>1, <2>2, <2>3, BeginTrue DEF fields
<1> QED
  BY <1>3, <1>5, <1>6

\* Where a command does not notice that the model is another one, it is on record.
LEMMA ReplaceModelTrue == ASSUME CInv, ReplaceModel PROVE CInv'
<1>1. /\ LooksAtModel /\ artifact' \in Artifact /\ slipped' = (slipped \/ Unwatched)
      /\ UNCHANGED <<recording, files, memory, flickered>>
  BY DEF ReplaceModel
<1>2. job' = job /\ loaded' = loaded /\ drafts' = drafts
  BY <1>1 DEF memory, files
<1>3. (slipped => slipped') /\ slipped' \in BOOLEAN /\ (~slipped' => ~slipped /\ ~Unwatched)
  BY <1>1
<1>4. ExportsTrue' /\ DraftsTrue' /\ RegistryTrue'
  BY <1>1, <1>3, FilesStayTrue
<1>5. JobTypes'
  BY <1>1, <1>2, <1>3 DEF CInv, JobTypes
<1>6. SessionTrue'
  BY <1>1, <1>2, <1>3 DEF CInv, SessionTrue, SameRecording, InSession, LooksAtModel, Unwatched
<1>7. ScopeTrue'
  BY <1>1, <1>2, <1>3 DEF CInv, ScopeTrue, OnReference, InSession, LooksAtModel, Unwatched
<1>8. JobTrue'
  BY <1>1, <1>2, <1>3, StillTrue DEF CInv, JobTrue
<1> QED
  BY <1>4, <1>5, <1>6, <1>7, <1>8 DEF CInv

\* A recording that is replaced once is another; twice, and it is on record.
LEMMA ReplaceRecordingTrue == ASSUME CInv, ReplaceRecording PROVE CInv'
<1>1. /\ LooksAtRecording /\ recording' \in Recording \ {recording}
      /\ UNCHANGED <<artifact, files, loaded, slipped>>
      /\ \/ job.at = "hash" /\ UNCHANGED <<job, flickered>>
         \/ /\ job.at # "hash" /\ job' = [job EXCEPT !.changes = @ + 1]
            /\ flickered' = (flickered \/ job.changes > 0)
  BY DEF ReplaceRecording
<1>2. DOMAIN job = Fields /\ job.changes \in Nat
  BY DEF CInv, JobTypes
<1>3. /\ DOMAIN job' = Fields /\ job'.at = job.at /\ job'.hash = job.hash
      /\ job'.kind = job.kind /\ job'.input = job.input /\ job'.speaker = job.speaker
      /\ job'.context = job.context /\ job'.seed = job.seed /\ job'.from = job.from
      /\ job.at = "hash" => job'.changes = job.changes
      /\ job.at # "hash" => job'.changes = job.changes + 1
  BY <1>1, <1>2 DEF Fields
<1>4. /\ flickered => flickered' /\ flickered' \in BOOLEAN
      /\ job.at # "hash" /\ ~flickered' => ~flickered /\ job.changes = 0
  <2>1. flickered \in BOOLEAN
    BY DEF CInv, JobTypes
  <2> DEFINE again == job.changes > 0
  <2>2. ~again => job.changes = 0
    BY <1>2
  <2>3. again \in BOOLEAN
    OBVIOUS
  <2>4. job.at # "hash" => flickered' = (flickered \/ again)
    BY <1>1
  <2>5. job.at = "hash" => flickered' = flickered
    BY <1>1
  <2> HIDE DEF again
  <2> QED
    BY <2>1, <2>2, <2>3, <2>4, <2>5
<1>5. ExportsTrue' /\ DraftsTrue' /\ RegistryTrue'
  BY <1>1, <1>4, FilesStayTrue
<1>6. JobTypes'
  <2>1. flickered' \in BOOLEAN /\ slipped' \in BOOLEAN
    BY <1>1, <1>4 DEF CInv, JobTypes
  <2>2. job'.changes \in Nat
    BY <1>2, <1>3
  <2> QED
    BY <1>1, <1>3, <2>1, <2>2 DEF CInv, JobTypes
<1>7. SessionTrue'
  BY <1>1, <1>2, <1>3, <1>4
     DEF CInv, SessionTrue, SameRecording, InSession, LooksAtRecording
<1>8. ScopeTrue'
  BY <1>1, <1>3 DEF CInv, ScopeTrue
<1>9. JobTrue'
  BY <1>1, <1>3, <1>4, StillTrue DEF CInv, JobTrue, files
<1> QED
  BY <1>5, <1>6, <1>7, <1>8, <1>9 DEF CInv

\* A step that changes nothing.
LEMMA StutterTrue == ASSUME CInv, UNCHANGED ivars PROVE CInv'
BY DEF CInv, JobTypes, ExportsTrue, DraftsTrue, RegistryTrue, SessionTrue, ScopeTrue, JobTrue,
       Reference, Voiced, TrueVector, TrueContext, TrueBank, SameRecording,
       ivars, world, files, memory

\* Every step keeps the invariant.
LEMMA FrozenNext == CInv /\ [INext]_ivars => CInv'
BY BeginExtractTrue, InitializeTrue, HashRecordingTrue, EncodeTrue, RehashTrue, ExportTrue,
   FitTrue, BeginPreviewTrue, CheckScopeTrue, RenderTrue, BeginDesignTrue, SaveTrue,
   BeginSayTrue, GiveUpTrue, ReplaceModelTrue, ReplaceRecordingTrue, StutterTrue DEF INext

\* Every vector and every context names the model it was made with, its words and
\* its recording, in every file and after every edit, whatever is replaced when.
THEOREM CustodyIsKept == InstrumentSpec => []CustodyIsTrue
<1>1. CInv => CustodyIsTrue
  <2> SUFFICES ASSUME CInv PROVE CustodyIsTrue
    OBVIOUS
  <2>1. \A f \in Frozens : TrueVector(f)
    BY DEF CInv, ExportsTrue, DraftsTrue, Frozens
  <2>2. \A c \in Contexts : TrueContext(c)
    BY DEF CInv, ExportsTrue, DraftsTrue, Contexts
  <2>3. \A b \in Banks : TrueBank(b)
    BY DEF CInv, ExportsTrue, Banks
  <2> QED
    BY <2>1, <2>2, <2>3 DEF CustodyIsTrue, TrueVector, TrueContext, TrueBank
<1> QED
  BY <1>1, FrozenInit, FrozenNext, PTL DEF InstrumentSpec

\* Of two sessions for one frozen voice only the seed may differ.
LEMMA OnlySeedDiffers ==
  ASSUME NEW f, NEW c, NEW s, NEW t
  PROVE  /\ [FrozenSession(f, c, s) EXCEPT !.seed = t] = FrozenSession(f, c, t)
         /\ FrozenSession(f, c, s).seed = s
<1>1. CASE c = {}
  BY <1>1 DEF FrozenSession, FrozenInput, Input
<1>2. CASE c # {}
  <2> DEFINE x == CHOOSE x \in c : TRUE
  <2>1. FrozenSession(f, c, s) = IclInput(f, x, s) /\ FrozenSession(f, c, t) = IclInput(f, x, t)
    BY <1>2 DEF FrozenSession
  <2> HIDE DEF x
  <2> QED
    <3>1. IclInput(f, x, s).seed = s
      BY DEF IclInput, Input
    <3>2. [IclInput(f, x, s) EXCEPT !.seed = t] = IclInput(f, x, t)
      BY DEF IclInput, Input
    <3> QED
      BY <2>1, <3>1, <3>2
<1> QED
  BY <1>1, <1>2

\* "Exact frozen drafts": what speaks is what was auditioned, by the very model.
THEOREM VoiceStaysAudition == InstrumentSpec => []VoiceIsAudition
<1>1. CInv => VoiceIsAudition
  <2> SUFFICES ASSUME CInv, job.at = "speak", job.kind = "say",
                      NEW heard \in Heard, NEW r \in job.from, NEW draft \in r.saved
               PROVE  LET then == draft.wave.input
                          now == heard.input
                      IN  /\ [now EXCEPT !.seed = then.seed] = then
                          /\ now.seed = IF job.seed = NoSeed THEN then.seed ELSE job.seed
                          /\ heard.by # draft.wave.by => slipped
    BY DEF VoiceIsAudition
  <2> DEFINE b == draft.bundle
             seed == IF job.seed # NoSeed THEN job.seed ELSE b.seed
  <2>1. /\ draft \in drafts /\ job.speaker = {b.conditioning}
        /\ job.input = {FrozenSession(b.conditioning, b.icl_context, seed)}
    BY DEF CInv, JobTrue
  <2>2. Voiced(draft)
    BY <2>1 DEF CInv, DraftsTrue
  <2>3. PICK i \in job.input, m \in loaded : heard = [input |-> i, by |-> m]
    BY DEF Heard
  <2>4. heard.input = FrozenSession(b.conditioning, b.icl_context, seed) /\ heard.by = m
    BY <2>1, <2>3
  <2>5. draft.wave.input = FrozenSession(b.conditioning, b.icl_context, b.seed)
    BY <2>2 DEF Voiced
  <2>6. ~slipped => heard.by = draft.wave.by
    <3>1. ~slipped => Scope(m) = b.conditioning.scope /\ Scope(draft.wave.by) = Scope(m)
      BY <2>1, <2>2, <2>3 DEF CInv, ScopeTrue, Voiced
    <3>2. m \in Artifact /\ draft.wave.by \in Artifact
      BY <2>2, <2>3 DEF CInv, JobTypes, Voiced
    <3> QED
      BY <2>4, <3>1, <3>2, InstrumentAssumption
  <2> QED
    BY <2>4, <2>5, <2>6, OnlySeedDiffers
<1> QED
  BY <1>1, FrozenInit, FrozenNext, PTL DEF InstrumentSpec
-----------------------------------------------------------------------------
(* The voice library, for any number of users and commands: a recording    *)
(* and its words are of one add, if no commands overlapped and every       *)
(* replacing add ended.                                                    *)

\* Where a user's command is, and what is remembered of it.
Place == {"idle", "make", "open", "write", "clear", "text", "audio", "said"}
CommandState == [at : Place, force : BOOLEAN, mine : Nat, file : 1..3, text : Nat, audio : Nat]

\* Every variable has its type, and only a directory has files.
LTypeOK ==
  /\ directory \in BOOLEAN /\ exposed \in BOOLEAN
  /\ content \in [File -> Nat]
  /\ begun \in 0..MaxStarted
  /\ step \in [User -> CommandState]
  /\ \A f \in File : content[f] # Absent => directory

Real(n) == n \notin {Absent, Empty}

\* The two files that are read together come from one add, if both are complete.
Consistent == Real(content["wav"]) /\ Real(content["txt"]) => content["wav"] = content["txt"]

Filling(u) == step[u].at \in {"open", "write"}

\* A user who writes is alone.
Alone == \A u, v \in User : Writing(u) /\ Busy(v) => u = v

\* An add that replaces nothing finds nothing; while it fills the directory the
\* files are its own, and a replacing one's are up to where it is.
OwnFiles(u) ==
  /\ step[u].at = "make" => step[u].file = 1
  /\ step[u].at = "make" /\ ~step[u].force => \A f \in File : content[f] = Absent
  /\ Filling(u) /\ ~step[u].force =>
       \A f \in File : content[f] \in {Absent, Empty, step[u].mine}
  /\ Filling(u) /\ step[u].file # 1 => content["wav"] \in {Absent, step[u].mine}
  /\ Filling(u) /\ step[u].file = 3 => content["txt"] \in {Absent, step[u].mine}

\* What a say has read is still there, and belongs together.
Reading(u) ==
  /\ step[u].at = "audio" => step[u].text = content["txt"] /\ Real(step[u].text)
  /\ step[u].at = "said" => step[u].audio = step[u].text

Sheltered ==
  /\ Alone
  /\ (\A u \in User : ~Filling(u)) => Consistent
  /\ \A u \in User : OwnFiles(u) /\ Reading(u)

\* The inductive invariant.
LInv == LTypeOK /\ (~exposed => Sheltered)
-----------------------------------------------------------------------------
\* A single user moves at a time.
Moves(u, where) ==
  /\ step'[u].at = where
  /\ \A v \in User \ {u} : step'[v] = step[v]

Same(u) == step'[u].mine = step[u].mine /\ (step'[u].force <=> step[u].force)

\* A command that is not running is a command.
LEMMA QuietCommand == Quiet \in CommandState
  BY DEF Quiet, CommandState, Place

\* (For any kind of flag, which keeps Booleans away from the arithmetic.)
LEMMA Begins ==
  ASSUME NEW Flag, NEW flag \in Flag, NEW n \in Nat,
         NEW q \in [at : Place, force : Flag, mine : Nat, file : 1..3, text : Nat, audio : Nat]
  PROVE  [q EXCEPT !.at = "make", !.force = flag, !.mine = n]
           \in [at : Place, force : Flag, mine : Nat, file : 1..3, text : Nat, audio : Nat]
  BY DEF Place

\* A command goes to another place.
LEMMA ToMoves ==
  ASSUME LTypeOK, NEW u \in User, NEW where \in Place, To(u, where)
  PROVE  Moves(u, where) /\ Same(u) /\ step'[u].file = step[u].file
         /\ step' \in [User -> CommandState]
  BY DEF LTypeOK, To, Moves, Same, CommandState

\* A command ends.
LEMMA EndMoves ==
  ASSUME LTypeOK, NEW u \in User, End(u)
  PROVE  Moves(u, "idle") /\ step' \in [User -> CommandState]
<1>1. Quiet.at = "idle"
  BY DEF Quiet
<1> QED BY <1>1, QuietCommand DEF LTypeOK, End, Moves

\* The invariant of the voice library holds at the start.
LEMMA LInitInv == LInit => LInv
<1> SUFFICES ASSUME LInit PROVE LInv
  OBVIOUS
<1>1. LTypeOK
  <2>1. step \in [User -> CommandState]
    BY QuietCommand DEF LInit
  <2>2. begun \in 0..MaxStarted
    BY LibraryAssumption DEF LInit
  <2>3. content \in [File -> Nat] /\ \A f \in File : content[f] = Absent
    BY DEF LInit, Absent
  <2>4. directory \in BOOLEAN /\ exposed \in BOOLEAN
    BY Zenon DEF LInit
  <2> QED BY <2>1, <2>2, <2>3, <2>4, Zenon DEF LTypeOK
<1>2. Sheltered
  BY DEF LInit, Sheltered, Alone, OwnFiles, Reading, Consistent, Filling, Writing,
         Quiet, Real, Absent, File
<1> QED BY <1>1, <1>2 DEF LInv

\* Every step keeps the types.
LEMMA TypeStep == LTypeOK /\ [LNext]_lvars => LTypeOK'
<1> SUFFICES ASSUME LTypeOK, [LNext]_lvars PROVE LTypeOK'
  OBVIOUS
<1>0. /\ begun \in 0..MaxStarted /\ step \in [User -> CommandState]
      /\ content \in [File -> Nat] /\ MaxStarted \in Nat
  BY LibraryAssumption, Zenon DEF LTypeOK
<1>1. ASSUME NEW u \in User, NEW force \in BOOLEAN, Add(u, force) PROVE LTypeOK'
  <2>1. [Quiet EXCEPT !.at = "make", !.force = force, !.mine = begun + 1] \in CommandState
    <3>1. begun + 1 \in Nat
      BY <1>0
    <3> QED BY <3>1, QuietCommand, Begins, Zenon DEF CommandState
  <2>2. step' \in [User -> CommandState]
    BY <1>0, <1>1, <2>1 DEF Add
  <2>3. begun' \in 0..MaxStarted
    BY <1>0, <1>1 DEF Add
  <2>4. UNCHANGED <<directory, content>> /\ exposed' \in BOOLEAN
    BY <1>1, Zenon DEF Add, Beside, LTypeOK
  <2> QED BY <2>2, <2>3, <2>4, Zenon DEF LTypeOK
<1>2. ASSUME NEW u \in User, MakeDirectory(u) PROVE LTypeOK'
  <2>1. step' \in [User -> CommandState]
    BY <1>2, ToMoves DEF MakeDirectory, Place
  <2> QED BY <1>2, <2>1, Zenon DEF MakeDirectory, LTypeOK
<1>3. ASSUME NEW u \in User, OpenFile(u) PROVE LTypeOK'
  <2>1. step' \in [User -> CommandState]
    BY <1>3, ToMoves, EndMoves DEF OpenFile, Place
  <2>2. content' \in [File -> Nat]
    BY <1>0, <1>3 DEF OpenFile, Empty
  <2>3. \A f \in File : content'[f] # Absent => directory'
    BY <1>0, <1>3 DEF OpenFile, LTypeOK
  <2> QED BY <1>3, <2>1, <2>2, <2>3, Zenon DEF OpenFile, LTypeOK
<1>4. ASSUME NEW u \in User, WriteFile(u) PROVE LTypeOK'
  <2>1. step[u] \in CommandState
    BY <1>0
  <2>2. (IF step[u].file = 3 THEN Quiet
         ELSE [step[u] EXCEPT !.at = "open", !.file = @ + 1]) \in CommandState
    <3>1. CASE step[u].file = 3
      BY <3>1, QuietCommand
    <3>2. CASE step[u].file # 3
      <4>1. step[u].file + 1 \in 1..3
        BY <2>1, <3>2 DEF CommandState
      <4>2. [step[u] EXCEPT !.at = "open", !.file = step[u].file + 1] \in CommandState
        BY <2>1, <4>1 DEF CommandState, Place
      <4> QED BY <3>2, <4>2
    <3> QED BY <3>1, <3>2
  <2>3. step' \in [User -> CommandState]
    BY <1>0, <1>4, <2>2 DEF WriteFile
  <2>4. content' \in [File -> Nat] /\ step[u].mine \in Nat
    BY <1>0, <1>4, <2>1 DEF WriteFile, CommandState
  <2>5. \A f \in File : content'[f] # Absent => content[f] # Absent
    BY <1>0, <1>4 DEF WriteFile
  <2> QED BY <1>4, <2>3, <2>4, <2>5, Zenon DEF WriteFile, LTypeOK
<1>5. ASSUME NEW u \in User, Remove(u) PROVE LTypeOK'
  <2>1. step' \in [User -> CommandState]
    BY <1>5, ToMoves DEF Remove, Place
  <2>2. begun' \in 0..MaxStarted
    BY <1>0, <1>5 DEF Remove
  <2>3. UNCHANGED <<directory, content>> /\ exposed' \in BOOLEAN
    BY <1>5, Zenon DEF Remove, Beside, LTypeOK
  <2> QED BY <2>1, <2>2, <2>3, Zenon DEF LTypeOK
<1>6. ASSUME NEW u \in User, RemoveFile(u) PROVE LTypeOK'
  <2>1. /\ content' \in [File -> Nat]
        /\ \A f \in File : content'[f] # Absent => content[f] # Absent
    BY <1>0, <1>6 DEF RemoveFile, Absent
  <2> QED BY <1>6, <2>1, Zenon DEF RemoveFile, LTypeOK
<1>7. ASSUME NEW u \in User, RemoveDirectory(u) PROVE LTypeOK'
  <2>1. step' \in [User -> CommandState]
    BY <1>7, EndMoves DEF RemoveDirectory
  <2> QED BY <1>7, <2>1, Zenon DEF RemoveDirectory, LTypeOK
<1>8. ASSUME NEW u \in User, Look(u) PROVE LTypeOK'
  <2>1. step' \in [User -> CommandState]
    BY <1>8, ToMoves DEF Look, Place
  <2>2. begun' \in 0..MaxStarted
    BY <1>0, <1>8 DEF Look
  <2>3. UNCHANGED <<directory, content>> /\ exposed' \in BOOLEAN
    BY <1>8, Zenon DEF Look, BesideWriter, LTypeOK
  <2> QED BY <2>1, <2>2, <2>3, Zenon DEF LTypeOK
<1>9. ASSUME NEW u \in User, ReadText(u) PROVE LTypeOK'
  <2>1. step[u] \in CommandState /\ content["txt"] \in Nat
    BY <1>0 DEF File
  <2>2. [step[u] EXCEPT !.at = "audio", !.text = content["txt"]] \in CommandState
    BY <2>1 DEF CommandState, Place
  <2>3. CASE step' = [step EXCEPT ![u].at = "audio", ![u].text = content["txt"]]
    <3>1. step' = [step EXCEPT ![u] = [step[u] EXCEPT !.at = "audio", !.text = content["txt"]]]
      BY <1>0, <2>1, <2>3 DEF CommandState
    <3>2. step' \in [User -> CommandState]
      BY <1>0, <2>2, <3>1
    <3> QED BY <1>9, <3>2, Zenon DEF ReadText, LTypeOK
  <2>4. CASE End(u)
    <3>1. step' \in [User -> CommandState]
      BY <2>4, EndMoves
    <3> QED BY <1>9, <3>1, Zenon DEF ReadText, LTypeOK
  <2> QED BY <1>9, <2>3, <2>4 DEF ReadText
<1>10. ASSUME NEW u \in User, ReadAudio(u) PROVE LTypeOK'
  <2>1. step[u] \in CommandState /\ content["wav"] \in Nat
    BY <1>0 DEF File
  <2>2. [step[u] EXCEPT !.at = "said", !.audio = content["wav"]] \in CommandState
    BY <2>1 DEF CommandState, Place
  <2>3. CASE step' = [step EXCEPT ![u].at = "said", ![u].audio = content["wav"]]
    <3>1. step' = [step EXCEPT ![u] = [step[u] EXCEPT !.at = "said", !.audio = content["wav"]]]
      BY <1>0, <2>1, <2>3 DEF CommandState
    <3>2. step' \in [User -> CommandState]
      BY <1>0, <2>2, <3>1
    <3> QED BY <1>10, <3>2, Zenon DEF ReadAudio, LTypeOK
  <2>4. CASE End(u)
    <3>1. step' \in [User -> CommandState]
      BY <2>4, EndMoves
    <3> QED BY <1>10, <3>1, Zenon DEF ReadAudio, LTypeOK
  <2> QED BY <1>10, <2>3, <2>4 DEF ReadAudio
<1>11. ASSUME NEW u \in User, Spoken(u) PROVE LTypeOK'
  <2>1. step' \in [User -> CommandState]
    BY <1>11, EndMoves DEF Spoken
  <2> QED BY <1>11, <2>1, Zenon DEF Spoken, LTypeOK
<1>12. ASSUME NEW u \in User, Dies(u) PROVE LTypeOK'
  <2>1. step' \in [User -> CommandState] /\ UNCHANGED <<directory, content, begun>>
    BY <1>12, EndMoves DEF Dies
  <2>2. exposed' \in BOOLEAN
    BY <1>12, Zenon DEF Dies, LTypeOK
  <2> QED BY <2>1, <2>2, Zenon DEF LTypeOK
<1>13. CASE AtRest \/ UNCHANGED lvars
  BY <1>13, Zenon DEF AtRest, lvars, LTypeOK
<1> QED BY <1>1, <1>2, <1>3, <1>4, <1>5, <1>6, <1>7, <1>8, <1>9, <1>10, <1>11, <1>12,
           <1>13, Zenon DEF LNext
-----------------------------------------------------------------------------
(***************************************************************************)
(* What happens below commands that do not overlap.                        *)
(***************************************************************************)
\* A step of one user that leaves the files alone.
LEMMA Steady ==
  ASSUME Sheltered, NEW u \in User, content' = content,
         \A v \in User \ {u} : step'[v] = step[v],
         Writing(u)' => \A v \in User \ {u} : ~Busy(v),
         Busy(u)' => \A v \in User \ {u} : ~Writing(v),
         Filling(u) => Consistent, ~Filling(u)',
         OwnFiles(u)', Reading(u)'
  PROVE  Sheltered'
<1>1. Alone'
  <2> SUFFICES ASSUME NEW x \in User, NEW v \in User, Writing(x)', Busy(v)' PROVE x = v
    BY DEF Alone
  <2>1. CASE x # u /\ v # u
    BY <2>1 DEF Sheltered, Alone, Writing, Busy
  <2>2. CASE x = u
    BY <2>2 DEF Busy
  <2>3. CASE v = u /\ x # u
    BY <2>3 DEF Writing
  <2> QED BY <2>1, <2>2, <2>3
<1>2. ((\A x \in User : ~Filling(x)) => Consistent)'
  <2> SUFFICES ASSUME \A x \in User : ~Filling(x)' PROVE Consistent'
    OBVIOUS
  <2>1. \A x \in User \ {u} : ~Filling(x)
    BY DEF Filling
  <2>2. Consistent
    BY <2>1 DEF Sheltered
  <2> QED BY <2>2 DEF Consistent
<1>3. ASSUME NEW x \in User PROVE (OwnFiles(x) /\ Reading(x))'
  <2>1. CASE x = u
    BY <2>1
  <2>2. CASE x # u
    <3>1. step'[x] = step[x] /\ OwnFiles(x) /\ Reading(x)
      BY <2>2 DEF Sheltered
    <3> QED BY <3>1 DEF OwnFiles, Reading, Filling
  <2> QED BY <2>1, <2>2
<1> QED BY <1>1, <1>2, <1>3 DEF Sheltered

\* A step of a user beside whom nobody is busy.
LEMMA Lonely ==
  ASSUME NEW u \in User,
         \A v \in User \ {u} : step'[v] = step[v] /\ ~Busy(v),
         ~Filling(u)' => Consistent',
         OwnFiles(u)', Reading(u)'
  PROVE  Sheltered'
<1>1. \A v \in User \ {u} : ~Busy(v)' /\ ~Writing(v)' /\ ~Filling(v)'
  BY DEF Busy, Writing, Filling
<1>2. Alone'
  <2> SUFFICES ASSUME NEW x \in User, NEW v \in User, Writing(x)', Busy(v)' PROVE x = v
    BY DEF Alone
  <2> QED BY <1>1
<1>3. ((\A x \in User : ~Filling(x)) => Consistent)'
  OBVIOUS
<1>4. ASSUME NEW x \in User PROVE (OwnFiles(x) /\ Reading(x))'
  <2>1. CASE x = u
    BY <2>1
  <2>2. CASE x # u
    BY <1>1, <2>2 DEF OwnFiles, Reading, Filling, Busy
  <2> QED BY <2>1, <2>2
<1> QED BY <1>2, <1>3, <1>4 DEF Sheltered

\* Who is busy beside a user who writes: nobody.
LEMMA WriterIsAlone ==
  ASSUME Sheltered, NEW u \in User, Writing(u)
  PROVE  \A v \in User \ {u} : ~Busy(v)
  BY DEF Sheltered, Alone

\* While somebody reads nobody writes.
LEMMA NobodyWrites ==
  ASSUME Sheltered, NEW u \in User, Busy(u), ~Writing(u)
  PROVE  /\ \A v \in User : ~Writing(v)
         /\ Consistent
<1>1. \A v \in User : ~Writing(v)
  BY DEF Sheltered, Alone
<1>2. \A v \in User : ~Filling(v)
  BY <1>1 DEF Writing, Filling
<1> QED BY <1>1, <1>2 DEF Sheltered

\* While no add fills the directory, what it holds is consistent.
LEMMA Rest ==
  ASSUME Sheltered, \A v \in User : ~Filling(v)
  PROVE  Consistent
  BY DEF Sheltered

\* Every step of commands that do not overlap keeps the files consistent.
LEMMA NextShelter == LInv /\ [LNext]_lvars => (~exposed => Sheltered)'
<1> SUFFICES ASSUME LInv, [LNext]_lvars, ~exposed' PROVE Sheltered'
  OBVIOUS
<1>0. /\ step \in [User -> CommandState] /\ content \in [File -> Nat] /\ LTypeOK
      /\ "wav" \in File /\ "txt" \in File /\ "toml" \in File
  BY Zenon DEF LTypeOK, LInv, File
<1>1. ASSUME NEW u \in User, NEW force \in BOOLEAN, Add(u, force) PROVE Sheltered'
  <2>1. Sheltered /\ \A v \in User \ {u} : ~Busy(v)
    BY <1>1, Zenon DEF Add, Beside, LInv
  <2>2. /\ \A v \in User \ {u} : step'[v] = step[v]
        /\ step'[u].at = "make" /\ step'[u].file = 1 /\ content' = content
    BY <1>0, <1>1 DEF Add, Quiet
  <2>3. step'[u].force <=> force
    BY <1>0, <1>1 DEF Add, Quiet
  <2>4. ~force => \A f \in File : content[f] = Absent
    BY <1>1, Zenon DEF Add, Refused, LInv, LTypeOK
  <2>5. Consistent'
    <3>1. \A v \in User : ~Filling(v)
      BY <1>1, <2>1 DEF Add, Busy, Filling
    <3> QED BY <2>1, <2>2, <3>1, Rest DEF Consistent
  <2>6. OwnFiles(u)' /\ Reading(u)'
    BY <2>2, <2>3, <2>4 DEF OwnFiles, Reading, Filling
  <2> QED BY <2>1, <2>2, <2>5, <2>6, Lonely
<1>2. ASSUME NEW u \in User, MakeDirectory(u) PROVE Sheltered'
  <2>1. Sheltered /\ step[u].at = "make" /\ content' = content
    BY <1>2, Zenon DEF MakeDirectory, LInv
  <2>2. \A v \in User \ {u} : ~Busy(v)
    BY <2>1, WriterIsAlone DEF Writing
  <2>3. Moves(u, "open") /\ Same(u) /\ step'[u].file = step[u].file
    BY <1>0, <1>2, ToMoves DEF MakeDirectory, Place
  <2>4. OwnFiles(u)
    BY <2>1 DEF Sheltered
  <2>5. OwnFiles(u)' /\ Reading(u)' /\ Filling(u)'
    BY <2>1, <2>3, <2>4 DEF OwnFiles, Reading, Filling, Moves, Same
  <2> QED BY <2>2, <2>3, <2>5, Lonely DEF Moves
<1>3. ASSUME NEW u \in User, OpenFile(u) PROVE Sheltered'
  <2>1. Sheltered /\ step[u].at = "open"
    BY <1>3, Zenon DEF OpenFile, LInv
  <2>2. OwnFiles(u) /\ \A v \in User \ {u} : ~Busy(v)
    BY <2>1, WriterIsAlone DEF Writing, Sheltered
  <2>3. CASE directory
    <3>1. Moves(u, "write") /\ Same(u) /\ step'[u].file = step[u].file
      BY <1>0, <1>3, <2>3, ToMoves DEF OpenFile, Place
    <3>2. /\ content' = [content EXCEPT ![Target(u)] = Empty]
          /\ step[u].file \in 1..3
      BY <1>0, <1>3, <2>3 DEF OpenFile, CommandState
    <3>3. \A f \in File : content'[f] \in {content[f], Empty}
      BY <1>0, <3>2
    <3>4. step[u].file # 1 => content'["wav"] = content["wav"]
      BY <1>0, <3>2 DEF Target, Order
    <3>5. step[u].file = 3 => content'["txt"] = content["txt"]
      BY <1>0, <3>2 DEF Target, Order
    <3>6. OwnFiles(u)' /\ Reading(u)' /\ Filling(u)'
      BY <2>1, <2>2, <3>1, <3>3, <3>4, <3>5
      DEF OwnFiles, Reading, Filling, Moves, Same
    <3> QED BY <2>2, <3>1, <3>6, Lonely DEF Moves
  <2>4. CASE ~directory
    <3>1. Moves(u, "idle") /\ content' = content
      BY <1>0, <1>3, <2>4, EndMoves DEF OpenFile
    <3>2. \A f \in File : content'[f] = Absent
      BY <1>0, <2>4, <3>1, Zenon DEF LTypeOK
    <3>3. Consistent' /\ OwnFiles(u)' /\ Reading(u)'
      BY <1>0, <3>1, <3>2 DEF Consistent, Real, OwnFiles, Reading, Filling, Moves
    <3> QED BY <2>2, <3>1, <3>3, Lonely DEF Moves
  <2> QED BY <2>3, <2>4
<1>4. ASSUME NEW u \in User, WriteFile(u) PROVE Sheltered'
  <2>1. Sheltered /\ step[u].at = "write"
    BY <1>4, Zenon DEF WriteFile, LInv
  <2>2. OwnFiles(u) /\ \A v \in User \ {u} : ~Busy(v)
    BY <2>1, WriterIsAlone DEF Writing, Sheltered
  <2>3. /\ \A v \in User \ {u} : step'[v] = step[v]
        /\ step[u].file \in 1..3
    BY <1>0, <1>4 DEF WriteFile, CommandState
  <2>4. \A f \in File : content'[f] \in {content[f], step[u].mine}
    BY <1>0, <1>4 DEF WriteFile
  <2>5. /\ step[u].file = 1 => content'["wav"] \in {Absent, step[u].mine}
        /\ step[u].file # 1 => content'["wav"] = content["wav"]
    BY <1>0, <1>4, <2>3 DEF WriteFile, Target, Order
  <2>6. /\ step[u].file = 2 => content'["txt"] \in {Absent, step[u].mine}
        /\ step[u].file = 3 => content'["txt"] = content["txt"]
    BY <1>0, <1>4, <2>3 DEF WriteFile, Target, Order
  <2>7. CASE step[u].file = 3
    <3>1. step'[u].at = "idle"
      BY <1>0, <1>4, <2>7 DEF WriteFile, Quiet
    <3>2. Consistent'
      BY <2>1, <2>2, <2>5, <2>6, <2>7 DEF OwnFiles, Filling, Consistent, Real
    <3> QED BY <2>2, <2>3, <3>1, <3>2, Lonely DEF OwnFiles, Reading, Filling
  <2>8. CASE step[u].file # 3
    <3>1. /\ step'[u].at = "open" /\ step'[u].file = step[u].file + 1 /\ Same(u)
      BY <1>0, <1>4, <2>8 DEF WriteFile, Same, CommandState
    <3>2. OwnFiles(u)'
      <4>1. step[u].file \in {1, 2}
        BY <2>3, <2>8
      <4>2. /\ step'[u].file = 3 => step[u].file = 2
            /\ step[u].file = 2 => step[u].file # 1
        BY <3>1, <4>1
      <4>3. content'["wav"] \in {Absent, step[u].mine}
        BY <2>1, <2>2, <2>5 DEF OwnFiles, Filling
      <4> QED BY <2>1, <2>2, <2>4, <2>6, <3>1, <4>2, <4>3 DEF OwnFiles, Filling, Same
    <3> QED BY <2>2, <2>3, <3>1, <3>2, Lonely DEF Reading, Filling
  <2> QED BY <2>7, <2>8
<1>5. ASSUME NEW u \in User, Remove(u) PROVE Sheltered'
  <2>1. Sheltered /\ content' = content /\ \A v \in User \ {u} : ~Busy(v)
    BY <1>5, Zenon DEF Remove, Beside, LInv
  <2>2. Moves(u, "clear")
    BY <1>0, <1>5, ToMoves DEF Remove, Place
  <2>3. Consistent'
    <3>1. \A v \in User : ~Filling(v)
      BY <1>5, <2>1 DEF Remove, Busy, Filling
    <3> QED BY <2>1, <3>1, Rest DEF Consistent
  <2> QED BY <2>1, <2>2, <2>3, Lonely DEF Moves, OwnFiles, Reading, Filling
<1>6. ASSUME NEW u \in User, RemoveFile(u) PROVE Sheltered'
  <2>1. Sheltered /\ step[u].at = "clear" /\ step' = step
    BY <1>6, Zenon DEF RemoveFile, LInv
  <2>2. \A v \in User \ {u} : ~Busy(v)
    BY <2>1, WriterIsAlone DEF Writing
  <2>3. Consistent
    <3>1. \A v \in User : ~Filling(v)
      BY <2>1, <2>2 DEF Busy, Filling
    <3> QED BY <2>1, <3>1, Rest
  <2>4. \A f \in File : content'[f] \in {content[f], Absent}
    BY <1>0, <1>6 DEF RemoveFile
  <2>5. Consistent'
    BY <1>0, <2>3, <2>4 DEF Consistent, Real
  <2> QED BY <2>1, <2>2, <2>5, Lonely DEF OwnFiles, Reading, Filling
<1>7. ASSUME NEW u \in User, RemoveDirectory(u) PROVE Sheltered'
  <2>1. Sheltered /\ step[u].at = "clear" /\ content' = content
    BY <1>7, Zenon DEF RemoveDirectory, LInv
  <2>2. Moves(u, "idle")
    BY <1>0, <1>7, EndMoves DEF RemoveDirectory
  <2> QED BY <2>1, <2>2, Steady DEF Moves, OwnFiles, Reading, Filling, Writing, Busy
<1>8. ASSUME NEW u \in User, Look(u) PROVE Sheltered'
  <2>1. /\ Sheltered /\ content' = content /\ step[u].at = "idle"
        /\ \A v \in User \ {u} : ~Writing(v)
    BY <1>8, Zenon DEF Look, Busy, BesideWriter, LInv
  <2>2. Moves(u, "text")
    BY <1>0, <1>8, ToMoves DEF Look, Place
  <2> QED BY <2>1, <2>2, Steady DEF Moves, OwnFiles, Reading, Filling, Writing
<1>9. ASSUME NEW u \in User, ReadText(u) PROVE Sheltered'
  <2>1. Sheltered /\ step[u].at = "text" /\ content' = content
    BY <1>9, Zenon DEF ReadText, LInv
  <2>2. /\ \A v \in User : ~Writing(v)
        /\ Consistent
    BY <2>1, NobodyWrites DEF Busy, Writing
  <2>3. CASE End(u)
    <3>1. Moves(u, "idle")
      BY <1>0, <2>3, EndMoves
    <3> QED BY <2>1, <2>2, <3>1, Steady DEF Moves, OwnFiles, Reading, Filling, Writing
  <2>4. CASE /\ Real(content["txt"])
             /\ step' = [step EXCEPT ![u].at = "audio", ![u].text = content["txt"]]
    <3>1. /\ Moves(u, "audio") /\ step'[u].text = content["txt"]
      BY <1>0, <2>4 DEF Moves, CommandState
    <3>2. Reading(u)'
      BY <2>1, <2>4, <3>1 DEF Moves, Reading
    <3> QED BY <2>1, <2>2, <3>1, <3>2, Steady DEF Moves, OwnFiles, Filling, Writing
  <2> QED BY <1>9, <2>3, <2>4 DEF ReadText, Real
<1>10. ASSUME NEW u \in User, ReadAudio(u) PROVE Sheltered'
  <2>1. Sheltered /\ step[u].at = "audio" /\ content' = content
    BY <1>10, Zenon DEF ReadAudio, LInv
  <2>2. /\ \A v \in User : ~Writing(v)
        /\ Consistent
    BY <2>1, NobodyWrites DEF Busy, Writing
  <2>3. CASE End(u)
    <3>1. Moves(u, "idle")
      BY <1>0, <2>3, EndMoves
    <3> QED BY <2>1, <2>2, <3>1, Steady DEF Moves, OwnFiles, Reading, Filling, Writing
  <2>4. CASE /\ Real(content["wav"])
             /\ step' = [step EXCEPT ![u].at = "said", ![u].audio = content["wav"]]
    <3>1. /\ Moves(u, "said") /\ step'[u].audio = content["wav"]
          /\ step'[u].text = step[u].text
      BY <1>0, <2>4 DEF Moves, CommandState
    <3>2. content["wav"] = content["txt"] /\ step[u].text = content["txt"]
      BY <2>1, <2>2, <2>4 DEF Sheltered, Reading, Consistent
    <3>3. Reading(u)'
      BY <3>1, <3>2 DEF Moves, Reading
    <3> QED BY <2>1, <2>2, <3>1, <3>3, Steady DEF Moves, OwnFiles, Filling, Writing
  <2> QED BY <1>10, <2>3, <2>4 DEF ReadAudio, Real
<1>11. ASSUME NEW u \in User, Spoken(u) PROVE Sheltered'
  <2>1. Sheltered /\ step[u].at = "said" /\ content' = content
    BY <1>11, Zenon DEF Spoken, LInv
  <2>2. Moves(u, "idle")
    BY <1>0, <1>11, EndMoves DEF Spoken
  <2> QED BY <2>1, <2>2, Steady DEF Moves, OwnFiles, Reading, Filling, Writing, Busy
<1>12. ASSUME NEW u \in User, Dies(u) PROVE Sheltered'
  <2>1. Sheltered /\ content' = content /\ ~step[u].force
    BY <1>12, Zenon DEF Dies, LInv
  <2>2. Moves(u, "idle")
    BY <1>0, <1>12, EndMoves DEF Dies
  <2>3. Filling(u) => Consistent
    <3> SUFFICES ASSUME Filling(u) PROVE Consistent
      OBVIOUS
    <3>1. OwnFiles(u)
      BY <2>1 DEF Sheltered
    <3>2. \A f \in File : content[f] \in {Absent, Empty, step[u].mine}
      BY <2>1, <3>1 DEF OwnFiles
    <3> QED BY <1>0, <3>2 DEF Consistent, Real
  <2> QED BY <2>1, <2>2, <2>3, Steady DEF Moves, OwnFiles, Reading, Filling, Writing, Busy
<1>13. CASE AtRest \/ UNCHANGED lvars
  <2>1. Sheltered /\ content' = content /\ step' = step
    BY <1>13, Zenon DEF AtRest, lvars, LInv
  <2> QED BY <2>1 DEF Sheltered, Alone, Writing, Busy, Filling, Consistent, OwnFiles, Reading
<1> QED BY <1>1, <1>2, <1>3, <1>4, <1>5, <1>6, <1>7, <1>8, <1>9, <1>10, <1>11, <1>12,
           <1>13, Zenon DEF LNext
-----------------------------------------------------------------------------
(***************************************************************************)
(* The results.                                                            *)
(***************************************************************************)
LEMMA LibraryInvariance == LibrarySpec => []LInv
<1>1. LInv /\ [LNext]_lvars => LInv'
  BY TypeStep, NextShelter DEF LInv
<1> QED BY LInitInv, <1>1, PTL DEF LibrarySpec

\* Whatever adds, removals and sayings begin, run beside each other or die: what
\* is cloned is a recording with its own transcript, unless commands overlapped or
\* an add that was to replace a voice did not end.
THEOREM PartsBelongTogether == LibrarySpec => []PairIsOne
<1>1. LInv => PairIsOne
  <2> SUFFICES ASSUME LInv, NEW u \in User, step[u].at = "said",
                      step[u].audio # step[u].text
               PROVE  exposed
    BY DEF PairIsOne
  <2>1. ~exposed => Reading(u)
    BY DEF LInv, Sheltered
  <2> QED BY <2>1 DEF Reading
<1> QED BY LibraryInvariance, <1>1, PTL
-----------------------------------------------------------------------------
(* What is loaded, for every configuration and build: exactly what was     *)
(* asked for, or nothing.                                                  *)

\* An engine is found among those of the build, and it is the one that was named.
LEMMA BackendIsOfBuild ==
  ASSUME NEW model, NEW requested \in Engine \union {"auto"}, NEW build \in SUBSET Engine,
         SelectBackend(model, requested, build) # "none"
  PROVE  /\ SelectBackend(model, requested, build) \in build
         /\ requested # "auto" => SelectBackend(model, requested, build) = requested
         /\ requested = "auto" /\ IsGguf(model) => SelectBackend(model, requested, build) = "ggml"
         /\ requested = "auto" /\ ~IsGguf(model) /\ "mlx" \in build =>
              SelectBackend(model, requested, build) = "mlx"
<1>1. CASE requested # "auto"
  BY <1>1 DEF SelectBackend
<1>2. CASE requested = "auto" /\ IsGguf(model)
  BY <1>2 DEF SelectBackend
<1>3. CASE requested = "auto" /\ ~IsGguf(model) /\ "mlx" \in build
  BY <1>3 DEF SelectBackend
<1>4. CASE requested = "auto" /\ ~IsGguf(model) /\ "mlx" \notin build
  BY <1>4 DEF SelectBackend
<1> QED
  BY <1>1, <1>2, <1>3, <1>4

\* A profile names its engine by the form of its model.
LEMMA ProfilesAreTold ==
  ASSUME NEW p \in profiles
  PROVE  /\ p.model \in Model
         /\ IsGguf(p.model) <=> p.backend = "ggml"
         /\ p.backend \in {"mlx", "ggml"}
<1>1. \/ p = Profile("clone", "mlx", "mlx base", "directory", "base")
      \/ p = Profile("clone", "ggml", "gguf", "gguf directory", "base")
      \/ p = Profile("design", "mlx", "mlx design", "directory", "voice_design")
      \/ p = Profile("design", "ggml", "gguf", "gguf file", "voice_design")
  BY DEF profiles
<1>2. CASE p = Profile("clone", "mlx", "mlx base", "directory", "base")
  BY <1>2 DEF Profile, IsGguf, Model, Form
<1>3. CASE p = Profile("clone", "ggml", "gguf", "gguf directory", "base")
  BY <1>3 DEF Profile, IsGguf, Model, Form
<1>4. CASE p = Profile("design", "mlx", "mlx design", "directory", "voice_design")
  BY <1>4 DEF Profile, IsGguf, Model, Form
<1>5. CASE p = Profile("design", "ggml", "gguf", "gguf file", "voice_design")
  BY <1>5 DEF Profile, IsGguf, Model, Form
<1> QED
  BY <1>1, <1>2, <1>3, <1>4, <1>5

\* What is resolved without a path is in the cache or may be fetched, and of a
\* pinned model it is one of that purpose for the engine that is wanted.
LEMMA ResolvedIsWanted ==
  ASSUME NEW config \in Config, NEW purpose \in Purpose, NEW build \in SUBSET Engine, NEW held,
         Explicit(config, purpose) = Unset,
         ResolveFor(config, purpose, build, held) # Failed
  PROVE  /\ config.backend # "tch"
         /\ config.cached \/ MayFetch(config)
         /\ IsCustom(config, purpose) =>
              config.cached /\ ResolveFor(config, purpose, build, held) = held
         /\ ~IsCustom(config, purpose) =>
              \E p \in profiles : /\ p.purpose = purpose /\ p.backend = Wanted(config, build)
                                  /\ p.backend = "mlx" => "mlx" \in build
                                  /\ ResolveFor(config, purpose, build, held) = p.model
<1>1. Explicit(config, purpose) # Missing /\ Explicit(config, purpose) \notin Model
  BY DEF Unset, Missing, Model, Form
<1>2. config.backend # "tch"
  BY <1>1 DEF ResolveFor
<1>3. CASE IsCustom(config, purpose)
  <2>1. ResolveFor(config, purpose, build, held) = Custom(config, held)
    BY <1>1, <1>2, <1>3 DEF ResolveFor
  <2> QED
    BY <1>2, <1>3, <2>1 DEF Custom
<1>4. CASE ~IsCustom(config, purpose)
  <2> DEFINE p == CHOOSE p \in Fitting(config, purpose, build) : TRUE
  <2>1. /\ Fitting(config, purpose, build) # {}
        /\ ResolveFor(config, purpose, build, held) = Acquired(p, config, build)
    BY <1>1, <1>2, <1>4 DEF ResolveFor
  <2>2. p \in Fitting(config, purpose, build)
    BY <2>1
  <2> HIDE DEF p
  <2> QED
    BY <1>2, <1>4, <2>1, <2>2 DEF Fitting, Acquired
<1> QED
  BY <1>3, <1>4

\* "no Base model or backend fallback", for every configuration and build.
LEMMA SubstitutesNothing ==
  ASSUME NEW config \in Config, NEW purpose \in Purpose, NEW build \in SUBSET Engine, NEW held
  PROVE  NothingSubstituted(config, purpose, build, held)
<1> DEFINE session == Session(config, purpose, build, held)
           given == Explicit(config, purpose)
           model == ResolveFor(config, purpose, build, held)
           engine == SelectBackend(model, config.backend, build)
           pinned == {p \in profiles : p.purpose = purpose /\ p.backend = engine}
<1> SUFFICES ASSUME session.loaded
             PROVE  /\ session.engine \in build
                    /\ config.backend # "auto" => session.engine = config.backend
                    /\ IF given # Unset THEN session.model = given
                       ELSE /\ config.cached \/ MayFetch(config)
                            /\ IsCustom(config, purpose) => session.model = held /\ config.cached
                            /\ ~IsCustom(config, purpose) =>
                                 session.model \in {p.model : p \in {q \in profiles :
                                    q.purpose = purpose /\ q.backend = session.engine}}
                    /\ purpose = "design" \/ session.engine = "ggml" =>
                         session.model.checkpoint = CheckpointFor(purpose)
  BY DEF NothingSubstituted
<1>1. /\ model # Failed /\ Loads(model, engine, purpose)
      /\ session.engine = engine /\ session.model = model
  BY DEF Session
<1>2. config.backend \in Engine \union {"auto"}
  BY DEF Config
<1> HIDE DEF session, model, engine
<1>3. engine # "none"
  BY <1>1 DEF Loads
<1>4. /\ engine \in build
      /\ config.backend # "auto" => engine = config.backend
      /\ config.backend = "auto" /\ IsGguf(model) => engine = "ggml"
      /\ config.backend = "auto" /\ ~IsGguf(model) /\ "mlx" \in build => engine = "mlx"
  BY <1>2, <1>3, BackendIsOfBuild DEF engine
<1>5. purpose = "design" \/ engine = "ggml" => model.checkpoint = CheckpointFor(purpose)
  BY <1>1 DEF Loads, CheckpointFor, Purpose
<1>6. CASE given # Unset
  <2>1. given \in Model \union {Unset, Missing}
    BY DEF Explicit, Config, Purpose
  <2>2. model = given
    BY <1>1, <1>6, <2>1 DEF model, ResolveFor
  <2> QED
    BY <1>1, <1>4, <1>5, <1>6, <2>2
<1>7. CASE given = Unset
  <2>1. /\ config.cached \/ MayFetch(config)
        /\ IsCustom(config, purpose) => config.cached /\ model = held
        /\ ~IsCustom(config, purpose) =>
              \E p \in profiles : /\ p.purpose = purpose /\ p.backend = Wanted(config, build)
                                  /\ p.backend = "mlx" => "mlx" \in build
                                  /\ model = p.model
    BY <1>1, <1>7, ResolvedIsWanted DEF model
  <2>2. ASSUME ~IsCustom(config, purpose)
        PROVE  \E p \in profiles : p.purpose = purpose /\ p.backend = engine /\ model = p.model
    <3>1. PICK p \in profiles : /\ p.purpose = purpose /\ p.backend = Wanted(config, build)
                                /\ p.backend = "mlx" => "mlx" \in build
                                /\ model = p.model
      BY <2>1, <2>2
    <3>2. (IsGguf(model) <=> p.backend = "ggml") /\ p.backend \in {"mlx", "ggml"}
      BY <3>1, ProfilesAreTold
    <3>3. p.backend = engine
      <4>1. CASE config.backend = "auto"
        BY <1>4, <3>1, <3>2, <4>1
      <4>2. CASE config.backend # "auto"
        BY <1>4, <3>1, <4>2 DEF Wanted
      <4> QED BY <4>1, <4>2
    <3> QED
      BY <3>1, <3>3
  <2> QED
    BY <1>1, <1>4, <1>5, <1>7, <2>1, <2>2
<1> QED
  BY <1>6, <1>7

\* What is loaded is what was asked for, for every configuration and build.
LEMMA SelectionIsExact == NoSubstitution
<1>1. \A engine \in Engine, named \in Device \ {"auto"}, cuda \in BOOLEAN :
        DeviceOf(engine, named, cuda) \in {named, "none"}
  BY DEF Engine, Device, DeviceOf
<1> QED
  BY <1>1, SubstitutesNothing DEF NoSubstitution
-----------------------------------------------------------------------------
(* The commands together: each of them is one of the above, and to what    *)
(* the others keep it does nothing.                                        *)

\* What a command asks of the engine is what the engine does for anybody.
LEMMA CommandStreams == [SNext]_allvars => [Next]_vars
<1> SUFFICES ASSUME [SNext]_allvars PROVE [Next]_vars
  OBVIOUS
<1>1. CASE Speak
  <2>1. CASE \E n \in 1..MaxBatch : \E chunk \in [1..n -> Frame] : Takes(chunk)
    <3>1. PICK n \in 1..MaxBatch, chunk \in UNION {[1..m -> Frame] : m \in 1..MaxBatch} :
            chunk \in [1..n -> Frame] /\ Takes(chunk)
      BY <2>1
    <3>2. Len(chunk) = n
      BY <3>1
    <3> QED
      BY <3>1, <3>2 DEF Takes, Next
  <2>2. CASE \E n \in 1..MaxBatch : CannotResample(n)
    BY <2>2 DEF CannotResample, Next
  <2>3. CASE EngineStep
    BY <2>3 DEF EngineStep, Next
  <2> QED
    BY <1>1, <2>1, <2>2, <2>3 DEF Speak
<1>2. CASE Reject
  BY <1>2 DEF Reject, Next, Again
<1>3. CASE Elsewhere
  BY <1>3 DEF Elsewhere
<1>4. CASE \/ Refuse \/ Start \/ Load \/ LoadFails \/ SpeechFails \/ Spoke \/ Drain \/ Open
           \/ Write \/ WriteFails \/ Verdict \/ Play \/ OtherCreates \/ Done
           \/ UNCHANGED allvars
  BY <1>4 DEF Refuse, Start, Load, LoadFails, SpeechFails, Spoke, Drain, Open, Write,
              WriteFails, Verdict, Play, OtherCreates, Done, allvars
<1> QED
  BY <1>1, <1>2, <1>3, <1>4 DEF SNext, CommandStep

\* A step of the command line is a step of each scene, or leaves it alone.
LEMMA ScenesAreApart ==
  [MCNext]_cvars => [SNext]_allvars /\ [INext]_ivars /\ [LNext]_lvars
BY DEF MCNext, cvars

\* The whole command line keeps what its parts promise: who is told of success has
\* the whole speech, no file is replaced behind its back, and a saved voice is the
\* voice that was auditioned.
THEOREM CommandLineIsSafe ==
  MCSpec => /\ [](SuccessIsWhole /\ SuccessIsTrue)
            /\ ImplementsEngine /\ NothingReplaced
            /\ [](CustodyIsTrue /\ VoiceIsAudition)
            /\ [](PairIsOne /\ LoadedAsAsked)
<1>1. MCInit => SInit /\ IInit /\ LInit
  BY DEF MCInit
<1>2. SInit => Init
  BY DEF SInit
<1>3. MCSpec => SaySpec /\ Spec /\ InstrumentSpec /\ LibrarySpec
  BY <1>1, <1>2, ScenesAreApart, CommandStreams, PTL
     DEF MCSpec, SaySpec, Spec, InstrumentSpec, LibrarySpec
<1>4. LoadedAsAsked
  BY SelectionIsExact DEF LoadedAsAsked
<1> QED
  BY <1>3, <1>4, GgmlSuccessIsWhole, SuccessHasEverything, GgmlImplementsEngine, ForeignFileStays,
     CustodyIsKept, VoiceStaysAudition, PartsBelongTogether, PTL
=============================================================================
