-------------------------------- MODULE Gate --------------------------------
(***************************************************************************)
(* What is cut out of an utterance and off its end                         *)
(* (crates/spqx-core/src/postprocess.rs): `gate_leading_nonspeech`, which  *)
(* silences clicks before the speech in the first chunk, and               *)
(* `trim_trailing_nonspeech`, which shortens a tail without speech.        *)
(*                                                                         *)
(* A chunk is the sequence of the peaks of its blocks of 5 ms, and a peak  *)
(* is one of four levels: 0 real silence, 1 above it (QUIET_LEVEL), 2      *)
(* speech (SPEECH_LEVEL), 3 loud enough for a click (CLICK_LEVEL).  The    *)
(* fade over the first 3 ms is left out.                                   *)
(***************************************************************************)
EXTENDS Naturals, Sequences, FiniteSetsExt

CONSTANTS MinLoud,    \* loud blocks that make sustained speech, 8 in the code
          Window,     \* blocks they are looked for in, 24 in the code
          MaxClick,   \* blocks of the longest click, 10 in the code
          MaxBlocks   \* bound: blocks of the first chunk

ASSUME GateAssumption == /\ MinLoud \in Nat \ {0} /\ Window \in Nat \ {0}
                         /\ MaxClick \in Nat /\ MaxBlocks \in Nat

SPEECH == 2..3
SOUND == 1..3
CLICK == {3}
Loud(p, i) == p[i] \in SPEECH
Sounds(p, i) == p[i] \in SOUND
Click(p, i) == p[i] \in CLICK
Lowest(a, b) == IF a <= b THEN a ELSE b

\* The first block from i on that is not one of levels, or one past the last.
FirstNot(levels, p, i) ==
  Min({j \in i..Len(p) : p[j] \notin levels} \cup {Len(p) + 1})
\* The first block of those up to i, from which on all before i are.
Back(levels, p, i) ==
  Min({j \in 1..i : \A k \in j..(i - 1) : p[k] \in levels})

\* Enough of the blocks in the window are loud, or the chunk ends too early to tell.
Sustained(p, i) ==
  LET end == Lowest(i + Window, Len(p) + 1)
  IN  \/ end - i < MinLoud
      \/ Cardinality({j \in i..(end - 1) : Loud(p, j)}) >= MinLoud

\* The search for the onset goes from one loud run to the next.
OnsetBlock(p) ==
  LET from[i \in 1..(Len(p) + 1)] ==
        IF i > Len(p) THEN i
        ELSE IF ~Loud(p, i) THEN from[i + 1]
        ELSE IF Sustained(p, i) THEN i
        ELSE from[FirstNot(SPEECH, p, i)]
  IN  from[1]

\* A definition named Bug... is never used: put in the place of the one after it,
\* it shows which property would notice that mistake.
BugTrueStart(p) == OnsetBlock(p)
TrueStart(p) == Back(SOUND, p, OnsetBlock(p))

\* The loop over the blocks before the start: those that it sets to zero.
Gated(p) ==
  LET start == TrueStart(p)
      from[i \in 1..(Len(p) + 1)] ==
        IF i >= start THEN {}
        ELSE IF ~Click(p, i) THEN from[i + 1]
        ELSE LET first == Back(SOUND, p, i)
                 end == Lowest(FirstNot(SOUND, p, i + 1), start)
             IN  (IF end - first <= MaxClick THEN first..(end - 1) ELSE {}) \cup from[end]
  IN  from[1]

\* The tail without speech, in blocks or whatever the sequence is of.
TrailingNonspeech(speech, s) == Len(s) - Max({i \in DOMAIN s : s[i] \in speech} \cup {0})

\* The new length; a tail that is not longer than keep stays as it is.
TrimmedTo(speech, s, keep) ==
  LET tail == TrailingNonspeech(speech, s)
  IN  IF tail <= keep THEN Len(s) ELSE Len(s) - (tail - keep)
-----------------------------------------------------------------------------
(* What it should be.                                                      *)

\* Connected sound: blocks above silence, with silence or an edge on both sides.
Sound(p, a, b) ==
  /\ a <= b /\ \A i \in a..b : Sounds(p, i)
  /\ a = 1 \/ ~Sounds(p, a - 1)
  /\ b = Len(p) \/ ~Sounds(p, b + 1)

\* A loud run from its beginning, with enough of loudness after it.
Speech(p, i) == Loud(p, i) /\ (i = 1 \/ ~Loud(p, i - 1)) /\ Sustained(p, i)

IsClick(p, a, b) ==
  /\ Sound(p, a, b) /\ b - a < MaxClick
  /\ \E i \in a..b : Click(p, i)
  /\ ~\E i \in 1..b : Speech(p, i)
  /\ b = Len(p) => \E i \in DOMAIN p : Speech(p, i)

Chunks == UNION {[1..n -> 0..3] : n \in 0..MaxBlocks}

\* What is silenced is exactly the connected sounds that are as loud as a click
\* and as short as one, and in which the speech has not begun: never a quiet
\* consonant that belongs to the first word, never a soft word, never a part of
\* a sound, never one that may go on in the next chunk.
OnlyClicksAreCut ==
  \A p \in Chunks :
    Gated(p) = {i \in DOMAIN p : \E a \in 1..i, b \in i..Len(p) : IsClick(p, a, b)}
=============================================================================
