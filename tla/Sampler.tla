------------------------------ MODULE Sampler -------------------------------
(***************************************************************************)
(* How a code is sampled (crates/spqx-core/src/inference.rs                *)
(* `predict_code_0`, and the top-k of `generate_codes_inner`): which codes *)
(* have a chance, for given logits and the codes sampled before.           *)
(*                                                                         *)
(* Logits are integers, multiples of what the penalty divides by.  A       *)
(* temperature above 0 keeps their order and is left out; what is masked   *)
(* has no chance, everything else has one.                                 *)
(***************************************************************************)
EXTENDS Integers, Sequences, FiniteSetsExt, SequencesExt

CONSTANTS Vocabulary,  \* number of codes, 3072 in the code
          SPECIAL,     \* how many at the end are special, 1024 in the code
          EosCode,     \* codec_eos_code
          NEG,         \* -1e9 in the code
          PenaltyUp, PenaltyDown,  \* the penalty as a fraction, 3 / 2 in the code
          Levels,      \* bound: the logits
          MaxPast,     \* bound: codes sampled before
          TopKs        \* bound: the top_k asked for

Codes == 0..(Vocabulary - 1)

ASSUME SamplerAssumption ==
  /\ Vocabulary \in Nat \ {0} /\ SPECIAL \in Nat /\ EosCode \in Codes
  /\ PenaltyUp \in Nat \ {0} /\ PenaltyDown \in Nat \ {0} /\ PenaltyUp >= PenaltyDown
  /\ MaxPast \in Nat /\ TopKs \in SUBSET Nat
  /\ NEG \in Int /\ NEG < 0
  /\ \A l \in Levels : l \in Int /\ l % (PenaltyUp * PenaltyDown) = 0

\* What a network gives for a code is far smaller than the mask.
ASSUME MaskAssumption == \A l \in Levels : NEG < 2 * l /\ 2 * l < -NEG

FirstSpecial == IF Vocabulary > SPECIAL THEN Vocabulary - SPECIAL ELSE 0
Special == {c \in Codes : c >= FirstSpecial /\ c # EosCode}

Suppressed(logits) == [c \in Codes |-> IF c \in Special THEN logits[c] + NEG ELSE logits[c]]

Lesser(a, b) == IF a <= b THEN a ELSE b
Multiplied(s) == (s * PenaltyUp) \div PenaltyDown
Divided(s) == (s * PenaltyDown) \div PenaltyUp

\* Whether the logit is positive or not, the lesser of the two is the penalty.
Penalized(logits, past) ==
  [c \in Codes |->
     IF \E i \in DOMAIN past : past[i] = c THEN Lesser(Divided(logits[c]), Multiplied(logits[c]))
                                           ELSE logits[c]]

Scored(logits, past) == Penalized(Suppressed(logits), past)

\* The k-th highest, counted with repetitions; what ties with it stays.
Threshold(scores, k) ==
  Max({s \in {scores[c] : c \in Codes} : Cardinality({c \in Codes : scores[c] >= s}) >= k})

\* A definition named Bug... is never used: put in the place of the one after it,
\* it shows which property would notice that mistake.
BugFiltered(scores, k) ==
  [c \in Codes |-> IF scores[c] < Threshold(scores, k) THEN NEG ELSE scores[c]]
Filtered(scores, k) ==
  [c \in Codes |-> IF scores[c] < Threshold(scores, k) /\ c # EosCode THEN NEG ELSE scores[c]]

\* A score far below what a logit can be is no chance.
Chosen(scores) == {c \in Codes : 2 * scores[c] > NEG}

\* What predict_code_0 may return; at temperature 0 it takes a highest one.
Sampled(logits, past, k) ==
  LET scores == Scored(logits, past)
  IN  Chosen(IF k > 0 /\ k < Vocabulary THEN Filtered(scores, k) ELSE scores)
Greedy(logits, past) ==
  LET scores == Scored(logits, past)
  IN  {c \in Codes : \A d \in Codes : scores[d] <= scores[c]}
-----------------------------------------------------------------------------
(* What it should be.                                                      *)

\* The rule as the test penalty_tests states it: code after code, each once.
HostStep(state, code) ==
  IF code \in state.seen THEN state
  ELSE LET s == state.logits[code]
       IN  [seen |-> state.seen \union {code},
            logits |-> [state.logits EXCEPT ![code] = IF s > 0 THEN Divided(s) ELSE Multiplied(s)]]
HostPenalized(logits, past) ==
  LET after[n \in 0..Len(past)] ==
        IF n = 0 THEN [seen |-> {}, logits |-> logits] ELSE HostStep(after[n - 1], past[n])
  IN  after[Len(past)].logits

Speech == Codes \ (Special \cup {EosCode})
Pasts == UNION {[1..n -> Speech] : n \in 0..MaxPast}
AllLogits == [Codes -> Levels]

\* The end of speech can be sampled, whatever is filtered; a special code cannot;
\* and of what can be sampled nothing scores below what cannot, the end apart.
EndIsReachable ==
  \A logits \in AllLogits, past \in Pasts :
    /\ \A k \in TopKs :
         LET can == Sampled(logits, past, k) IN
         /\ EosCode \in can /\ can \cap Special = {}
         /\ \A c \in can \ {EosCode}, d \in Speech \ can :
              Scored(logits, past)[c] >= Scored(logits, past)[d]
    /\ Greedy(logits, past) \cap Special = {}

PenaltyIsOnce ==
  \A logits \in AllLogits, past \in Pasts : Penalized(logits, past) = HostPenalized(logits, past)
=============================================================================
