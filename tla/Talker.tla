------------------------------- MODULE Talker -------------------------------
(***************************************************************************)
(* The two transformers of the native engine and their caches              *)
(* (crates/spqx-core/src/inference.rs): the talker, whose cache keeps      *)
(* everything it was fed in one synthesis, and the code predictor, which   *)
(* makes the other codes of a frame out of the talker's last hidden state  *)
(* and the first code, and starts over with each frame.                    *)
(*                                                                         *)
(* A frame is its number; its code 0 and its other codes are named after   *)
(* it, so that what a frame made of another one shows.                     *)
(***************************************************************************)
EXTENDS KvCache

CONSTANT SubCodes  \* codes that the predictor makes for a frame, 15 in the code

ASSUME TalkerAssumption == SubCodes \in Nat \ {0}

VARIABLES talker,     \* its cache, as it is kept on either backend
          predictor,  \* the code predictor's cache
          heard,      \* history: what each position of the talker's last pass saw
          subCodes    \* history: what each of the last frame's other codes was made of

tvars == <<talker, predictor, heard, subCodes>>

Hidden(frame) == <<"hidden", frame, 0>>
Code(frame, j) == <<"code", frame, j>>

\* The hidden state and the first code go in together, then each code after the other.
Predicted(cache, frame) ==
  LET made[j \in 0..SubCodes] ==
        IF j = 0 THEN [cache |-> Cleared(cache), codes |-> <<>>]
        ELSE LET input == IF j = 1 THEN <<Hidden(frame), Code(frame, 0)>>
                                   ELSE <<Code(frame, j - 1)>>
                 pass == Forward(made[j - 1].cache, input)
             IN  [cache |-> pass.cache,
                  codes |-> Append(made[j - 1].codes, pass.out[Len(input)])]
  IN  made[SubCodes]

Passed(t, x) ==
  [blocks |-> Forward(t.blocks, x).cache,
   joined |-> Concatenated(t.joined, Rotated(x, Len(t.joined)))]

\* The prompt goes in at once.
Prefill(prompt) ==
  /\ talker = Passed([blocks |-> NoKeys, joined |-> <<>>], prompt)
  /\ heard = Forward(NoKeys, prompt).out
  /\ predictor = NoKeys
  /\ subCodes = <<>>

\* A frame's other codes, then the frame itself as the talker's next position.
TalkerStep(frame, position) ==
  /\ predictor' = Predicted(predictor, frame).cache
  /\ subCodes' = Predicted(predictor, frame).codes
  /\ talker' = Passed(talker, <<position>>)
  /\ heard' = Forward(talker.blocks, <<position>>).out
-----------------------------------------------------------------------------
(* What a transformer without caches would see.                            *)

Everything(x) == {[of |-> x[i], back |-> Len(x) - i] : i \in DOMAIN x}

TalkerSees(fed) ==
  /\ \A r \in DOMAIN heard : heard[r] = Everything(SubSeq(fed, 1, Len(fed) - Len(heard) + r))
  /\ Fetched(talker.blocks) = talker.joined

PredictorSees(frame) ==
  subCodes = [j \in 1..SubCodes |->
                Everything(<<Hidden(frame)>> \o [i \in 1..j |-> Code(frame, i - 1)])]
=============================================================================
