---------------------------- MODULE MCCommandLine ----------------------------
(***************************************************************************)
(* The commands of crates/spqx-cli, in three scenes that share no state:   *)
(* one speaks (Say.tla on GgmlStream.tla and Gate.tla), some make and use  *)
(* a frozen voice (VoiceInstrument.tla), some work on a voice of the       *)
(* library (VoiceLibrary.tla).  A behaviour is one scene; the parts of the *)
(* others stay as they are.                                                *)
(*                                                                         *)
(* Speaking has caps of one to three frames and batches of one and two: a  *)
(* batch that ends exactly at the cap, speech that ends there too, and a   *)
(* stop or a failure after every batch.  A tail of two frames is a         *)
(* collapse.  Clicks are looked for in every chunk of up to six blocks.    *)
(*                                                                         *)
(* Four models: two talkers, one of them with another codec as well, and   *)
(* one that takes descriptions.  Two vectors make a bank, and in between   *)
(* the model may be replaced, and the recording, and be put back.          *)
(***************************************************************************)
EXTENDS Say, VoiceInstrument, VoiceLibrary, Selection

CONSTANTS u1, u2
MCUser == {u1, u2}

Talker(name, codec) == [talker |-> name, codec |-> codec, type |-> "base",
                        engine |-> "ggml", codebooks |-> CODEBOOKS]
MCArtifact == {Talker("t1", QWEN_12HZ_CODEC), Talker("t2", QWEN_12HZ_CODEC),
               Talker("t1", "another codec"),
               [Talker("t3", QWEN_12HZ_CODEC) EXCEPT !.type = "voice_design"]}

VARIABLE scene
cvars == <<allvars, ivars, lvars, scene>>

MCInit == /\ scene \in {"speak", "freeze", "library"}
          /\ SInit /\ IInit /\ LInit
          /\ scene # "speak" => command.kind = "other" /\ max = 1 /\ file = "absent"
          /\ scene # "freeze" => artifact = CHOOSE a \in Artifact : TRUE

MCNext == \/ scene = "speak" /\ SNext /\ UNCHANGED <<ivars, lvars, scene>>
          \/ scene = "freeze" /\ INext /\ UNCHANGED <<allvars, lvars, scene>>
          \/ scene = "library" /\ LNext /\ UNCHANGED <<allvars, ivars, scene>>

MCSpec == /\ MCInit /\ [][MCNext]_cvars
          /\ WF_allvars(CommandStep) /\ WF_allvars(Play)

\* What a command that speaks has loaded is what it was told to load.
LoadedAsAsked == at = "speak" => NoSubstitution
=============================================================================
