--------------------------- MODULE NativePipeline ---------------------------
(***************************************************************************)
(* The native engine between its callers and its networks: everything that *)
(* starts the generation loop (`generate_with_...`, `trace_with_icl` of    *)
(* crates/spqx-core/src/inference.rs), what the talker is fed, and how the *)
(* frames are decoded.                                                     *)
(*                                                                         *)
(* The entry points differ in the prompt, in whether text trails behind    *)
(* it, in whether the text limits the frames, and in whether the frames    *)
(* are decoded batch by batch or all at once.                              *)
(***************************************************************************)
EXTENDS NativeStream, StreamingVocoder, PromptEmbedding, Talker, Sampler, AudioEncoder

CONSTANTS RefTokens,   \* tokens of the reference's text
          RefFrames,   \* frames of the reference
          WARM_FRAMES, \* 16 in the code
          DescTokens   \* tokens of a description or an instruction

ASSUME PipelineAssumption ==
  RefTokens \in Nat /\ RefFrames \in Nat /\ WARM_FRAMES \in Nat /\ DescTokens \in Nat \ {0}

VARIABLES session,  \* what was called: the entry point, and whether the language is known
          fed       \* history: the positions that went through the talker

plvars == <<vars, vvars, tvars, session, fed>>

RefIds == ReferenceIds(Tokens("ref", RefTokens))
RefCodes == Tokens("refFrame", RefFrames)
Text == Tokens("text", req.tokens)
Ids == SynthesisIds(Text)
SpokenText == Append(Text, Eos)
Description == Tokens("description", DescTokens)

\* What an entry point asks of the loop: the prompt, the text that trails behind
\* it, whether the text limits the frames, how many frames the vocoder has seen
\* already, and whether all frames are decoded at once.
Streams(prompt, trailing, limited, warm) ==
  [prompt |-> prompt, trailing |-> trailing, limited |-> limited, warm |-> warm, atOnce |-> FALSE]
AllAtOnce(prompt, limited) ==
  [prompt |-> prompt, trailing |-> <<>>, limited |-> limited, warm |-> 0, atOnce |-> TRUE]

GenerateWithParams == AllAtOnce(PlainPrompt(Ids), FALSE)
GenerateWithInstruct == AllAtOnce(InstructPrompt(Description, Ids), FALSE)
GenerateWithXvector == AllAtOnce(XvectorPrompt(Ids), FALSE)
GenerateWithIcl == AllAtOnce(IclPrompt(RefIds, Ids, RefCodes, session.language), FALSE)
GenerateWithIclTimed == AllAtOnce(IclPrompt(RefIds, Ids, RefCodes, session.language), FALSE)
TraceWithIcl == AllAtOnce(IclPrompt(RefIds, Ids, RefCodes, session.language), TRUE)
GenerateWithIclStreaming ==
  Streams(IclPrompt(RefIds, Ids, RefCodes, session.language), <<>>, FALSE, 0)

\* The reference's part of the prompt is prepared once.  Its last frames go through
\* the vocoder then, and each synthesis begins with a copy of that state.
Warm == IF session.kind = "icl session" /\ req.vocoder THEN MinOf(WARM_FRAMES, RefFrames) ELSE 0
GenerateWithIclSession ==
  Streams(FromCache(PromptCache(RefIds, RefCodes, session.language), Ids), <<>>, TRUE, Warm)

GenerateWithDesignSession ==
  Streams(DesignPrompt(Description, SpokenText, session.language), Tail(SpokenText), TRUE, 0)

Kinds == {"custom voice", "instructed", "xvector", "icl", "icl timed", "icl trace",
          "icl stream", "icl session", "design session"}

Call ==
  CASE session.kind = "custom voice" -> GenerateWithParams
    [] session.kind = "instructed" -> GenerateWithInstruct
    [] session.kind = "xvector" -> GenerateWithXvector
    [] session.kind = "icl" -> GenerateWithIcl
    [] session.kind = "icl timed" -> GenerateWithIclTimed
    [] session.kind = "icl trace" -> TraceWithIcl
    [] session.kind = "icl stream" -> GenerateWithIclStreaming
    [] session.kind = "icl session" -> GenerateWithIclSession
    [] session.kind = "design session" -> GenerateWithDesignSession

\* A described voice is refused without a vocoder, and an empty text.  A trace
\* decodes nothing.
Refused == \/ session.kind = "design session" /\ (~req.vocoder \/ req.tokens = 0)
           \/ session.kind = "icl trace" /\ req.vocoder

PInit ==
  /\ Init /\ session \in [kind : Kinds, language : BOOLEAN] /\ ~Refused
  /\ req.limited = Call.limited /\ (req.chunk = NoChunks <=> Call.atOnce)
  /\ fed = Call.prompt
  /\ Prefill(Call.prompt)
  /\ VocoderInit(Call.warm)

\* Behind each frame its embedding goes in, over the next piece of text.
Feed ==
  IF step' = step THEN UNCHANGED <<fed, tvars>>
  ELSE LET position == Position(TextStep(Call.trailing, step), <<"frame", step'>>)
       IN  fed' = Append(fed, position) /\ TalkerStep(step', position)

\* One batch through the vocoder, or everything through one without state; who
\* collects everything refuses nothing.
Vocode ==
  LET batch == SubSeq(decoded', Len(decoded) + 1, Len(decoded')) IN
  IF Call.atOnce
  THEN /\ keep'
       /\ IF batch = <<>> THEN UNCHANGED vvars
                          ELSE audio' = Whole(batch) /\ UNCHANGED <<voc, borders>>
  ELSE IF batch = <<>> THEN UNCHANGED vvars
       ELSE Decode([i \in DOMAIN batch |-> Call.warm + batch[i]])

PNext == Next /\ Feed /\ Vocode /\ UNCHANGED session

PSpec == PInit /\ [][PNext]_plvars
-----------------------------------------------------------------------------
\* Whatever the batches, their audio is that of one decoding of all the frames
\* (behind the reference's last ones): each layer that looks back finds what it
\* would find there.  One thing differs: the bias of an upsampling layer counts
\* twice where one batch overlaps the next.
DecodedAsWhole == AsWhole(Call.warm, Len(decoded))

\* The talker is fed each token of the text once and in order, then the end, and
\* each frame behind it; a described voice gets a token with each frame.  The two
\* ways to an in-context prompt, with and without a cache, lead to the same; and
\* the frames of the reference in it hear all of the recording.
PromptIsWhole ==
  LET frames == Tokens("frame", step)
      all == req.tokens + 2
      inContext == {"icl", "icl timed", "icl trace", "icl stream", "icl session"} IN
  CASE session.kind \in inContext ->
         /\ SpokenOnce(fed, Tokens("ref", RefTokens) \o Text, RefTokens + all, RefCodes \o frames)
         /\ SubSeq(fed, 1, Len(fed) - step)
              = IclPrompt(RefIds, Ids, RefCodes, session.language)
         /\ step = 0 => ReferenceIsHeard
    [] session.kind = "design session" -> SpokenOnce(fed, Text, MinOf(all, 2 + step), frames)
    [] OTHER -> SpokenOnce(fed, Text, all, frames)

\* With its cache the talker sees at each position all positions up to it and no
\* other, each at its distance, however often the cache grew; and the codes of a
\* frame are made of that frame's hidden state and codes, and of nothing that the
\* predictor's cache held from the frame before.
TalkerSeesAll == TalkerSees(fed) /\ (step > 0 => PredictorSees(step))

\* Whatever the logits and the codes so far: a synthesis can end before each frame
\* (the end of speech is exempt from top-k), no special code is spoken, and a code
\* is penalized once, however often it was sampled.
SamplesSpeechOrEnd == pc = "decode" => EndIsReachable /\ PenaltyIsOnce
=============================================================================
