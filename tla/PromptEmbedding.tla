-------------------------- MODULE PromptEmbedding ---------------------------
(***************************************************************************)
(* What the talker is fed (crates/spqx-core/src/inference.rs,              *)
(* voice_design.rs): a prompt whose positions are sums of a text embedding *)
(* and a codec embedding, then for each frame the frame's embedding over   *)
(* the next piece of text.  A position is the pair of what is summed.      *)
(***************************************************************************)
EXTENDS Integers, Sequences

Token(name) == <<name, 0>>
Pad == Token("tts_pad")
Bos == Token("tts_bos")
Eos == Token("tts_eos")
CodecPad == Token("codec_pad")
CodecBos == Token("codec_bos")
None == Token("none")

Tokens(name, n) == [i \in 1..n |-> <<name, i>>]
Position(text, codec) == [text |-> text, codec |-> codec]
TextOnly(texts) == [i \in DOMAIN texts |-> Position(texts[i], None)]
Over(texts, codec) == [i \in DOMAIN texts |-> Position(texts[i], codec)]
Under(text, codecs) == [i \in DOMAIN codecs |-> Position(text, codecs[i])]
-----------------------------------------------------------------------------
\* <|im_start|>assistant\n
Role == <<Token("im_start"), Token("assistant"), Token("newline")>>
EndOfTurn == <<Token("im_end"), Token("newline")>>

\* What is tokenized, and what is left of it when its markers are stripped.
ReferenceIds(ref) == Role \o ref \o EndOfTurn
SynthesisIds(text) == Role \o text \o EndOfTurn \o Role
Stripped(ids, tail) == SubSeq(ids, 4, Len(ids) - tail)

CodecPrefix(language, speaker) ==
  (IF language THEN <<Token("think"), Token("think_bos"), Token("language"), Token("think_eos")>>
               ELSE <<Token("nothink"), Token("think_bos"), Token("think_eos")>>)
  \o speaker \o <<CodecPad, CodecBos>>

\* All but the final codec_bos, under padding that ends with tts_bos.
Prefixed(codecs) ==
  LET n == Len(codecs) - 1
  IN  [i \in 1..n |-> Position(IF i < n THEN Pad ELSE Bos, codecs[i])]

Speaker == <<Token("speaker")>>

\* Custom voice: the whole text, then codec_bos.
PlainPrompt(ids) ==
  TextOnly(SubSeq(ids, 1, 3)) \o Prefixed(CodecPrefix(TRUE, Speaker))
  \o Over(Append(Stripped(ids, 5), Eos), CodecPad) \o <<Position(Pad, CodecBos)>>

\* The same with the embedding of a voice between the tokens around it.
XvectorPrompt(ids) ==
  LET before == <<Token("think"), Token("think_bos"), Token("language"), Token("think_eos")>>
      prefix == before \o Speaker \o <<CodecPad, CodecBos>>
  IN  TextOnly(SubSeq(ids, 1, 3)) \o Prefixed(prefix)
      \o Over(Append(Stripped(ids, 5), Eos), CodecPad) \o <<Position(Pad, prefix[7])>>

User == <<Token("im_start"), Token("user"), Token("newline")>>

\* An instruction, when there is one, goes before all that.
InstructPrompt(instruction, ids) ==
  (IF instruction = <<>> THEN <<>> ELSE Over(User \o instruction \o EndOfTurn, CodecPad))
  \o PlainPrompt(ids)

\* In-context: the reference's text before the text, its frames behind codec_bos.
IclPrompt(refIds, synthIds, frames, language) ==
  TextOnly(SubSeq(refIds, 1, 3)) \o Prefixed(CodecPrefix(language, Speaker))
  \o Over(Stripped(refIds, 2) \o Stripped(synthIds, 5) \o <<Eos>>, CodecPad)
  \o Under(Pad, <<CodecBos>> \o frames)

PromptCache(refIds, frames, language) ==
  [role |-> TextOnly(SubSeq(refIds, 1, 3)),
   phase2 |-> Prefixed(CodecPrefix(language, Speaker)),
   refText |-> Stripped(refIds, 2),
   phase4 |-> Under(Pad, <<CodecBos>> \o frames)]

FromCache(cache, synthIds) ==
  cache.role \o cache.phase2
  \o Over(cache.refText \o Stripped(synthIds, 5) \o <<Eos>>, CodecPad)
  \o cache.phase4

\* A described voice: no speaker, and of the text only the first token.
DesignPrompt(description, spoken, language) ==
  TextOnly(User \o description \o EndOfTurn)
  \o TextOnly(Role)
  \o Prefixed(CodecPrefix(language, <<>>))
  \o <<Position(spoken[1], CodecBos)>>

\* A definition named Bug... is never used: put in the place of the one after it,
\* it shows which property would notice that mistake.
BugTextStep(trailing, step) == IF step <= Len(trailing) /\ step > 0 THEN trailing[step] ELSE Pad
TextStep(trailing, step) == IF step < Len(trailing) THEN trailing[step + 1] ELSE Pad
-----------------------------------------------------------------------------
(* What must have been fed for a text to be spoken once.                   *)

First(names, name) ==
  CHOOSE i \in DOMAIN names : names[i] = name /\ \A k \in 1..(i - 1) : names[k] # name

Texts(positions) == [i \in DOMAIN positions |-> positions[i].text]
Codecs(positions) == [i \in DOMAIN positions |-> positions[i].codec]

\* There is something to say over something to hear.
Speaks(position) == position.codec # None /\ position.text # Pad

\* From tts_bos on n tokens of the text, between its two ends and in order, and no
\* more of any: an instruction comes before.  Behind codec_bos nothing but the frames.
SpokenOnce(positions, text, n, frames) ==
  LET words == SubSeq(<<Bos>> \o text \o <<Eos>>, 1, n)
      from == First(Texts(positions), Bos)
      heard == First(Codecs(positions), CodecBos)
  IN  /\ from + Len(words) - 1 <= Len(positions)
      /\ \A i \in from..Len(positions) :
           IF i < from + Len(words)
           THEN Speaks(positions[i]) /\ positions[i].text = words[i - from + 1]
           ELSE ~Speaks(positions[i])
      /\ SubSeq(Codecs(positions), heard + 1, Len(positions)) = frames
=============================================================================
