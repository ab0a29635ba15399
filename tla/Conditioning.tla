---------------------------- MODULE Conditioning ----------------------------
(***************************************************************************)
(* Frozen conditioning: the values of crates/spqx-core/src/conditioning.rs *)
(* and icl.rs, the voice bundle of crates/spqx-cli/src/bundles.rs, and     *)
(* what each kind of session of ggml.rs hands to the library.              *)
(*                                                                         *)
(* A hash is what it is the hash of.  A vector is where it comes from: the *)
(* scope of the model that encoded it, the recording, and how it was moved *)
(* since; the codes of a recording likewise.  What may be missing is a set *)
(* of at most one value.  Numbers, their ranges and lengths are left out:  *)
(* where the code refuses them, the command may fail.                      *)
(***************************************************************************)
EXTENDS Naturals, FiniteSets

QWEN_12HZ_CODEC == "qwen 12 Hz"

\* What a model path leads to: the talker, its codec, and what these are.
Scope(artifact) == [model |-> artifact.talker, codec |-> artifact.codec]

Encoded(artifact, wav) == [by |-> Scope(artifact), of |-> wav, moved |-> {}]
CodesOf(artifact, wav) == [by |-> Scope(artifact), of |-> wav]

Frozen(scope, values, recipe) == [scope |-> scope, values |-> values, recipe |-> recipe]
-----------------------------------------------------------------------------
(* A bank of vectors and its principal direction.                          *)

\* fit: at least two vectors that differ.
MayFit(sources) == Cardinality({s.values : s \in sources}) >= 2

Bank(scope, sources) == [scope |-> scope, sources |-> sources]
Names(bank) == {s.name : s \in bank.sources}

\* edit: along the directions of the bank, and with no offset the source itself.
Edited(bank, base, offset) ==
  LET source == (CHOOSE s \in bank.sources : s.name = base).values
  IN  Frozen(bank.scope,
             IF offset = 0 THEN source
                           ELSE [source EXCEPT !.moved = {[bank |-> bank, by |-> offset]}],
             {[space |-> bank, base |-> base, offset |-> offset]})
-----------------------------------------------------------------------------
(* The context of a complete prompt.                                       *)

Payload(scope, codes, text, source) ==
  [scope |-> scope, codes |-> codes, text |-> text, source |-> source]
Digest(context) == Payload(context.scope, context.codes, context.text, context.source)

FromNative(scope, codes, text, source) ==
  [scope |-> scope, codes |-> codes, text |-> text, source |-> source,
   sha256 |-> Payload(scope, codes, text, source)]

ValidContext(context) == /\ context.scope.codec = QWEN_12HZ_CODEC
                         /\ context.sha256 = Digest(context)

\* FrozenIcl::validate: a vector and a context of one scope.
Combines(speaker, context) == ValidContext(context) /\ speaker.scope = context.scope
-----------------------------------------------------------------------------
(* A voice bundle, with the audition that lies beside it.                  *)

ValidBundle(b, wave) ==
  /\ b.version = IF b.icl_context = {} THEN 1 ELSE 2
  /\ \A context \in b.icl_context : Combines(b.conditioning, context)
  /\ b.reference_sha256 = wave
  /\ IF b.conditioning.recipe = {} THEN b.pca = {}
     ELSE \A recipe \in b.conditioning.recipe :
            /\ b.pca = {recipe.space}
            /\ Edited(recipe.space, recipe.base, recipe.offset) = b.conditioning

Bundle(speaker, context, pca, seed, wave) ==
  [version |-> IF context = {} THEN 1 ELSE 2, conditioning |-> speaker,
   icl_context |-> context, pca |-> pca, seed |-> seed, reference_sha256 |-> wave]
-----------------------------------------------------------------------------
(* What the library is given: the fields of its parameters that say whose  *)
(* voice it is.  NoSeed lets it choose.                                    *)

NoSeed == 0
Input(kind, values, codes, transcript, instruct, seed) ==
  [kind |-> kind, values |-> values, codes |-> codes, transcript |-> transcript,
   instruct |-> instruct, seed |-> seed]

\* The vector and the codes of a reference are known once it has been prepared.
ReferenceInput(transcript) == Input("reference", {}, {}, {transcript}, {}, NoSeed)
Prepared(input, artifact, wav) ==
  [input EXCEPT !.values = {Encoded(artifact, wav)}, !.codes = {CodesOf(artifact, wav)}]
FrozenInput(speaker, seed) == Input("frozen", {speaker.values}, {}, {}, {}, seed)
IclInput(speaker, context, seed) ==
  Input("icl", {speaker.values}, {context.codes}, {context.text}, {}, seed)
DescriptionInput(instruction, seed) == Input("design", {}, {}, {}, {instruction}, seed)

\* load_frozen_session: a complete prompt if there is a context, else the vector.
FrozenSession(speaker, context, seed) ==
  IF context = {} THEN FrozenInput(speaker, seed)
  ELSE IclInput(speaker, CHOOSE c \in context : TRUE, seed)

ExpectedModelType(input) == IF input.kind = "design" THEN "voice_design" ELSE "base"
=============================================================================
