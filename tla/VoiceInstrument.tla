--------------------------- MODULE VoiceInstrument ---------------------------
(***************************************************************************)
(* The life of a frozen voice, over the commands that make and use it:     *)
(* `spqx lab extract`, `fit`, `preview` and `save`, `spqx design` and      *)
(* `spqx say --voice-id` (crates/spqx-cli/src/workbench.rs, bundles.rs,    *)
(* engine.rs), on the sessions of crates/spqx-core/src/ggml.rs.            *)
(*                                                                         *)
(* One command at a time.  Before each of its looks at the model files or  *)
(* the recording somebody may replace them.  What a command writes is      *)
(* created, never replaced, so files are a set; the registry is that of    *)
(* VoiceRegistry.tla with each save as one step.  Any command may fail at  *)
(* any point, and then has written nothing that can be read.               *)
(***************************************************************************)
EXTENDS Conditioning, Sequences

CONSTANTS Artifact,     \* what the model path may lead to
          Recording,    \* what the file of the reference may hold
          Seed,         \* seeds, NoSeed among them
          Label,        \* names of the vectors of a bank
          MaxExtracts,  \* bound; of every other command that leaves something, one
          MaxModels, MaxRecordings  \* bounds: replacements of each

ASSUME InstrumentAssumption ==
  /\ \A a \in Artifact : /\ a.engine \in {"ggml", "native"}
                         /\ a.type \in {"base", "voice_design"}
                         /\ a.codebooks \in Nat
  \* What a model is, is written in its files, and a hash tells files apart.
  /\ \A a, b \in Artifact : Scope(a) = Scope(b) => a = b
  /\ Recording # {} /\ NoSeed \in Seed
  /\ MaxExtracts \in Nat /\ MaxModels \in Nat /\ MaxRecordings \in Nat

VARIABLES artifact,   \* the model files
          recording,  \* the reference's audio
          exports,    \* files of extract and fit
          drafts,     \* directories of preview: a bundle and its audition
          registry,   \* the references of the registry, in the order of their creation
          job,        \* the command
          loaded,     \* the model its session has in memory
          done,       \* history: how often each command ended well
          replaced,   \* history: how often each was replaced
          slipped,    \* history: a model was replaced between two looks of a command
          flickered   \* history: the recording, twice

files == <<exports, drafts, registry>>
world == <<artifact, recording>>
memory == <<job, loaded>>
ivars == <<world, files, memory, done, replaced, slipped, flickered>>

CODEBOOKS == 16
ORIGINAL == "original transcript"

\* A command: what it will give the library and, of a frozen voice, the scope it
\* must find; `pca` the bank it was edited in, `from` the reference that says it.
NoJob == [kind |-> "none", at |-> "idle", full |-> FALSE, seed |-> NoSeed,
          input |-> {}, speaker |-> {}, context |-> {}, pca |-> {}, from |-> {},
          hash |-> {}, changes |-> 0]
Kind == {"extract", "fit", "preview", "save"}

\* A reference that spqx did not freeze has no bundle; there is one already.
Plain == [voice |-> 1, default |-> FALSE, saved |-> {}]

IInit == /\ artifact \in Artifact /\ recording = CHOOSE r \in Recording : TRUE
         /\ exports = {} /\ drafts = {}
         /\ registry = <<Plain>>
         /\ job = NoJob /\ loaded = {}
         /\ done = [k \in Kind |-> 0]
         /\ replaced = [model |-> 0, recording |-> 0] /\ slipped = FALSE /\ flickered = FALSE

Begin(fields) == /\ job.at = "idle"
                 /\ job' = [f \in DOMAIN NoJob |->
                              IF f \in DOMAIN fields THEN fields[f] ELSE NoJob[f]]
                 /\ loaded' = {}
Ends(kind) == /\ job' = NoJob /\ loaded' = {}
              /\ done' = [done EXCEPT ![kind] = @ + 1]
Goes(where) == job' = [job EXCEPT !.at = where]
-----------------------------------------------------------------------------
(* A session for a reference: the model, then the recording.               *)

BeginExtract ==
  /\ job.at = "idle" /\ done["extract"] < MaxExtracts
  /\ \E full \in BOOLEAN :
       job' = [NoJob EXCEPT !.kind = "extract", !.at = "load", !.full = full,
                            !.input = {ReferenceInput(ORIGINAL)}]
  /\ loaded' = {}
  /\ UNCHANGED <<world, files, done, replaced, slipped, flickered>>

\* initialize: the files are read, then the kind of the checkpoint is checked.
Initialize ==
  /\ job.at \in {"load", "initialize"}
  /\ artifact.engine = "ggml"
  /\ \A input \in job.input : artifact.type = ExpectedModelType(input)
  /\ job.context # {} => artifact.codebooks = CODEBOOKS
  /\ loaded' = {artifact}
  /\ Goes(IF \E input \in job.input : input.kind = "reference" THEN "hash" ELSE "speak")
  /\ UNCHANGED <<world, files, done, replaced, slipped, flickered>>

\* prepare_reference: a hash, the samples, and the hash again.
HashRecording ==
  /\ job.at = "hash"
  /\ job' = [job EXCEPT !.at = "encode", !.hash = {recording}]
  /\ UNCHANGED <<world, files, loaded, done, replaced, slipped, flickered>>

Encode ==
  /\ job.at = "encode"
  /\ \E model \in loaded :
       job' = [job EXCEPT !.at = "rehash",
                          !.input = {Prepared(i, model, recording) : i \in job.input}]
  /\ UNCHANGED <<world, files, loaded, done, replaced, slipped, flickered>>

\* A definition named Bug... is never used: put in the place of the one after it,
\* it shows which property would notice that mistake.
BugUnchanged == TRUE
Unchanged == job.hash = {recording}

Rehash ==
  /\ job.at = "rehash" /\ Unchanged
  /\ Goes(IF job.kind = "extract" THEN "export" ELSE "speak")
  /\ UNCHANGED <<world, files, loaded, done, replaced, slipped, flickered>>

\* frozen_conditioning and frozen_icl: the scope is hashed from the files as they
\* are now, and the context from the codes of the session.
Exported ==
  UNION {LET speaker == Frozen(Scope(artifact), values, {})
         IN  IF ~job.full
             THEN {[speaker |-> {speaker}, context |-> {}, pca |-> {}]}
             ELSE {[speaker |-> {speaker}, context |-> {c}, pca |-> {}] :
                     c \in {FromNative(speaker.scope, codes, ORIGINAL, hash) :
                              codes \in UNION {i.codes : i \in job.input},
                              hash \in job.hash}} :
         values \in UNION {i.values : i \in job.input}}

Export ==
  /\ job.at = "export"
  /\ \A e \in Exported : \A v \in e.speaker, c \in e.context : Combines(v, c)
  /\ exports' = exports \union Exported
  /\ Ends("extract")
  /\ UNCHANGED <<world, drafts, registry, replaced, slipped, flickered>>
-----------------------------------------------------------------------------
(* Vectors, banks and previews.                                            *)

Vectors == UNION {e.speaker : e \in {x \in exports : x.context = {}}}
Prompts == {e \in exports : e.context # {}}
Banks == UNION {e.pca : e \in exports}

BugOneSpace(vectors) == TRUE
\* The first vector gives the scope, and every other is required to have it.
OneSpace(vectors) == \A v, w \in vectors : v.scope = w.scope

Fit ==
  /\ job.at = "idle" /\ done["fit"] = 0
  /\ \E vector \in [Label -> Vectors] :
       LET vectors == {vector[n] : n \in Label}
           sources == {[name |-> n, values |-> vector[n].values] : n \in Label}
       IN  /\ OneSpace(vectors) /\ MayFit(sources)
           /\ exports' = exports \union
                {[speaker |-> {}, context |-> {},
                  pca |-> {Bank((CHOOSE v \in vectors : TRUE).scope, sources)}]}
  /\ Ends("fit")
  /\ UNCHANGED <<world, drafts, registry, replaced, slipped, flickered>>

Preview(speaker, context, pca, seed) ==
  /\ \A c \in context : Combines(speaker, c)
  /\ done["preview"] = 0
  /\ Begin([kind |-> "preview", at |-> "scope", seed |-> seed, speaker |-> {speaker},
            context |-> context, pca |-> pca,
            input |-> {FrozenSession(speaker, context, seed)}])
  /\ UNCHANGED <<world, files, done, replaced, slipped, flickered>>

\* PreviewArgs::prepare: the vector of a bank, of a file, or of the prompt itself;
\* with a prompt, its context unchanged.
BeginPreview ==
  \E seed \in Seed, context \in {{}} \union {p.context : p \in Prompts} :
    \/ \E bank \in Banks, offset \in {0, 1} : \E base \in Names(bank) :
         Preview(Edited(bank, base, offset), context, {bank}, seed)
    \/ \E v \in Vectors : Preview(v, context, {}, seed)
    \/ \E p \in Prompts : \E v \in p.speaker :
         p.context = context /\ Preview(v, context, {}, seed)

BugInScope(speaker) == TRUE
\* require_scope, on the files as they are before they are loaded.
InScope(speaker) == speaker.scope = Scope(artifact)

\* load_frozen and load_frozen_icl; no other engine takes a frozen voice.
CheckScope ==
  /\ job.at = "scope" /\ artifact.engine = "ggml"
  /\ \A speaker \in job.speaker : InScope(speaker)
  /\ Goes("initialize")
  /\ UNCHANGED <<world, files, loaded, done, replaced, slipped, flickered>>

\* What is heard: the voice the library was given, by the model that speaks.
Heard == {[input |-> i, by |-> m] : i \in job.input, m \in loaded}

\* render and save, when the speech ended by itself and can be heard.
Render ==
  /\ job.at = "speak" /\ job.kind = "preview"
  /\ \E wave \in Heard, speaker \in job.speaker :
       LET b == Bundle(speaker, job.context, job.pca, job.seed, wave)
       IN  /\ ValidBundle(b, wave)
           /\ drafts' = drafts \union {[bundle |-> b, wave |-> wave]}
  /\ Ends("preview")
  /\ UNCHANGED <<world, exports, registry, replaced, slipped, flickered>>

\* `spqx design`: a description makes a candidate, never a frozen voice.
BeginDesign ==
  /\ Begin([kind |-> "design", at |-> "initialize",
            input |-> {DescriptionInput("a voice", NoSeed)}])
  /\ UNCHANGED <<world, files, done, replaced, slipped, flickered>>
-----------------------------------------------------------------------------
(* The registry.                                                           *)

Voices == {registry[r].voice : r \in DOMAIN registry}
Of(voice) == {r \in DOMAIN registry : registry[r].voice = voice}

\* promote_once: under the given voice or a new one, once for each bundle.
Save ==
  /\ job.at = "idle" /\ done["save"] = 0
  /\ \E draft \in drafts, voice \in Voices \union {Len(registry) + 1} :
       /\ ValidBundle(draft.bundle, draft.wave)
       /\ registry' = IF \E r \in Of(voice) : registry[r].saved = {draft}
                      THEN registry
                      ELSE Append(registry, [voice |-> voice, default |-> Of(voice) = {},
                                             saved |-> {draft}])
  /\ Ends("save")
  /\ UNCHANGED <<world, exports, drafts, replaced, slipped, flickered>>

\* The reference that is named; else the one default; else the only one.
Selected(voice, named) ==
  LET defaults == {r \in Of(voice) : registry[r].default}
  IN  IF named # 0 THEN {named} \intersect Of(voice)
      ELSE IF Cardinality(defaults) = 1 THEN defaults
      ELSE IF Cardinality(Of(voice)) = 1 THEN Of(voice) ELSE {}

BugContextOf(bundle) == {}
ContextOf(bundle) == bundle.icl_context

SayFrozen(reference, draft, override) ==
  LET b == draft.bundle
      seed == IF override # NoSeed THEN override ELSE b.seed
  IN  /\ ValidBundle(b, draft.wave)
      /\ Begin([kind |-> "say", at |-> "scope", seed |-> override, from |-> {reference},
                speaker |-> {b.conditioning}, context |-> ContextOf(b),
                input |-> {FrozenSession(b.conditioning, ContextOf(b), seed)}])

\* resolve and synthesize_streaming; a seed is of no use to a plain reference.
BeginSay ==
  /\ \E voice \in Voices, named \in 0..Len(registry), override \in Seed :
       \E r \in Selected(voice, named) :
         IF registry[r].saved = {}
         THEN Begin([kind |-> "say", at |-> "load", from |-> {registry[r]},
                     input |-> {ReferenceInput(ORIGINAL)}])
         ELSE \E draft \in registry[r].saved : SayFrozen(registry[r], draft, override)
  /\ UNCHANGED <<world, files, done, replaced, slipped, flickered>>

\* A candidate is not kept by this part of the code.
Speaks ==
  /\ job.at = "speak" /\ job.kind \in {"say", "design"}
  /\ job' = NoJob /\ loaded' = {}
  /\ UNCHANGED <<world, files, done, replaced, slipped, flickered>>
-----------------------------------------------------------------------------
(* What else happens.                                                      *)

\* A command gives up: a check has failed, speech was cut off, a file is missing.
GiveUp ==
  /\ job.at # "idle"
  /\ job' = NoJob /\ loaded' = {}
  /\ UNCHANGED <<world, files, done, replaced, slipped, flickered>>

\* A replacement shows at the next look, so it is made just before one.
LooksAtModel == job.at \in {"load", "scope", "initialize", "export"}
LooksAtRecording == job.at \in {"hash", "encode", "rehash"}

\* These commands had looked before, and do not notice that it is another model.
Unwatched == \/ job.at = "export"
             \/ job.at = "initialize" /\ job.kind # "design"

ReplaceModel ==
  /\ LooksAtModel /\ replaced.model < MaxModels
  /\ artifact' \in Artifact \ {artifact}
  /\ replaced' = [replaced EXCEPT !.model = @ + 1]
  /\ slipped' = (slipped \/ Unwatched)
  /\ UNCHANGED <<recording, files, memory, done, flickered>>

ReplaceRecording ==
  /\ LooksAtRecording /\ replaced.recording < MaxRecordings
  /\ recording' \in Recording \ {recording}
  /\ replaced' = [replaced EXCEPT !.recording = @ + 1]
  /\ IF job.at = "hash" THEN UNCHANGED <<job, flickered>>
     ELSE job' = [job EXCEPT !.changes = @ + 1] /\ flickered' = (flickered \/ job.changes > 0)
  /\ UNCHANGED <<artifact, files, loaded, done, slipped>>

INext == \/ BeginExtract \/ Initialize \/ HashRecording \/ Encode \/ Rehash \/ Export
         \/ Fit \/ BeginPreview \/ CheckScope \/ Render \/ BeginDesign
         \/ Save \/ BeginSay \/ Speaks \/ GiveUp \/ ReplaceModel \/ ReplaceRecording

InstrumentSpec == IInit /\ [][INext]_ivars
-----------------------------------------------------------------------------
Frozens == (UNION {e.speaker : e \in exports}) \union {d.bundle.conditioning : d \in drafts}
Contexts == UNION ({e.context : e \in exports} \union {d.bundle.icl_context : d \in drafts})

\* Every vector and every context names the model it was made with, the words it
\* was made from and the recording, in every file and after every edit - unless
\* that model or, back and forth, that recording was replaced while the command
\* that wrote it was looking away.
CustodyIsTrue ==
  /\ ~slipped => /\ \A f \in Frozens : f.values.by = f.scope
                 /\ \A c \in Contexts : c.codes.by = c.scope
                 /\ \A b \in Banks : \A s \in b.sources : s.values.by = b.scope
  /\ \A c \in Contexts : c.text = ORIGINAL
  /\ ~flickered => \A c \in Contexts : c.source = c.codes.of

\* "Exact frozen drafts": a voice that was saved speaks with what was auditioned,
\* the vector, the codes, the words and, unless another is given, the seed, and by
\* the very model - or by another one only if it came while nobody looked.
VoiceIsAudition ==
  job.at = "speak" /\ job.kind = "say" =>
    \A heard \in Heard : \A draft \in UNION {r.saved : r \in job.from} :
      LET then == draft.wave.input
          now == heard.input
      IN  /\ [now EXCEPT !.seed = then.seed] = then
          /\ now.seed = IF job.seed = NoSeed THEN then.seed ELSE job.seed
          /\ heard.by # draft.wave.by => slipped
=============================================================================
