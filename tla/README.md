# spqx, specified

spqx is a text-to-speech program: a Rust core with two inference engines, a
persistent worker that speaks a binary protocol on its standard input and
output, a command line, an HTTP API, and a "voice lab", a TypeScript service in
which one person designs voices and rates them.  This directory holds TLA+
specifications of the parts whose control is hard to test (threads, processes,
callbacks, files, retries), the TLC configurations that check them on small
instances, and proofs that TLAPS checks for every value of the constants.

Run a check with `tlc -config MCWorker.cfg MCWorker`, and a proof with
`tlapm WorkerProofs.tla`.  `PROJECT.json` is the machine-readable index: which
lines of the code each definition models, what each run checks, a mistake that
each property would notice, the hazards and the theorems.

1. [The system](#1-the-system)
2. [The modules and the code](#2-the-modules-and-the-code)
3. [What is checked](#3-what-is-checked)
4. [Fairness](#4-fairness)
5. [What is proved](#5-what-is-proved)
6. [Where code and text disagree](#6-where-code-and-text-disagree)
7. [What is not modelled](#7-what-is-not-modelled)
8. [Plan](#8-plan)

## 1. The system

```
 controller --frames--> worker --calls--> engine (native | GGML)
   (CLI, API, app)        |  <-callbacks--   |
                          +-- PcmStreamer    +-- generation loop, vocoder
 spqx CLI --> model cache (files, lock)
   say, design, lab, voices --> engine, device, voices, frozen voices
 HTTP API --> chunker --> engine (mutex) --> formats
 voice lab --> annotation banks (files, lock)
           --> drafts --> `spqx lab save` --> voice registry (file, lock)
           --> previews (budget, lease, child process)
```

For each component: its state, its operations, what makes it hard, and what it
has to guarantee.

**Speech worker** (`crates/spqx-core/src/worker.rs`, `stdio.rs`).  State: an
unbounded channel of frames, a set of cancelled request ids behind a mutex, the
streamer and flags of the running request, the output pipe.  A reader thread
takes SPEAK, CANCEL and SHUTDOWN from the input; CANCEL overtakes the channel
through the shared set.  The serving thread handles one SPEAK at a time and
writes READY, AUDIO_START, AUDIO_CHUNK, AUDIO_DONE and ERROR.  Hard: a
cancellation can arrive between any two of the five places that look at the set;
a write can fail in any of nine places; a shutdown can come with requests
waiting.  Must hold: exactly one final frame for each request, in order; a
cancellation is not lost; audio stops soon after it; the worker ends.

**PCM streamer and its verdict** (`worker.rs`, `postprocess.rs`).  State: the
partial block, whether the utterance has started, the last 30 s of output.  Hard:
the borders between chunks, blocks, the preroll, the capped tail and the
measuring blocks.  Must hold: no sample is lost or doubled; only silence is
dropped; an utterance that collapsed into silence is reported.

**Engine contract** (`synthesis.rs`).  What the worker relies on of either
engine: after a callback said stop, no further call, and the outcome Cancelled;
that outcome for no other reason.

**Native generation loop** (`inference.rs`, `synthesis.rs`).  State: the batch
of codec frames, the streaming vocoder's position, the flag that the caller
wants more.  Hard: a refused batch is offered to the callback a second time by
the code after the loop; short last batches; the frame cap.  Must hold: each
frame is decoded once and in order; what ends by itself is complete.

**GGML engine** (`ggml.rs`).  State: sample count, `stopped`, `failed`, shared
with two C callbacks.  Hard: the library returns 0 both for end of speech and
for the cap; callbacks may panic and buffers may be bad.  Must hold: nothing cut
off, refused or broken is reported as complete.

**Model cache** (`crates/spqx-cli/src/models.rs`).  State: the snapshot's files,
a lock file, temporary files.  Several processes run `acquire` at once.  Hard:
the first check is made without the lock; kills and power losses around the
rename.  Must hold: a returned snapshot is complete; nothing is fetched twice; no
good file is taken away; every call ends.

**Audition annotations** (`demos/voice-lab/ratings.ts`, `curation.ts`).  State:
a record with a revision, its backup, a lock file.  Tabs, scripts and server
processes save at once; answers get lost and saves are repeated.  Must hold:
nobody overwrites what he has not seen; a save is carried out at most once; what
is answered as saved was written.

**Reusable voices** (`crates/spqx-cli/src/bundles.rs`, `workbench.rs`,
`demos/voice-lab/core.ts`, `server.ts`).  State: drafts, the flag `saving`, the
child process of a promotion; the registry, its lock, and a directory for each
reference.  Hard: the promotion may time out or be orphaned by a restart and yet
commit, the retry must recognise that; names are looked up several awaits
before the draft is renamed into place; a service that was told to stop goes on
with its saves for twelve seconds beside a new one, each with a flag of its own; a
call may die between its directory and the registry.  Must hold: one operation makes
one voice; a promoted draft names a voice that loads; a name goes to two drafts only
if saves of two services cross; the flag is always taken back.

**Voice-lab previews** (`core.ts`, `server.ts`, `native-renderer.ts`).  State:
jobs, the id of the active one, a daily budget on disk, a GPU reservation, a child
process, the service's own lock file.  Hard: the service may be stopped, may die or
be started twice at any point; a failure after the budget was counted; a failing
last write.  Must hold: no day has more renderings than its budget; what is shown as
ready is on disk; a preview ends and makes room for the next.

**HTTP API** (`crates/spqx-core/src/api/`).  State: the models behind one mutex,
which a panic poisons.  A text is cut into pieces, each is spoken on a blocking
thread, and the answer is the whole audio or a stream of events.  Hard: the cut is
made by bytes; a piece fails after others were sent; the reader goes away; rates,
speeds and the frames of the formats.  Must hold: an answer without an error says
the whole text, and no sample of it is lost.

**Streaming decode state** (`layers.rs` `KVCache`, `vocoder.rs`).  State: for each
layer that looks back, what it has to remember between batches: a left context, an
overlap, keys.  Must hold: for every split into batches the result is that of one
decoding of everything.

**Prompt, talker and sampler** (`inference.rs`, `icl.rs`, `voice_design.rs`).
State: the keys of two transformers, the position in the text, the codes so far.
Hard: eight entry points assemble a prompt, two of them twice (with a cache and
without); the text goes on behind the prompt, token by token; the code predictor
starts afresh for each frame.  Must hold: the text is fed once and in order; each
network sees the positions it should; a synthesis can always end.

**Speech encoder** (`audio_encoder.rs`).  No state.  Hard: the padding of strided
convolutions at both ends.  Must hold: a frame for each step of the recording, each
of all that was said up to it, and nothing of it lost.

**Model and engine selection** (`models.rs`, `synthesis.rs`).  No state.  Hard:
engine, profile, path, cache and checkpoint are chosen in four places.  Must hold:
what is loaded is what was asked for, or the command is refused.

**Frozen voices** (`workbench.rs`, `conditioning.rs`, `bundles.rs`, `ggml.rs`).
State: exports, drafts, registry, and the model and recording that somebody may
replace meanwhile.  Hard: a vector is bound to its model, words and recording by
hashes that are taken at other moments than what they are about.  Must hold: a
saved voice speaks with what was auditioned; each vector names what it was made of.

**Voice library** (`voices.rs`).  State: three files of a named voice, written in
place and without a lock.  Must hold: a recording is spoken to its own transcript.

**Playback, say and design** (`say.rs`, `design.rs`, `playback.rs`, `engine.rs`).
State: the audio so far, a channel to the device thread, the file.  Hard: the
verdict comes after the audio; the device thread ends only when its sender is gone.
Must hold: success means that everything was said, written and played; nobody's file
is replaced; every command ends.

**Leading-click gate and tail trim** (`postprocess.rs`).  Pure functions on levels.
Must hold: a click goes and a consonant stays, at every length of either.

**Tokenizer, speaker encoder, configuration and weights, tensor backends, the gpui
services experiment**: see section 7.

## 2. The modules and the code

| module | models | composed with |
|---|---|---|
| `SpeechService` | what a worker promises its controller (abstract) | implemented by `Worker` |
| `Worker` | `serve`, `handle_speak` | assumes of its engine what `Engine` says |
| `Engine` | what `Session::synthesize` promises its caller (abstract) | implemented by the next two |
| `NativeStream` | the native loop and its `deliver` closure | part of `NativePipeline` |
| `GgmlStream` | `GgmlEngine::synthesize` and its C callbacks | part of `Say` |
| `PcmStreamer` | `PcmStreamer`, `degenerate_reason` | refines `Worker`'s "blocks" by samples |
| `ModelCache` | `acquire`, `complete`, `valid`, `fetch` | |
| `AnnotationBank` | `RatingBank.save`, `CurationBank.save` | |
| `VoiceRegistry` | `promote_once`, `VoiceBundle::save` and `load` | has a specification of its own |
| `ReusableVoice` | `saveDraft`, `saveReusable`, `promote` and their route | extends `VoiceRegistry` |
| `KvCache` | `KVCache`, `RotaryEmbedding`, attention with a cache | extended by the next two |
| `StreamingVocoder` | each layer of the vocoder with and without batches | part of `NativePipeline` |
| `Talker` | prefill, one step of the talker, the code predictor | part of `NativePipeline` |
| `PromptEmbedding` | the prompts of every entry point | part of `NativePipeline` |
| `Sampler` | `predict_code_0` | part of `NativePipeline` |
| `AudioEncoder` | `AudioEncoder::encode` | part of `NativePipeline` |
| `NativePipeline` | the entry points of `TTSInference`: prompt, loop, batches, vocoder | joins the seven above |
| `Gate` | `gate_leading_nonspeech`, tail trim | part of `Say` |
| `Say` | `spqx say`, `spqx design`, `stream_session`, the device thread | joins `GgmlStream` and `Gate` |
| `Selection` | `resolve_for`, `select_backend`, the loaders | pure |
| `Conditioning` | vectors, banks, scopes and edits of a frozen voice | part of `VoiceInstrument` |
| `VoiceInstrument` | `spqx lab extract`, `fit`, `preview`, `save`, saying a saved voice | |
| `VoiceLibrary` | `spqx voices add`, `rm`, and `say --voice` | |
| `Previews` | `perform`, `render`, start and stop of the service | |
| `AudioFormats` | speed, rates and frames of an answer | part of `SpeechApi` |
| `SpeechApi` | `POST /v1/audio/speech` and the chunker | |

A definition whose name starts with `Bug` is used by no specification.  It is the
definition that follows it with a plausible mistake in it, and shows that some
property would notice.

**Worker.**  `reader`, `queue`, `cancelled` are the reader thread, the channel
and the mutex-protected set; a step is one access to the set or the channel, or
one frame written, with the local code around it, because these are what the two
threads share.  `pc` is the place in `handle_speak`: `enter` (the mark of an
earlier cancellation, 148), `announce`, `synth` (the engine runs: `Poll`,
`AudioRefused`, `AudioAccepted`), `push` (blocks of one callback go out one by
one), `settle` (the last look at the set, 220), then `flush`, `release`,
`report`, `complete`.  A failed write leads to `fail`, `clear` or `aborted` as in
the code.  Audio is counted in blocks: how many a callback completes, and whether
a partial one stays behind, is free.  `due` and `overrun` are history: a
cancellation for this request was read in time, and how many chunks followed.

**PcmStreamer.**  A sample is its level (below the onset threshold, above it,
above the level of speech).  `Push` is one call of `push` with everything in it:
the onset, the cut, the blocks with a failure after any number of them, the
tail.  `Finish` pads and writes the rest, `Judge` is the judgement in
`handle_speak`.  `heard` and `start` are history.

**NativeStream, GgmlStream.**  A codec frame is its number; whether the next is
end-of-speech is a choice.  `Deliver` is the callback, `ChunkReady` its call in
the loop, `FinalBatch` its call after the loop.  In `GgmlStream` the library is
external: it is modelled by what the Rust code allows it to do, bad buffers,
panics of the caller's callbacks and any return value included; `Outcome` is the
order of checks after the call.

**ModelCache.**  A file is its state: absent, corrupt, correct but not yet on the
disk, correct.  `CheckNext`, `CheckMissing` and `CheckDone` are the unlocked
verification, one asset at a time; `Lock` waits; `ScanNext` to `Persist` are the
locked loop: verify again, download to a temporary file, verify, sync, rename.
`Fail` and `Crash` may happen at every step, `PowerLoss` undoes what had not
reached the disk.

**AnnotationBank.**  Every await of `save` that touches a file is a step: open
the lock file exclusively, read the record, copy it to the backup (reviews only),
rename the new one into place, unlink the lock.  A step may fail; the process may
die and leave the lock, which only the operator removes, after the save is over.
A client has an intent (operation id, content, the revision he looked at) and may
send it again.

**VoiceRegistry.**  A call of `promote_once` locks the registry (`LockRegistry`),
decides inside the closure of `edit` (`Replay`, `UnknownVoice`, `Reuse`,
`MakeDirectory`; the four are exclusive and exhaustive), fills the directory,
saves the registry atomically and frees the lock.  `Die` may end it at every
step: a failed write, a signal, the 15 seconds the service waits.  The registry
file, its lock and its atomic replacement belong to the external crate
voqx-core, and are modelled from how `promote_once` uses them.

**ReusableVoice.**  A request of a service is a record with a place; requests
interleave at awaits.  `Begin` is the route up to `saving=true`, `Finish` its
`finally`.  `StartPromotion` makes a call of `VoiceRegistry` with the draft's id
as its operation, `PromotionEnds` takes its answer, `CommitDraft` enters the voice
in the draft.  `Start`, `Stop` and `Exit` are the life of a service (`server.ts:91-94`):
after `Stop`, which is the SIGTERM that removes the lock, its requests go on beside
those of the next service, until `Exit` ends them and forgets its flag, but not the
calls they had made: an orphan runs on beside the retry.  Any service may be up with
any other; which of them the lock file admits is in `Previews`.  A draft's `by` and
`among` are history: which service made it, and which were saving then.
`CommandLine` is `spqx lab save` by hand.

**NativePipeline.**  A synthesis is one call of one entry point (`Call` says which,
with or without a reference, a vocoder, a callback).  `Feed` is a step of the loop:
what the talker is given next, and what its caches hold after it.  `Vocode` is a
batch: each layer steps with what it remembers.  Numbers are replaced by where they
come from: a sample of the vocoder is the places it was made of, a key what it was
made from and the place it was turned to, a hidden state what it saw and how far
away, a logit an integer on a scale on which the penalty is exact.  Weights,
channels and whatever treats each place by itself (norms, projections, activations)
are left out.  The stages of the vocoder are checked one by one, each fed with the
frames; in the code they are chained, and each gets the batches of the one before
it.  So chaining them adds nothing, as long as a stage gives as many samples for a
batch as for those places in the whole, and that is part of what is compared.

**Say.**  `CommandStep` is the command: attempts, engine callbacks, the verdict, the
file, the end; `Play` is the device thread, which takes frames from the channel.
The engine is that of `GgmlStream`, whose actions are steps of the command.

**VoiceInstrument.**  One command at a time, but before each of its looks at the
model files or the recording somebody may replace them (`Replace...`), and back.
`slipped` and `flickered` are history: a replacement fell between two looks.

**VoiceLibrary.**  Every creation, write and removal of one of the three files is a
step; commands run beside each other and may die between any two.  `exposed` is
history: two commands overlapped, or an `add --force` did not end.

**Previews.**  `OpenLock` to `SignLock` are the takeover of `service.lock`, `Load` to
`Die` the life of a service, `Post` the route, `SaveQueued` to `Finish` the steps of
`perform` between any two awaits that another service or a death could fall
between.  A renderer is a process of its own and outlives its service
(`OrphanEnds`); a reservation lapses by itself (`Expire`).

**SpeechApi.**  A text is a sequence of bytes, because the chunker cuts by bytes and a
cut inside a character is a panic.  One request is followed; `OtherLocks` and
`OtherUnlocks` are all others.  A piece is where it is in the text (`from`, `to`) and
whether the chunker added a comma, so that "says the whole text" is about places and
not about characters.  The chunker's loops (over the sentences, and over a sentence
that is too long) are one operator, `Loop`: at each place of a span what comes out
there and which place is next, a recursive function on the places.

**AudioFormats.**  A sample is the set of the engine's samples that it is mixed of;
what is played slower or faster, or brought to another rate, is interpolated between
two of them, and silence is made of none.

**Selection, Gate, AudioEncoder, Sampler, AudioFormats** are operators without
state.  What is said of them is a part of an invariant of the module they belong
to, over every input within the bounds.

## 3. What is checked

Twelve runs.  Eight show that properties hold; four each show one text of the
repository contradicted by the code (section 6).

| run | states | what it shows |
|---|---|---|
| `worker` | 933,869 | every request gets one final frame, in order (`ImplementsService`), a cancellation read in time is honoured (`CancelHonoured`), at most one callback's blocks follow it (`StaleAudioBounded`), nothing is flushed after a refusal (`NoAudioOnceRefused`), all requests are answered also after a shutdown (`EveryRequestAnswered`), the worker ends (`ShutdownEnds`) |
| `native_stream` | 67,124 | no frame is decoded twice or out of order, none is missing at the end (`EachFrameOnce`); the batches' audio is that of one decoding (`DecodedAsWhole`); the text is fed once, two ways to a prompt agree, the reference is heard whole (`PromptIsWhole`); the networks see the positions they should (`TalkerSeesAll`); a synthesis can end and speaks no special code (`SamplesSpeechOrEnd`); the loop is an `Engine` |
| `command_line` | 681,200 | success means whole (`SuccessIsWhole`), said, written, played and audible (`SuccessIsTrue`); a consonant survives the gate (`GateOnlyCutsClicks`); a saved voice is the auditioned one (`VoiceIsAudition`), and names what it was made of (`CustodyIsTrue`); a recording goes with its own words (`PairIsOne`); what is loaded was asked for (`LoadedAsAsked`); nobody's file is replaced (`NothingReplaced`); commands end (`CommandEnds`); the portable engine is an `Engine` |
| `speech_output` | 881,824 | no sample is lost or doubled and only silence is dropped (`NothingLost`); the verdict on the capped tail is right up to one measuring block (`VerdictIsSound`); an answer of the API without an error says the whole text, in pieces that are short enough, and no format or speed loses a sample (`NothingUnsaid`) |
| `model_cache` | 74,065 | returned snapshots are complete, one process downloads and nothing is fetched twice, good files stay, every call ends |
| `annotations` | 571,966 | no blind overwrite, saved means written, a retry is acknowledged, the backup is the predecessor |
| `reusable_voice` | 408,870 | one voice for each operation (`OneVoicePerOperation`), namesakes only where saves of two services cross (`NamesakesCross`), promoted drafts load (`PromotedIsUsable`), each service's flag is taken back (`SavingEnds`) |
| `previews` | 385,340 | no day exceeds its budget while services follow each other (`BudgetKept`), ready means stored and released (`ReadyIsBacked`), a preview makes room for the next (`SlotFreed`) |

The bounds, and why they reach the interesting cases:

* `worker`: 2 ids, 3 frames read, 2 callbacks of at most 2 blocks, 2 failed
  writes.  Two requests with a cancellation of the first, of the second, or of
  the same id used twice; a cancellation in the middle of a push; a failed write
  followed by a failed ERROR frame.
* `native_stream`: caps up to 7, batches of 0 to 4, texts of 0 to 4 tokens, with 2
  frames for a token and a floor of 3: caps by the caller, by the floor and by the
  text, with full and short last batches.  The code's 6 and 75 change only where
  those three cross.  Kernels with and without dilation, overlaps as long as the
  stride and shorter, a key store that grows by less, as much and more than a batch
  and off the table of rotations, warm frames of a reference.  Recordings of 1 to
  40 samples with a frame every 12, through an odd and an even stride.  Logits on
  five levels over five codes, and every top-k that cuts nothing, something or
  nearly everything.
* `command_line`: three scenes that share no state, checked in one run.  Speaking:
  caps up to 3, batches of 1 and 2, two attempts, a stop, a failure and a foreign
  file at every point.  The gate: every chunk of up to 6 blocks.  Freezing: four
  models, two recordings, two vectors in a bank, a model and a recording replaced
  and put back between any two looks.  The library: two users and four commands,
  enough for an add that dies, a removal, another add and a reading.
* `previews`: 2 services on one directory, 2 previews, one for a day, 2 days: the
  budget runs out, a service dies after it was counted, a second one takes over.
* `speech_output`: two scenes that share no state, checked in one run.  The worker:
  utterances of up to 9 samples in chunks of up to 3, blocks of 3, a tail of 6, a
  preroll of 2, measuring blocks of 2: chunks shorter and longer than what a block
  lacks, an utterance longer than the tail, measuring blocks that do not line up with
  blocks.  The API: every text of up to 5 characters over a letter, a wide character, a
  space, a comma and a full stop, in pieces of 2 and 3 bytes: every place a cut can
  fall.  Two pieces of up to 5 samples, six speeds, six formats.
* `model_cache`: 2 processes with 2 calls each, 2 assets, 1 power loss, any files
  to begin with.
* `annotations`: 2 clients, 2 contents, 2 operations, 3 saves: two intents, and a
  retry of either before or after the other is carried out.
* `reusable_voice`: 2 auditions, 1 name, 1 failure (a death of a call or a failed
  write), and three saves through one service, of which one may be by hand, or a save
  through each of two services, after or beside each other.  One name makes every two
  saves compete for it; a save, its retry and a third are what it takes to make a second
  voice, and two services with a save each what it takes for a namesake.

Clients and contents of `annotations` are symmetric; no run that checks a liveness
property uses symmetry.  No run switches deadlock checking off: where a system may
rest, its specification has an action that says so.

Not obvious, and decided while modelling: `EveryRequestAnswered` is stated for
all requests together, because it means the same as one property for each and the
number of frames is bounded; the verdict is compared "up to one block of
measure", because the code measures the tail in blocks from its own start, not
from the utterance's.

## 4. Fairness

* `Worker`: weak fairness of the serving thread's step.  It waits for nobody but the
  channel, and the mutex is held for one operation on a set.  It is assumed that the
  controller goes on draining the worker's output, or has closed it: a write to a full
  pipe that nobody reads would wait for ever.  Nothing is assumed of what the
  controller sends or of the reader, which may read nothing, and failing writes are not
  forced.
* `ModelCache`: weak fairness of each process's step.  Reads and downloads have
  deadlines in the code, so a process that does not wait for the lock goes on; to
  be handed the lock is not assumed when another holds it.
* `ReusableVoice`: weak fairness of each request of a service that lives and of each
  registry call.  A request waits for its call, which either ends or is killed after 15 s; the model
  does not need the time-out for `SavingEnds`, and assumes nothing of it.
* `Say`: weak fairness of the command, which includes the engine (the cap ends it,
  whatever the model does), and of the device thread, which takes a chunk whenever
  there is one: it is assumed that the audio device goes on playing.  That another
  process creates a file is not forced.
* `Previews`: weak fairness of each service's `perform`.  Every await in it has a time
  limit in the code: the commands that reserve and release, the renderer.  That
  a service lives is not assumed: a dead one has no preview.
* `AnnotationBank`, `NativePipeline`, `PcmStreamer`, `SpeechApi`, `VoiceInstrument`,
  `VoiceLibrary`: no liveness property, no fairness.  A dead save blocks an audition until the operator acts, by design.

## 5. What is proved

TLAPS checks the following for every value of the constants, under assumptions
named in the modules that declare them.  Most say what kind of thing a constant is:
bounds are natural numbers, "no id", "no process" and so on are not ids or
processes, an engine's floor, kernels and strides are not zero.  A few say more:

* `ReusableVoice`: the bound on calls is no smaller than what the requests and the
  command line can make.
* `VoiceInstrument`: the scope that is written into a vector tells models apart
  (it contains their hashes), and there is a recording.
* `UpsampleAssumption` (`StreamingVocoder`): the upsampling kernels are as long as
  their strides, which is so in the weights the program loads.  No code compares them;
  `decode_streaming` keeps no overflow for these stages and would lose it.
* `EncoderAssumption` (`AudioEncoder`): the last convolution's kernel is no shorter than
  its stride, as in the weights the program loads; a shorter one would skip samples.
* `FormatAssumption` (`AudioFormats`): the formats' rates (44.1 and 48 kHz) are no lower
  than the engine's 24 kHz; resampling to a lower one drops samples.
* `SpeechAssumption` (`SpeechApi`): the limits of the chunker are not zero, and texts
  are sequences.
* `MaskAssumption` (`Sampler`): logits are far smaller than the mask of -1e9.  A
  larger one would make a masked code the better choice.

| module | theorems | the inductive invariant, and why it is needed |
|---|---|---|
| `WorkerProofs` | `TypeCorrect`, `CancelIsHonoured`, `StaleAudioIsBounded`, `RefusedIsSilent`, `WorkerImplementsService` | `WireInv`: which reply the last frame on the wire belongs to, place by place. `ChannelInv`: the channel holds the requests after the current one, in order, and the shutdown last; without it nothing says that the next request taken is the next to be answered. `CancelInv`: a cancellation that is due is still in the set or already with the engine, and a halted engine reports "cancelled" before the last check. |
| `SpeechOutputProofs` | `TypeCorrect`, `NoSampleLost`, `VerdictsAreSound` | `FlowInv`: what was written and what waits is the input from the first audible chunk on; `BlockInv` and `StartInv`: only full blocks are written, and nothing before the utterance has started; `TailInv`: the tail is the end of the output, as much of it as the cap allows; `JudgeInv`: a verdict was read off the tail as it is. |
| | `NothingIsUnsaid` | `ApiInv`: from the first lock on the pieces are those of the request and none is a panic (`Answered`), what was sent is them or errors in their places (`InOrder`), and a request is done when there are as many of the one as of the other (`Counted`). That the pieces say the text has no invariant: `SaysWithin` says what a list of pieces says of a part of the text, and is shown for each piece, for a loop that goes on (`LoopSays`), for a long sentence, for all sentences and for the text. |
| | `SoundIsAlwaysKept` | No invariant: each sample is heard in one that was interpolated at it or just before it (`AtEach`), later ones are taken from later places and never mix in less (`AtGrows`), and a quotient of a sum is at most one more than the sum of the quotients. |
| `NativePipelineProofs` | `TypeCorrect`, `FramesOnce`, `LoopImplementsEngine`, `TalkerHearsAll`, `CanAlwaysEnd`, `DecodesAsWhole`, `PromptsAreWhole`, `PipelineIsSafe` | Of the loop, `FrameInv`: the decoded frames are 1..n, and as long as the caller wants more the batch continues them up to the last frame generated; `ControlInv`: a refusal is what is reported. Of the talker, `TalkerInv`: the cache holds the keys of all that was fed, in order, each rotated by its place (`Holds`, `Keyed`), also when it has grown; the passes of the predictor over one frame are an induction (`Reached`). Of the sampler no invariant: `EndCanBeReached` and `PenalizedOnce` are about any logits and codes. Of the vocoder, `VocInv`: each layer remembers the inputs that it still looks back on (`RemembersAll`) and has given what one decoding gives (`AudioIs`); one lemma for each kind of layer (`...Continues`) says that a batch keeps this, `BagsMeet` that the overlaps meet with the carried bias once for each border. Of the prompt, `PromptInv`: what was fed has the `Shaped` form, words from one place on and nothing to say behind them, frames from another place on, and the words are as much of the text as has had its turn; each step either adds the next word or, when all are said, padding. That the cached prompt is the other one, and where each part of a prompt is, are equations of sequences. Of the encoder, `Reaches`: after each layer a frame has heard its own step of the recording, perhaps something before it and nothing behind; `ReachesAll` behind the transformer; the lengths are quotients rounded up. |
| `CommandLineProofs` | `GgmlTypeCorrect`, `GgmlSuccessIsWhole`, `GgmlImplementsEngine` | `CallInv`: while the library runs no callback has said stop, and only one of them ever does; `EndInv`: an "ok" that nobody asked for means the end of speech or the cap. |
| | `SuccessHasEverything`, `ForeignFileStays` | `KeptInv`: what is kept is what was heard, and all of that was sent to the device; `SpeechInv`: behind the speech a candidate was valid, and behind the device its channel is empty; `FileInv`: a file that is being written is this command's, and then holds what was kept, trimmed. |
| | `GateCutsClicks` | No invariant but an induction over the blocks of a chunk, from the last down: the search finds the first speech from every block on that it comes to (`SearchFinds`), and the loop cuts what lies from there on (`LoopCuts`). |
| | `CustodyIsKept`, `VoiceStaysAudition` | Of every vector and context, wherever it is kept, which model and recording it was made of (`ExportsTrue`, `DraftsTrue`, `RegistryTrue`), and of the running command, what it has read, at each of its places (`SessionTrue`, `ScopeTrue`, `JobTrue`): what is hashed before a replacement and used after it is where custody could break. |
| | `PartsBelongTogether` | `Sheltered`: while commands do not overlap, a writer is alone, the files that an add has passed are its own or gone, and the files are consistent whenever no add fills the directory, also behind one that died. |
| | `SelectionIsExact`, `CommandLineIsSafe` | Selection has no state. The whole command line implies the specification of each of its parts, so that their theorems hold of it. |
| `ModelCacheProofs` | `TypeCorrect`, `SnapshotIsComplete`, `DownloadsExclude`, `NothingFetchedTwice`, `CorrectAssetsStay` | The process in the locked part holds the lock; what a process has walked past is correct; a file about to be renamed is verified and synced; an asset that is not there was lost as often as it was fetched. |
| `AnnotationBankProofs` | `TypeCorrect`, `NothingOverwrittenBlindly`, `SavedWasWritten`, `RetriesAreAcknowledged`, `BackupsArePredecessors` | The record is the last of the log; a save past its check decides on the record that is still there; an intent has one place in the log (its expected revision plus one), whichever call carries it and however often; a review about to be replaced has been copied, so that the backup is the record's predecessor or the record itself. |
| `ReusableVoiceProofs` | `TypeCorrect`, `OneVoice`, `OneVoiceOfService`, `NamesakesOnlyCross`, `PromotedVoicesLoad` | Of the registry: only the lock's holder has decided something that it has not entered, and its decision still holds. Of a service: only one of its requests is under way, and its flag is set (`OneAtATime`); once a request has looked at the names, a draft of its name is another service's, made while this one was saving, and its call is about its draft (`Knows`). Between them (`Entered`): a call that succeeds for a new voice and an operation has entered both. |
| `PreviewsProofs` | `BudgetIsKept`, `ReadyHasItsFiles` | `Orderly`: later days than the file's have no rendering, what the file says of its day covers those of that day, a service that is up is never behind the file and one about to render has already counted it there; without the last, a failed write of the budget would leave the file behind. `ReadyInv`: a job has one service at most, a status "ready" on disk is final, and a rendering that reaches its check without an error has released its reservation. |

`OneVoice` is about `promote_once` alone under any callers; the service is then
one of them.  The three refinement theorems are proved in the usual way: initial
states map to initial states, and each step maps to a step or leaves the abstract
variables alone.

Only model-checked:

* all liveness (`EveryRequestAnswered`, `ShutdownEnds`, `EveryCallEnds`,
  `SavingEnds`, `SlotFreed`, `CommandEnds`), which needs ENABLED and fairness,
  beyond the prover;
* the findings of section 6, which are counterexamples.

Recursive operators cannot be used where something is proved, and the library's
induction theorems take an operator as a parameter, which no installed prover can
instantiate.  Where a result needs induction over data all the same, it is done with
sets: a set of numbers has a least element (`Smallest`, from the well-founded order
of finite sets), so a set that holds 0 and the successor of each of its members has
all of them (`Reached`), and likewise downward (`Descended`).  That a recursive
function exists is shown the same way, on longer and longer intervals.

## 6. Where code and text disagree

Four disagreements are shown by a run:

* `pcm_preroll`: `PcmStreamer::push` drops a quiet chunk whole and cuts the preroll
  only out of the chunk with the first audible sample.  If that sample is near the
  start of its chunk, the "generous preroll" of the comment (`worker.rs:320-322`)
  is not there.
* `pcm_silence`: an utterance without a single audible sample leaves an empty tail,
  and is answered with AUDIO_DONE and no audio, where the comment
  (`worker.rs:245-247`) says that a collapsed utterance must not be treated as
  complete.
* `voice_operation`: ADR 0002 says that reusing an operation id for different
  contents fails.  A call that finds its reference under a given voice
  (`bundles.rs:264`) succeeds without recording its operation id, and the same id
  then succeeds for another bundle or voice.  The voice lab itself never gives a
  voice, and `OneVoicePerOperation` and `PromotedIsUsable` hold.
* `preview_budget`: `demos/voice-lab/README.md:37` promises "Single flight" and a
  number of previews for a day, without a condition.  SIGTERM removes the lock twelve
  seconds before the process ends (`server.ts:94`), and two services that both find a
  stale lock can both come up (`server.ts:33`): each then counts against its own copy
  of the budget, and renders beside the other.  `BudgetKept` has what remains:
  services that follow each other keep it.

Others were met while modelling.  The models follow the code:

* `vocoder.rs:745` speaks of a sliding-window mask; the mask is plainly causal and
  `sliding_window` is not used.
* `inference.rs:3210` calls the streaming loop behaviourally identical to the other
  one; a warm vocoder and the effective cap differ.
* The description of `generate_with_icl` (`inference.rs:2412`) has the reference's
  codes decoded in front of the new ones and cut off; the code decodes the new ones
  only.
* The chunker's limits are described as characters; the code counts bytes, and a cut
  inside a multi-byte character panics.

## 7. What is not modelled

Left out, with the reason:

* Arithmetic: what weights, norms and activations make of their inputs, the
  tensor backends, the Mel front end and the speaker encoder, `resample`'s filter.
  Values are out of a model checker's reach; which inputs each result is made of is
  modelled where places can be confused.  `AudioFormats` uses exact places where the
  code has floats.
* The tokenizer: a vocabulary and merges without control to check.
* Configuration, types, weights, schema checks, the loading of libraries: pure
  input and output.  What is chosen from a configuration is in `Selection`.
* The gpui services experiment: a prototype beside the product that nothing uses.
* Wording, logging, pages and static files.  The review page (`public/curation.js`)
  keeps a draft that a refresh may overwrite, or carry over to other audio of the same
  candidate: what the server does with what it is sent is modelled, the page is not.
* Of the worker: torn frames (one counts as not written), `normalize_language`, the
  one-shot synthesis.  Of the voice lab: previews that are not native.

What the models have, but what no property forbids, because no text of the
repository says that it should not happen:

* The worker's channel is unbounded, and a mark for an unknown request id is never
  removed.  A request whose header was written and whose payload failed is followed
  by an ERROR frame that the controller reads as payload.
* A killed download leaves its temporary file, a save that dies its lock file, a
  promotion that dies its directory, which then blocks a retry for the same voice
  and bundle until an operator removes it.
* A retry compares the name as typed with names that were composed: a decomposed
  name is taken for another one.
* Two services beside each other may make two drafts of one name (`NamesakesCross`
  says when); that a name is taken is only said to whoever is refused
  (`core.ts:125`).  A retry then finds the newer of the two, and for the older one's
  audition is refused as a conflict.
* If the first or the last write of a preview's status fails, the slot stays taken
  until the service is restarted: `SlotFreed` excepts it as `stuck`.  A lock file without a pid reads as a live
  owner.
* A panic of an engine poisons the API's mutex: every later request fails until a
  restart.
* Without a vocoder the native engine skips every batch, and the entry points that
  return a whole utterance return a placeholder.  They also return audio that was
  cut at the cap as a success.
* In streaming, the bias of an upsampling convolution is counted twice at the start
  of each later batch (`vocoder.rs:495-518`), and the upsampling blocks are stepped
  without a state, which is right only as long as kernel and stride are equal.
  `KVCache::reset` is not called.
* `say` without `--out` does not look whether the audio collapsed, and after an error
  returns without waiting for the device.  It speaks in the language of the
  configuration, not of a bundle; `--seed` with a voice whose reference is plain is
  ignored.
* Adds of one name that overlap, or an `add --force` that dies, may leave the
  recording of one voice with the words of another: `PairIsOne` excepts them as
  `exposed`.
* `voices add` looks and then creates; a design whose write fails leaves a partial
  file that blocks the retry.
* An exported vector's scope is hashed at the export, not when the model was loaded,
  and a bundle's is checked before the model is loaded: what may be replaced in
  between is in `VoiceInstrument`, as `slipped` and `flickered`.
* Under GGML a design path that is a directory is completed with the name of the Base
  talker, and refused.  The native cloning loader does not look at the kind of its
  checkpoint.
* `resample` does not flush what its FFT holds back: a reference may lose a few
  milliseconds at its end.  If a configuration's `sample_rate_hz` is not the engine's
  24 kHz, the output may too, at every border of a batch, because `say` resamples each
  chunk by itself (`engine.rs:211`); `Say` takes a chunk as it is.

## 8. Plan

Done: the worker with its abstract service and engine contract; both engines; samples
and verdict; model cache; annotation banks; reusable voices; previews; prompt, talker,
sampler, encoder and streaming vocoder behind the native entry points; API; the
commands with playback, library and frozen voices; selection; proofs of every safety
and action property that a run checks, and of the three refinements.

Left, in order of importance:

1. The review page's draft against refreshes (`public/curation.js`), on top of
   `AnnotationBank`.
2. The hand-off of the gpui experiment, should it become a product.
