-------------------------------- MODULE Say ---------------------------------
(***************************************************************************)
(* The commands that speak: `spqx say` (crates/spqx-cli/src/say.rs) and    *)
(* `spqx design` (design.rs), on `stream_session` of engine.rs, the        *)
(* portable engine of GgmlStream.tla and the output device of playback.rs. *)
(*                                                                         *)
(* A command plays the audio while it is made, or writes it to a file, or  *)
(* both.  `design` asks for up to three samples of a voice and keeps the   *)
(* first that is complete and audible; it may never replace a file.  The   *)
(* output device is a thread that takes chunks from a channel.  Meanwhile  *)
(* another process may create a file of the same name.                     *)
(*                                                                         *)
(* A frame is speech, noise or silence, or it is out of range ("clipped"). *)
(* Some other caller of the engine is the third kind of command.           *)
(***************************************************************************)
EXTENDS GgmlStream, Gate

CONSTANTS MaxAttempts,  \* seeds tried when none is given, 3 in the code
          MAX_TRAILING, \* frames of tail that are a collapse, 3 s in the code
          KEEP          \* frames of tail that are kept, 0.5 s in the code

ASSUME SayAssumption == /\ MaxAttempts \in Nat \ {0}
                        /\ KEEP \in Nat /\ MAX_TRAILING \in Nat /\ KEEP < MAX_TRAILING

VARIABLES command,   \* what was asked for
          at,        \* where the command is
          outcome,   \* its exit status
          attempt,   \* seeds tried, this one included
          spoken,    \* history: the frames of this attempt, as they were delivered
          kept,      \* wav_samples, or the samples of the candidate
          broken,    \* stream_error
          missed,    \* history: a frame was delivered and not sent to the device
          channel,   \* frames in the channel, that were not played yet
          sending,   \* tx has not been dropped
          file,      \* what is at the path of --out
          written    \* what this command wrote there

device == <<channel, sending>>
disk == <<file, written>>
audio == <<attempt, spoken, kept, broken, missed>>
svars == <<command, at, outcome, audio, device, disk>>
allvars == <<vars, svars>>

Frame == {"speech", "noise", "silence", "clipped"}
Command == [kind : {"say", "design", "other"}, play : BOOLEAN, out : BOOLEAN,
            seeded : BOOLEAN]

SInit == /\ Init
         /\ command \in Command
         /\ command.kind # "design" => ~command.seeded
         /\ command.kind = "other" => ~command.play /\ ~command.out
         /\ at = IF command.kind = "other" THEN "elsewhere" ELSE "start"
         /\ outcome = "running"
         /\ attempt = 1 /\ spoken = <<>> /\ kept = <<>> /\ broken = FALSE /\ missed = FALSE
         /\ channel = 0 /\ sending = FALSE
         /\ file \in {"absent", "foreign"} /\ written = <<>>

Fails == at' = "done" /\ outcome' = "failed"
-----------------------------------------------------------------------------
(* The command.                                                            *)

\* An empty text, a voice that cannot be resolved, no device; for design, a path
\* that is taken, or nowhere to put the audio.
Refuse ==
  /\ at = "start"
  /\ Fails
  /\ UNCHANGED <<vars, command, audio, device, disk>>

Start ==
  /\ at = "start"
  /\ command.kind = "design" => /\ ~(command.out /\ file # "absent")
                                /\ command.play \/ command.out
  /\ sending' = command.play
  /\ at' = "load"
  /\ UNCHANGED <<vars, command, outcome, audio, channel, disk>>

\* design loads a session for every attempt.
Load ==
  /\ at = "load"
  /\ at' = "speak"
  /\ UNCHANGED <<vars, command, outcome, audio, device, disk>>

LoadFails ==
  /\ at = "load"
  /\ Fails
  /\ UNCHANGED <<vars, command, audio, device, disk>>

\* The audio callback takes a chunk: first it is kept, then sent to the device.
Takes(chunk) ==
  /\ Chunk(Len(chunk)) /\ lib' = "running"
  /\ spoken' = spoken \o chunk
  /\ kept' = IF command.kind = "design" \/ command.out THEN kept \o chunk ELSE kept
  /\ missed' = (missed \/ ~sending)
  /\ channel' = IF sending THEN channel + Len(chunk) ELSE channel
  /\ UNCHANGED <<attempt, broken, sending>>

\* The chunk cannot be resampled: it is refused, and the error is remembered.
\* design is made at the rate of the engine.
CannotResample(n) ==
  /\ command.kind = "say"
  /\ Chunk(n) /\ lib' = "asked to stop" /\ stopped'
  /\ broken' = TRUE
  /\ UNCHANGED <<attempt, spoken, kept, missed, device>>

EngineStep == BadChunk \/ EndOfSpeech \/ HitCap \/ Obey \/ Break \/ Classify

Speak ==
  /\ at = "speak"
  /\ \/ \E n \in 1..MaxBatch : \E chunk \in [1..n -> Frame] : Takes(chunk)
     \/ \E n \in 1..MaxBatch : CannotResample(n)
     \/ EngineStep /\ UNCHANGED <<audio, device>>
  /\ UNCHANGED <<command, at, outcome, disk>>

\* Session::synthesize returned an error, or the callback had one.
SpeechFails ==
  /\ at = "speak" /\ result # "none"
  /\ result = "failed" \/ broken
  /\ Fails
  /\ UNCHANGED <<vars, command, audio, device, disk>>

eos_reached == result = "eos"

ValidCandidate == /\ eos_reached
                  /\ \A i \in DOMAIN kept : kept[i] # "clipped"
                  /\ \E i \in DOMAIN kept : kept[i] # "silence"

\* A definition named Bug... is never used: put in the place of the one after it,
\* it shows which property would notice that mistake.
BugHangsUp == UNCHANGED sending
\* drop(tx): only then does the device come to an end of the channel.
HangsUp == sending' = FALSE

Spoke ==
  /\ at = "speak" /\ result \notin {"none", "failed"} /\ ~broken
  /\ command.kind = "design" => ValidCandidate
  /\ at' = "drain" /\ HangsUp
  /\ UNCHANGED <<vars, command, outcome, audio, channel, disk>>

LastAttempt == command.seeded \/ attempt = MaxAttempts

\* A rejected candidate: the next seed, with samples of its own.
Reject ==
  /\ at = "speak" /\ result \notin {"none", "failed"}
  /\ command.kind = "design" /\ ~ValidCandidate
  /\ IF LastAttempt
     THEN /\ Fails
          /\ UNCHANGED <<vars, audio>>
     ELSE /\ Again /\ max' = max
          /\ at' = "load"
          /\ attempt' = attempt + 1
          /\ spoken' = <<>> /\ kept' = <<>>
          /\ UNCHANGED <<outcome, broken, missed>>
  /\ UNCHANGED <<command, device, disk>>

Drained == channel = 0 /\ ~sending

\* player.wait(): the device has reached the end of the channel.
Drain ==
  /\ at = "drain" /\ Drained
  /\ at' = IF command.out THEN "open" ELSE "verdict"
  /\ UNCHANGED <<vars, command, outcome, audio, device, disk>>

\* say replaces what is there; design creates the file or fails.
BugMayOpen == TRUE
MayOpen == command.kind = "say" \/ file = "absent"

Open ==
  /\ at = "open"
  /\ IF MayOpen THEN file' = "partial" /\ at' = "write" /\ UNCHANGED outcome
                ELSE Fails /\ UNCHANGED file
  /\ UNCHANGED <<vars, command, audio, device, written>>

SpeechFrames == {"speech", "clipped"}
TailOf(s) == TrailingNonspeech(SpeechFrames, s)
Trimmed == IF command.kind = "say" THEN SubSeq(kept, 1, TrimmedTo(SpeechFrames, kept, KEEP))
                                   ELSE kept

Write ==
  /\ at = "write"
  /\ file' = "ours" /\ written' = Trimmed
  /\ at' = "verdict"
  /\ UNCHANGED <<vars, command, outcome, audio, device>>

\* The directory, the file or the disk fails; what was begun stays.
WriteFails ==
  /\ at \in {"open", "write"}
  /\ Fails
  /\ UNCHANGED <<vars, command, audio, device, disk>>

\* The exit status of say says whether the speech was whole; a candidate is.
BugIsWhole == TailOf(kept) <= MAX_TRAILING
IsWhole == eos_reached /\ TailOf(kept) <= MAX_TRAILING

Verdict ==
  /\ at = "verdict"
  /\ at' = "done"
  /\ outcome' = IF command.kind = "design" \/ IsWhole THEN "ok" ELSE "failed"
  /\ UNCHANGED <<vars, command, audio, device, disk>>

CommandStep == \/ Refuse \/ Start \/ Load \/ LoadFails \/ Speak \/ SpeechFails \/ Spoke
               \/ Reject \/ Drain \/ Open \/ Write \/ WriteFails \/ Verdict
-----------------------------------------------------------------------------
\* The device plays what it takes; with the process, it ends.
Play ==
  /\ at # "done" /\ channel > 0
  /\ channel' = channel - 1
  /\ UNCHANGED <<vars, command, at, outcome, audio, sending, disk>>

\* Another process creates a file at that path.
OtherCreates ==
  /\ at \notin {"done", "elsewhere"} /\ file = "absent"
  /\ file' = "foreign"
  /\ UNCHANGED <<vars, command, at, outcome, audio, device, written>>

\* The engine in the hands of another caller.
Elsewhere == at = "elsewhere" /\ Next /\ UNCHANGED svars

Done == at = "done" /\ UNCHANGED allvars

SNext == CommandStep \/ Play \/ OtherCreates \/ Elsewhere \/ Done

SaySpec == /\ SInit /\ [][SNext]_allvars
           /\ WF_allvars(CommandStep) /\ WF_allvars(Play)
-----------------------------------------------------------------------------
\* Who is told that all went well has the speech, the whole speech, and nothing
\* else: it reached its end, in the file is every frame of this attempt up to the
\* last word, everything was sent to the device, rejected samples included, and
\* was played, and a candidate is nothing but itself, audible and in range.
SuccessIsTrue ==
  outcome = "ok" =>
    /\ eos_reached
    /\ command.out =>
         /\ file = "ours"
         /\ \A i \in DOMAIN spoken : spoken[i] \in SpeechFrames => i <= Len(written)
         /\ written = SubSeq(spoken, 1, Len(written))
         /\ command.kind = "say" => TailOf(spoken) <= MAX_TRAILING
    /\ command.play => ~missed /\ channel = 0
    /\ command.kind = "design" =>
         /\ command.out => written = spoken
         /\ \E i \in DOMAIN spoken : spoken[i] # "silence"
         /\ \A i \in DOMAIN spoken : spoken[i] # "clipped"

\* "Save the completed candidate WAV without overwriting an existing file", also
\* one that was created after the command had looked.
NothingReplaced ==
  [][command.kind = "design" /\ file = "foreign" => file' = "foreign"]_allvars

\* The command ends, whatever the engine makes of its attempts.
CommandEnds == command.kind # "other" => <>(at = "done")

\* The click gate, evaluated where the first chunk is taken.
GateOnlyCutsClicks == at = "speak" /\ Len(spoken) > 0 => OnlyClicksAreCut
=============================================================================
