---------------------------- MODULE VoiceLibrary ----------------------------
(***************************************************************************)
(* A named voice of the command line: `spqx voices add` and `rm` of        *)
(* crates/spqx-cli/src/voices.rs, and `resolve_reference` of engine.rs     *)
(* with the loading of the reference, as `say --voice` does it.            *)
(*                                                                         *)
(* A voice is a directory of three files, written in place and without a   *)
(* lock.  Commands run beside each other and may die between any two       *)
(* steps.  A file that is opened for writing is empty until it is written; *)
(* neither an empty transcript nor an empty recording is accepted.         *)
(*                                                                         *)
(* What a file holds is the number of the add it comes from.  `list` and   *)
(* `show` only read; confirming a removal takes no part in it.             *)
(***************************************************************************)
EXTENDS Naturals, FiniteSets

CONSTANTS User,       \* who runs commands
          MaxStarted  \* bound: commands

ASSUME LibraryAssumption == MaxStarted \in Nat

VARIABLES directory,  \* whether it is there
          content,    \* of its files
          step,       \* the command of each user
          begun,      \* commands begun, and the number of each add
          exposed     \* history: what may mix two adds has happened

lvars == <<directory, content, step, begun, exposed>>

File == {"wav", "txt", "toml"}
Absent == 0
Empty == MaxStarted + 1
Order == <<"wav", "txt", "toml">>

\* `mine` is the number of the add; `text` the one whose transcript a say has read,
\* `audio` the one whose recording.
Quiet == [at |-> "idle", force |-> FALSE, mine |-> 0, file |-> 1, text |-> 0, audio |-> 0]

LInit == /\ directory = FALSE
         /\ content = [f \in File |-> Absent]
         /\ step = [u \in User |-> Quiet]
         /\ begun = 0 /\ exposed = FALSE

Busy(u) == step[u].at # "idle"
Writing(u) == step[u].at \in {"make", "open", "write", "clear"}
To(u, where) == step' = [step EXCEPT ![u].at = where]
End(u) == step' = [step EXCEPT ![u] = Quiet]

\* A command that changes the voice begins beside another that uses it, or the
\* other way round.
Beside(u) == exposed' = (exposed \/ \E v \in User \ {u} : Busy(v))
BesideWriter(u) == exposed' = (exposed \/ \E v \in User \ {u} : Writing(v))
-----------------------------------------------------------------------------
(* add                                                                     *)

\* A definition named Bug... is never used: put in the place of the one after it,
\* it shows which property would notice that mistake.
BugRefused(force) == FALSE
Refused(force) == directory /\ ~force

\* The transcript and the samples are read before anything is written.
Add(u, force) ==
  /\ ~Busy(u) /\ begun < MaxStarted /\ ~Refused(force)
  /\ begun' = begun + 1
  /\ step' = [step EXCEPT ![u] = [Quiet EXCEPT !.at = "make", !.force = force,
                                               !.mine = begun + 1]]
  /\ Beside(u)
  /\ UNCHANGED <<directory, content>>

MakeDirectory(u) ==
  /\ step[u].at = "make"
  /\ directory' = TRUE
  /\ To(u, "open")
  /\ UNCHANGED <<content, begun, exposed>>

Target(u) == Order[step[u].file]

\* In a directory that was removed no file can be created.
OpenFile(u) ==
  /\ step[u].at = "open"
  /\ IF directory THEN /\ content' = [content EXCEPT ![Target(u)] = Empty]
                       /\ To(u, "write")
                  ELSE End(u) /\ UNCHANGED content
  /\ UNCHANGED <<directory, begun, exposed>>

\* What is written after the file was removed is lost.
WriteFile(u) ==
  /\ step[u].at = "write"
  /\ content' = IF content[Target(u)] = Absent THEN content
                ELSE [content EXCEPT ![Target(u)] = step[u].mine]
  /\ step' = [step EXCEPT ![u] =
                IF step[u].file = 3 THEN Quiet
                ELSE [step[u] EXCEPT !.at = "open", !.file = @ + 1]]
  /\ UNCHANGED <<directory, begun, exposed>>
-----------------------------------------------------------------------------
(* rm                                                                      *)

Remove(u) ==
  /\ ~Busy(u) /\ begun < MaxStarted /\ directory
  /\ begun' = begun + 1
  /\ To(u, "clear")
  /\ Beside(u)
  /\ UNCHANGED <<directory, content>>

\* remove_dir_all: file by file, in any order, then the directory.
RemoveFile(u) ==
  /\ step[u].at = "clear"
  /\ \E f \in File : /\ content[f] # Absent
                     /\ content' = [content EXCEPT ![f] = Absent]
  /\ UNCHANGED <<directory, step, begun, exposed>>

RemoveDirectory(u) ==
  /\ step[u].at = "clear" /\ \A f \in File : content[f] = Absent
  /\ directory' = FALSE
  /\ End(u)
  /\ UNCHANGED <<content, begun, exposed>>
-----------------------------------------------------------------------------
(* say                                                                     *)

\* Both files must be there.
Look(u) ==
  /\ ~Busy(u) /\ begun < MaxStarted
  /\ content["wav"] # Absent /\ content["txt"] # Absent
  /\ begun' = begun + 1
  /\ To(u, "text")
  /\ BesideWriter(u)
  /\ UNCHANGED <<directory, content>>

ReadText(u) ==
  /\ step[u].at = "text"
  /\ IF content["txt"] \in {Absent, Empty} THEN End(u)
     ELSE step' = [step EXCEPT ![u].at = "audio", ![u].text = content["txt"]]
  /\ UNCHANGED <<directory, content, begun, exposed>>

ReadAudio(u) ==
  /\ step[u].at = "audio"
  /\ IF content["wav"] \in {Absent, Empty} THEN End(u)
     ELSE step' = [step EXCEPT ![u].at = "said", ![u].audio = content["wav"]]
  /\ UNCHANGED <<directory, content, begun, exposed>>

Spoken(u) ==
  /\ step[u].at = "said"
  /\ End(u)
  /\ UNCHANGED <<directory, content, begun, exposed>>

\* The command dies, or fails to read or write.
Dies(u) ==
  /\ Busy(u)
  /\ End(u)
  /\ exposed' = (exposed \/ step[u].force)
  /\ UNCHANGED <<directory, content, begun>>

AtRest == /\ begun = MaxStarted /\ \A u \in User : ~Busy(u)
          /\ UNCHANGED lvars

LNext == \/ \E u \in User :
              \/ \E force \in BOOLEAN : Add(u, force)
              \/ MakeDirectory(u) \/ OpenFile(u) \/ WriteFile(u)
              \/ Remove(u) \/ RemoveFile(u) \/ RemoveDirectory(u)
              \/ Look(u) \/ ReadText(u) \/ ReadAudio(u) \/ Spoken(u) \/ Dies(u)
         \/ AtRest

LibrarySpec == LInit /\ [][LNext]_lvars
-----------------------------------------------------------------------------
\* What is cloned is a recording with its own transcript, also from a voice whose
\* add died half way, was removed, and added again: never is the recording of one
\* add spoken to the words of another, unless commands overlapped or an add that
\* was to replace a voice did not end.
PairIsOne ==
  \A u \in User : step[u].at = "said" /\ step[u].audio # step[u].text => exposed
=============================================================================
