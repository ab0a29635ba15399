--------------------------- MODULE VoiceRegistry ---------------------------
(***************************************************************************)
(* Saving an audition as a reusable voice: `promote_once` of               *)
(* crates/spqx-cli/src/bundles.rs, run by concurrent `spqx lab save`       *)
(* processes on one registry.                                              *)
(*                                                                         *)
(* The registry is a file that voqx-core edits under a lock and replaces   *)
(* atomically; beside it, each reference has a directory with its wave,    *)
(* its text and voice.json.  A call decides under the lock: its operation  *)
(* was carried out before, or its reference is there already, or it makes  *)
(* the directory, fills it, and enters the reference.  It may fail or be   *)
(* killed at every step; the directory then stays as it is.                *)
(*                                                                         *)
(* A voice is a number; voice 1 exists from the beginning.  A bundle       *)
(* stands for its contents, and so for its reference id, which is their    *)
(* hash.  A draft does not change, so reading it is no step of its own.    *)
(***************************************************************************)
EXTENDS Naturals

CONSTANTS Bundle,    \* auditions
          NoBundle,  \* of a call that was not made
          MaxCalls,  \* bound: calls of promote_once
          MaxOps,    \* bound: operation ids
          MaxFaults  \* bound: calls that die, and failures of the service

ASSUME RegistryAssumption == /\ MaxCalls \in Nat /\ MaxOps \in Nat
                             /\ MaxFaults \in Nat
                             /\ NoBundle \notin Bundle

VARIABLES voices,   \* the identities in the registry
          refs,     \* and their references
          made,     \* the reference directories that exist
          whole,    \* those with all three files
          lock,     \* the call that holds the registry lock, or 0
          fresh,    \* the next identity that will be created
          spawned,  \* calls made so far
          call,     \* each of them
          faults    \* failures so far

registry == <<voices, refs>>
directories == <<made, whole>>
rvars == <<registry, directories, lock, fresh, spawned, call, faults>>

Call == 1..MaxCalls
\* No operation id; a new voice.
None == 0
Reference == [voice : Nat, bundle : Bundle, op : Nat]
CallState == {"unused", "lock", "edit", "fill", "save", "print", "ok", "failed"}
Ended == {"unused", "ok", "failed"}
\* What it was asked to save, under which operation, for which voice; the voice
\* it decided on.
CallRecord == [pc : CallState, bundle : Bundle \union {NoBundle}, op : Nat,
               voice : Nat, id : Nat]

RInit == /\ voices = {1} /\ refs = {}
         /\ made = {} /\ whole = {}
         /\ lock = 0 /\ fresh = 2 /\ spawned = 0
         /\ call = [c \in Call |-> [pc |-> "unused", bundle |-> NoBundle,
                                    op |-> None, voice |-> None, id |-> None]]
         /\ faults = 0

Go(c, where) == call' = [call EXCEPT ![c].pc = where]
\* The closure of `edit` returned, or the call died: the lock is free again.
Leave(c, where) == /\ Go(c, where)
                   /\ lock' = IF lock = c THEN 0 ELSE lock
-----------------------------------------------------------------------------
Spawn(bundle, op, voice) ==
  /\ spawned < MaxCalls
  /\ spawned' = spawned + 1
  /\ call' = [call EXCEPT ![spawned + 1] =
                [pc |-> "lock", bundle |-> bundle, op |-> op, voice |-> voice,
                 id |-> None]]
  /\ UNCHANGED <<registry, directories, lock, fresh, faults>>

LockRegistry(c) ==
  /\ call[c].pc = "lock" /\ lock = 0
  /\ lock' = c
  /\ Go(c, "edit")
  /\ UNCHANGED <<registry, directories, fresh, spawned, faults>>

\* A definition named Bug... is never used: put in the place of the one after it,
\* it shows which property would notice that mistake.
BugSavedOperation(c) == {}
SavedOperation(c) == {r \in refs : r.op = call[c].op /\ r.op # None}

\* VoiceBundle::load of the directory of a reference.
Loads(voice, bundle) == <<voice, bundle>> \in whole

\* The call succeeds with a voice that has the reference already.
Found(c, voice) ==
  /\ call' = [call EXCEPT ![c].pc = "print", ![c].id = voice]
  /\ lock' = 0
  /\ UNCHANGED <<registry, directories, fresh, spawned, faults>>

Rejected(c) == /\ Leave(c, "failed")
               /\ UNCHANGED <<registry, directories, fresh, spawned, faults>>

\* The operation was carried out before: it must be the same in every respect.
Replay(c) ==
  /\ call[c].pc = "edit"
  /\ \E r \in SavedOperation(c) :
       IF /\ r.bundle = call[c].bundle
          /\ call[c].voice \in {None, r.voice}
          /\ Loads(r.voice, r.bundle)
       THEN Found(c, r.voice)
       ELSE Rejected(c)

\* The voice the call is about: the one asked for, which must exist, or a new one.
Known(c) == call[c].voice \in voices \union {None}
Target(c) == IF call[c].voice = None THEN fresh ELSE call[c].voice
HasReference(c) == \E r \in refs : r.voice = Target(c) /\ r.bundle = call[c].bundle

UnknownVoice(c) ==
  /\ call[c].pc = "edit" /\ SavedOperation(c) = {} /\ ~Known(c)
  /\ Rejected(c)

\* The voice has this reference, from another operation or from none.
Reuse(c) ==
  /\ call[c].pc = "edit" /\ SavedOperation(c) = {} /\ Known(c)
  /\ HasReference(c)
  /\ IF Loads(Target(c), call[c].bundle) THEN Found(c, Target(c))
                                         ELSE Rejected(c)

BugAfterCreate == "save"
AfterCreate == "fill"

CreateDir(dir) == made \union {dir}

\* create_dir fails if the directory is there, whoever left it.
MakeDirectory(c) ==
  /\ call[c].pc = "edit" /\ SavedOperation(c) = {} /\ Known(c)
  /\ ~HasReference(c)
  /\ IF <<Target(c), call[c].bundle>> \in made
     THEN Rejected(c)
     ELSE /\ made' = CreateDir(<<Target(c), call[c].bundle>>)
          /\ call' = [call EXCEPT ![c].pc = AfterCreate, ![c].id = Target(c)]
          /\ fresh' = IF call[c].voice = None THEN fresh + 1 ELSE fresh
          /\ UNCHANGED <<registry, whole, lock, spawned, faults>>

\* The manifest, voice.json, is written last.
FillDirectory(c) ==
  /\ call[c].pc = "fill"
  /\ whole' = whole \union {<<call[c].id, call[c].bundle>>}
  /\ Go(c, "save")
  /\ UNCHANGED <<registry, made, lock, fresh, spawned, faults>>

SaveRegistry(c) ==
  /\ call[c].pc = "save"
  /\ voices' = voices \union {call[c].id}
  /\ refs' = refs \union {[voice |-> call[c].id, bundle |-> call[c].bundle,
                           op |-> call[c].op]}
  /\ Leave(c, "print")
  /\ UNCHANGED <<directories, fresh, spawned, faults>>

Report(c) ==
  /\ call[c].pc = "print"
  /\ Go(c, "ok")
  /\ UNCHANGED <<registry, directories, lock, fresh, spawned, faults>>

\* A failed write, a full disk, or the end of the process: the operator's, or
\* the 15 seconds that the service waits.
Die(c) ==
  /\ call[c].pc \notin Ended /\ faults < MaxFaults
  /\ faults' = faults + 1
  /\ Leave(c, "failed")
  /\ UNCHANGED <<registry, directories, fresh, spawned>>

CallStep(c) == \/ LockRegistry(c) \/ Replay(c) \/ UnknownVoice(c) \/ Reuse(c)
               \/ MakeDirectory(c) \/ FillDirectory(c) \/ SaveRegistry(c)
               \/ Report(c)

Idle == (\A c \in Call : call[c].pc \in Ended) /\ UNCHANGED rvars

RNext == \/ \E b \in Bundle, op \in 0..MaxOps, v \in 0..fresh : Spawn(b, op, v)
         \/ \E c \in Call : CallStep(c) \/ Die(c)
         \/ Idle

RSpec == RInit /\ [][RNext]_rvars
-----------------------------------------------------------------------------
\* Every variable has its type; a directory is filled after it is made.
RegistryTypeOK ==
  /\ voices \subseteq Nat
  /\ refs \subseteq Reference
  /\ made \subseteq Nat \X Bundle /\ whole \subseteq made
  /\ lock \in {0} \union Call
  /\ fresh \in Nat
  /\ spawned \in 0..MaxCalls
  /\ call \in [Call -> CallRecord]
  /\ faults \in 0..MaxFaults

\* An operation makes one reference of one voice, however often it is retried,
\* killed or run twice at once: a retry never leaves the user with a second voice.
OneVoicePerOperation ==
  \A r, s \in refs : r.op = s.op /\ r.op # None => r = s

\* "Replay of the same operation must identify the same bundle and return the
\* existing id.  Reusing an operation for different contents fails." (ADR 0002):
\* all successes of one operation are about one bundle and one voice.
OperationIsOneVoice ==
  \A c, d \in Call :
    /\ call[c].pc = "ok" /\ call[d].pc = "ok"
    /\ call[c].op = call[d].op /\ call[c].op # None
    => call[c].id = call[d].id /\ call[c].bundle = call[d].bundle
=============================================================================
