--------------------------- MODULE ReusableVoice ---------------------------
(***************************************************************************)
(* The voice lab's Save: `saveDraft`, `saveReusable` and their route of    *)
(* demos/voice-lab/core.ts with `promote` of server.ts, on the registry of *)
(* VoiceRegistry.tla.                                                      *)
(*                                                                         *)
(* A save of a finished preview makes a draft directory, complete from the *)
(* start because it is renamed into place; a reusable save then runs       *)
(* `spqx lab save` on it, with the draft's id as the operation, waits for  *)
(* the answer, and enters the voice in the draft's manifest.  In a         *)
(* service one request at a time holds the flag `saving`; requests         *)
(* interleave at every await.                                              *)
(*                                                                         *)
(* Several services may work on one data directory: one that was told to   *)
(* stop removes the lock at once and goes on with its requests for twelve  *)
(* seconds, and two that find a stale lock may both come up.  Which of     *)
(* them the lock file admits is in Previews.tla; here any may be up with   *)
(* any other.  A service may die at any point; a call it had begun runs    *)
(* on.  Besides, somebody may use the command line.                        *)
(*                                                                         *)
(* Previews are ready, native and unchanged.  A name is a word and the way *)
(* it was typed: composed (NFC) or decomposed.  A request that finds       *)
(* `saving` set is refused and changes nothing.                            *)
(***************************************************************************)
EXTENDS VoiceRegistry, Sequences

CONSTANTS Word,        \* names, up to case and normal form
          NoWord,
          MaxServices, \* bound: services started on the data directory
          MaxSaves,    \* bound: requests admitted
          MaxByHand    \* bound: saves from the command line

ASSUME SaveAssumption == /\ NoWord \notin Word
                         /\ MaxServices \in Nat
                         /\ MaxSaves \in Nat /\ MaxByHand \in Nat
                         /\ MaxSaves + MaxByHand <= MaxCalls
                         /\ MaxSaves <= MaxOps

VARIABLES drafts,    \* the draft directories, in the order of their creation
          proc,      \* where a service is in its life
          saving,    \* of a service: one request is being served
          saves,     \* requests admitted
          byHand,    \* saves from the command line
          req        \* each of them, with its local variables

service == <<drafts, proc, saving, saves, req>>
vars == <<rvars, service, byHand>>

\* In the order of their starts.
Service == 1..MaxServices
NoService == 0
\* Requests, in the order of their admission.
Handler == 1..MaxSaves
Life == {"new", "up", "stopping", "dead"}

\* voice: canonical_voice_id, None until the draft is promoted.  History: the
\* service that made the draft, and those that were saving at that moment.
Draft == [word : Word, bundle : Bundle, voice : Nat,
          by : Service, among : SUBSET Service]
Location == {"idle", "look", "check", "write", "promote", "await", "commit"}
\* What is asked for; then the service, the draft and the call it is about.
Asked == [reusable : BOOLEAN, composed : BOOLEAN,
          word : Word \union {NoWord}, bundle : Bundle \union {NoBundle}]
Request == [at : Location, of : Service \union {NoService}, asked : Asked,
            draft : Nat, child : Nat]
Resting == [at |-> "idle", of |-> NoService, draft |-> 0, child |-> 0,
            asked |-> [reusable |-> FALSE, composed |-> FALSE,
                       word |-> NoWord, bundle |-> NoBundle]]

Init == /\ RInit
        /\ drafts = <<>> /\ saves = 0 /\ byHand = 0
        /\ proc = [s \in Service |-> "new"]
        /\ saving = [s \in Service |-> FALSE]
        /\ req = [h \in Handler |-> Resting]

Move(h, where) == req' = [req EXCEPT ![h].at = where]

\* The `finally` of the route, whatever the request came to.
BugFreed == TRUE
Freed == FALSE
Finish(h) == /\ req' = [req EXCEPT ![h] = Resting]
             /\ saving' = [saving EXCEPT ![req[h].of] = Freed]
-----------------------------------------------------------------------------
(* The life of a service.                                                  *)

Start(s) ==
  /\ proc[s] = "new" /\ \A t \in 1..(s - 1) : proc[t] # "new"
  /\ proc' = [proc EXCEPT ![s] = "up"]
  /\ UNCHANGED <<rvars, drafts, saving, saves, byHand, req>>

\* SIGTERM: no more requests; those under way go on.
Stop(s) ==
  /\ proc[s] = "up"
  /\ proc' = [proc EXCEPT ![s] = "stopping"]
  /\ UNCHANGED <<rvars, drafts, saving, saves, byHand, req>>

\* The end of the process, twelve seconds after a Stop or by a kill.
Exit(s) ==
  /\ proc[s] \in {"up", "stopping"}
  /\ proc' = [proc EXCEPT ![s] = "dead"]
  /\ saving' = [saving EXCEPT ![s] = FALSE]
  /\ req' = [h \in Handler |-> IF req[h].of = s THEN Resting ELSE req[h]]
  /\ UNCHANGED <<rvars, drafts, saves, byHand>>
-----------------------------------------------------------------------------
(* A save.                                                                 *)

BugBusy(s) == FALSE
Busy(s) == saving[s]

Begin(h, s, reusable, composed, word, bundle) ==
  /\ proc[s] = "up" /\ ~Busy(s)
  /\ saving' = [saving EXCEPT ![s] = TRUE]
  /\ h = saves + 1 /\ saves' = h
  /\ req' = [req EXCEPT ![h] =
               [at |-> IF reusable THEN "look" ELSE "check", of |-> s,
                draft |-> 0, child |-> 0,
                asked |-> [reusable |-> reusable, composed |-> composed,
                           word |-> word, bundle |-> bundle]]]
  /\ UNCHANGED <<rvars, drafts, proc, byHand>>

\* saveReusable looks for the draft of an earlier try; it compares the name as
\* it was typed with the composed ones of the drafts.
Namesakes(h) == {d \in DOMAIN drafts : /\ drafts[d].word = req[h].asked.word
                                       /\ req[h].asked.composed}

\* The first of the list counts: if there are two, the times in their manifests
\* tell, which need not be in the order of the renames.
LookForDraft(h) ==
  /\ req[h].at = "look"
  /\ \/ /\ Namesakes(h) = {}
        /\ Move(h, "check") /\ UNCHANGED saving
     \/ \E d \in Namesakes(h) :
          \/ /\ drafts[d].bundle # req[h].asked.bundle
             /\ Move(h, "check") /\ UNCHANGED saving
          \/ /\ drafts[d].bundle = req[h].asked.bundle /\ drafts[d].voice # None
             /\ Finish(h)
          \/ /\ drafts[d].bundle = req[h].asked.bundle /\ drafts[d].voice = None
             /\ req' = [req EXCEPT ![h].at = "promote", ![h].draft = d]
             /\ UNCHANGED saving
  /\ UNCHANGED <<rvars, drafts, proc, saves, byHand>>

Taken(word) == \E d \in DOMAIN drafts : drafts[d].word = word

CheckName(h) ==
  /\ req[h].at = "check"
  /\ IF Taken(req[h].asked.word) THEN Finish(h)
                                 ELSE Move(h, "write") /\ UNCHANGED saving
  /\ UNCHANGED <<rvars, drafts, proc, saves, byHand>>

WriteDraft(h) ==
  /\ req[h].at = "write"
  /\ drafts' = Append(drafts, [word |-> req[h].asked.word,
                               bundle |-> req[h].asked.bundle, voice |-> None,
                               by |-> req[h].of,
                               among |-> {s \in Service : saving[s]}])
  /\ IF req[h].asked.reusable
     THEN /\ req' = [req EXCEPT ![h].at = "promote", ![h].draft = Len(drafts) + 1]
          /\ UNCHANGED saving
     ELSE Finish(h)
  /\ UNCHANGED <<rvars, proc, saves, byHand>>

StartPromotion(h) ==
  /\ req[h].at = "promote"
  /\ Spawn(drafts[req[h].draft].bundle, req[h].draft, None)
  /\ req' = [req EXCEPT ![h].at = "await", ![h].child = spawned + 1]
  /\ UNCHANGED <<drafts, proc, saving, saves, byHand>>

\* promotion_failed: the draft stays, and Save may be tried again.
PromotionEnds(h) ==
  /\ req[h].at = "await" /\ call[req[h].child].pc \in {"ok", "failed"}
  /\ IF call[req[h].child].pc = "ok" THEN Move(h, "commit") /\ UNCHANGED saving
                                      ELSE Finish(h)
  /\ UNCHANGED <<rvars, drafts, proc, saves, byHand>>

CommitDraft(h) ==
  /\ req[h].at = "commit"
  /\ drafts' = [drafts EXCEPT ![req[h].draft].voice = call[req[h].child].id]
  /\ Finish(h)
  /\ UNCHANGED <<rvars, proc, saves, byHand>>

HandlerStep(h) == \/ LookForDraft(h) \/ CheckName(h) \/ WriteDraft(h)
                  \/ StartPromotion(h) \/ PromotionEnds(h) \/ CommitDraft(h)

\* Reading or writing a file fails: the request ends, and a draft that was not
\* renamed into place is never seen.
SaveFails(h) ==
  /\ req[h].at \in Location \ {"idle", "await"} /\ faults < MaxFaults
  /\ faults' = faults + 1
  /\ Finish(h)
  /\ UNCHANGED <<registry, directories, lock, fresh, spawned, call,
                 drafts, proc, saves, byHand>>

\* `spqx lab save` by hand, for a new voice or a given one, with no operation or
\* with that of a draft.
CommandLine(bundle, op, voice) ==
  /\ byHand < MaxByHand
  /\ byHand' = byHand + 1
  /\ Spawn(bundle, op, voice)
  /\ UNCHANGED service

Calls(c) == CallStep(c) /\ UNCHANGED <<service, byHand>>

\* Nothing is under way.
Rest == /\ \A h \in Handler : req[h].at = "idle"
        /\ \A c \in Call : call[c].pc \in Ended
        /\ UNCHANGED vars

Next == \/ \E s \in Service : Start(s) \/ Stop(s) \/ Exit(s)
        \/ \E h \in Handler, s \in Service, reusable, composed \in BOOLEAN,
              w \in Word, b \in Bundle :
             Begin(h, s, reusable, composed, w, b)
        \/ \E h \in Handler : HandlerStep(h) \/ SaveFails(h)
        \/ \E b \in Bundle, op \in 0..Len(drafts), v \in 0..fresh :
             CommandLine(b, op, v)
        \/ \E c \in Call : Calls(c)
        \/ \E c \in Call : Die(c) /\ UNCHANGED <<service, byHand>>
        \/ Rest

Spec == Init /\ [][Next]_vars

\* Every request of a service that lives and every process runs on.  Nothing is
\* assumed of who sends requests, starts or stops services, of failures, or of
\* the 15 seconds.
FairSpec == /\ Spec
            /\ \A h \in Handler : WF_vars(HandlerStep(h))
            /\ \A c \in Call : WF_vars(Calls(c))
-----------------------------------------------------------------------------
\* Every variable has its type.
TypeOK ==
  /\ RegistryTypeOK
  /\ drafts \in Seq(Draft)
  /\ proc \in [Service -> Life]
  /\ saving \in [Service -> BOOLEAN]
  /\ saves \in 0..MaxSaves /\ byHand \in 0..MaxByHand
  /\ req \in [Handler -> Request]
  /\ \A h \in Handler : /\ req[h].draft \in 0..Len(drafts)
                        /\ req[h].child \in 0..spawned

\* A name is looked up long before the draft is renamed into place.  All the same
\* a service never gives one name to two drafts, and of two drafts with one name
\* the later is of a service that was in the middle of a save when the earlier got
\* its place: services that follow each other, however they stop, die and start,
\* never make namesakes, and two at once only by saves that cross.
NamesakesCross ==
  \A c, d \in DOMAIN drafts :
    c < d /\ drafts[c].word = drafts[d].word =>
      drafts[c].by # drafts[d].by /\ drafts[d].by \in drafts[c].among

\* A draft that says it is promoted names a voice of the registry with this very
\* audition, entered by this draft's own operation, whose directory loads: also
\* after a promotion that timed out, a lost call, a restart, a retry, and a
\* promotion by two services at once.
PromotedIsUsable ==
  \A d \in DOMAIN drafts :
    drafts[d].voice # None =>
      /\ [voice |-> drafts[d].voice, bundle |-> drafts[d].bundle, op |-> d] \in refs
      /\ Loads(drafts[d].voice, drafts[d].bundle)

\* The flag that turns away every other save is always taken back, whatever the
\* save that holds it, its call and other processes come to.
SavingEnds == \A s \in Service : saving[s] ~> ~saving[s]
=============================================================================
