------------------------ MODULE ReusableVoiceProofs ------------------------
(***************************************************************************)
(* Proofs about VoiceRegistry and ReusableVoice, for any number of calls,  *)
(* services, requests, names, auditions and failures.                      *)
(*                                                                         *)
(* The registry's invariant rests on the lock: only the call that holds it *)
(* has decided something it has not yet entered.  A service's rests on its *)
(* flag: only one of its requests is under way, so a draft made since it   *)
(* looked at the names is another service's.  Between registry and service *)
(* stands what a call leaves behind when it succeeds (Entered).            *)
(***************************************************************************)
EXTENDS ReusableVoice, SequenceTheorems, TLAPS

ReferenceOf(c) == [voice |-> call[c].id, bundle |-> call[c].bundle, op |-> call[c].op]

\* A call that has the lock is alone in it, and a call that was made has a bundle.
CallOK(c) ==
  /\ call[c].pc \in {"edit", "fill", "save"} => lock = c
  /\ call[c].pc # "unused" => call[c].bundle \in Bundle /\ c \in 1..spawned

\* What was decided in `edit` still holds: no other call has entered this
\* operation, and the directory is this call's own.
Decided(c) ==
  /\ call[c].pc \in {"fill", "save"} =>
       /\ \A r \in refs : r.op = call[c].op => call[c].op = None
       /\ <<call[c].id, call[c].bundle>> \in made
       /\ call[c].id < fresh
  /\ call[c].pc = "save" => <<call[c].id, call[c].bundle>> \in whole

\* A call that succeeds for a new voice and an operation has entered both.
Entered(c) ==
  call[c].pc \in {"print", "ok"} /\ call[c].voice = None /\ call[c].op # None
    => ReferenceOf(c) \in refs

\* Identities are handed out once; what is referred to loads.
RegistryOK ==
  /\ \A v \in voices : v < fresh
  /\ \A r \in refs : r.voice < fresh /\ Loads(r.voice, r.bundle)

RInv == /\ RegistryTypeOK /\ RegistryOK /\ OneVoicePerOperation
        /\ \A c \in Call : CallOK(c) /\ Decided(c) /\ Entered(c)

\* In a service one request is under way, and it holds the flag.
OneAtATime ==
  /\ \A h \in Handler : req[h].at # "idle" => req[h].of \in Service /\ saving[req[h].of]
  /\ \A g, h \in Handler :
       req[g].at # "idle" /\ req[h].at # "idle" /\ req[g].of = req[h].of => g = h

\* What a request knows: a draft with its name is of a save that crossed this one;
\* its draft; its call.
Knows(h) ==
  /\ req[h].at \in {"look", "check", "write"} =>
       req[h].asked.word \in Word /\ req[h].asked.bundle \in Bundle
  /\ req[h].at = "write" =>
       \A d \in DOMAIN drafts :
         drafts[d].word = req[h].asked.word =>
           drafts[d].by # req[h].of /\ req[h].of \in drafts[d].among
  /\ req[h].at \in {"promote", "await", "commit"} => req[h].draft \in DOMAIN drafts
  /\ req[h].at \in {"await", "commit"} =>
       /\ req[h].child \in 1..spawned
       /\ call[req[h].child].pc # "unused"
       /\ call[req[h].child].voice = None
       /\ call[req[h].child].op = req[h].draft
       /\ call[req[h].child].bundle = drafts[req[h].draft].bundle
  /\ req[h].at = "commit" => call[req[h].child].pc = "ok"

IInv == /\ RInv
        /\ TypeOK /\ OneAtATime /\ NamesakesCross /\ PromotedIsUsable
        /\ \A h \in Handler : Knows(h)
-----------------------------------------------------------------------------
(***************************************************************************)
(* The registry.                                                           *)
(***************************************************************************)
LEMMA RInitInv == RInit => RInv
<1> SUFFICES ASSUME RInit PROVE RInv
  OBVIOUS
<1> USE RegistryAssumption DEF RInit, Call, None
<1>1. call \in [Call -> CallRecord]
  BY DEF CallRecord, CallState
<1>2. RegistryTypeOK
  BY <1>1 DEF RegistryTypeOK
<1>3. RegistryOK /\ OneVoicePerOperation
  BY DEF RegistryOK, OneVoicePerOperation
<1>4. ASSUME NEW c \in Call PROVE CallOK(c) /\ Decided(c) /\ Entered(c)
  <2>1. call[c].pc = "unused"
    OBVIOUS
  <2> QED BY <2>1 DEF CallOK, Decided, Entered
<1> QED BY <1>2, <1>3, <1>4 DEF RInv

\* What is left of the calls when one of them moves on.
LEMMA CallFacts ==
  ASSUME NEW c \in Call, NEW w \in CallState, NEW i \in Nat,
         call \in [Call -> CallRecord],
         call' = [call EXCEPT ![c].pc = w, ![c].id = i]
  PROVE  /\ call' \in [Call -> CallRecord]
         /\ call'[c].pc = w /\ call'[c].id = i
         /\ call'[c].bundle = call[c].bundle /\ call'[c].op = call[c].op
         /\ call'[c].voice = call[c].voice
         /\ \A d \in Call : d # c => call'[d] = call[d]
BY DEF CallRecord

LEMMA GoFacts ==
  ASSUME NEW c \in Call, NEW w \in CallState, RegistryTypeOK, Go(c, w)
  PROVE  /\ call' \in [Call -> CallRecord]
         /\ call'[c].pc = w /\ call'[c].id = call[c].id
         /\ call'[c].bundle = call[c].bundle /\ call'[c].op = call[c].op
         /\ call'[c].voice = call[c].voice
         /\ \A d \in Call : d # c => call'[d] = call[d]
BY DEF CallRecord, Go, RegistryTypeOK

\* Steps that touch neither the registry nor a directory: taking the lock,
\* printing, failing.
LEMMA QuietStep ==
  ASSUME RInv, NEW c \in Call, NEW w \in {"edit", "ok", "failed"}, Go(c, w),
         call[c].pc # "unused",
         w = "edit" => lock = 0 /\ lock' = c,
         w # "edit" => lock' \in {lock, 0} /\ (lock' = lock \/ lock = c),
         w = "ok" => call[c].pc = "print",
         UNCHANGED <<registry, directories, fresh, spawned>>,
         faults' \in 0..MaxFaults
  PROVE  RInv'
<1>1. RegistryTypeOK /\ w \in CallState
  BY DEF RInv, CallState
<1>2. /\ call' \in [Call -> CallRecord]
      /\ call'[c].pc = w /\ call'[c].id = call[c].id
      /\ call'[c].bundle = call[c].bundle /\ call'[c].op = call[c].op
      /\ call'[c].voice = call[c].voice
      /\ \A d \in Call : d # c => call'[d] = call[d]
  BY <1>1, GoFacts
<1>3. UNCHANGED <<voices, refs, made, whole>>
  BY DEF registry, directories
<1>4. RegistryTypeOK'
  BY <1>1, <1>2, <1>3 DEF RegistryTypeOK
<1>5. RegistryOK' /\ OneVoicePerOperation'
  BY <1>3 DEF RInv, RegistryOK, OneVoicePerOperation, Loads
<1>6. ASSUME NEW d \in Call PROVE (CallOK(d) /\ Decided(d) /\ Entered(d))'
  <2>0. CallOK(d) /\ Decided(d) /\ Entered(d) /\ CallOK(c) /\ Entered(c)
    BY DEF RInv
  <2>1. CASE d = c
    <3>1. CallOK(d)'
      BY <2>0, <2>1, <1>2 DEF CallOK
    <3>2. Decided(d)'
      BY <2>1, <1>2 DEF Decided
    <3>3. Entered(d)'
      BY <2>0, <2>1, <1>2, <1>3 DEF Entered, ReferenceOf
    <3> QED BY <3>1, <3>2, <3>3
  <2>2. CASE d # c
    <3>1. CallOK(d)'
      BY <2>0, <2>2, <1>2 DEF CallOK, Call
    <3>2. Decided(d)'
      BY <2>0, <2>2, <1>2, <1>3 DEF Decided
    <3>3. Entered(d)'
      BY <2>0, <2>2, <1>2, <1>3 DEF Entered, ReferenceOf
    <3> QED BY <3>1, <3>2, <3>3
  <2> QED BY <2>1, <2>2
<1> QED BY <1>4, <1>5, <1>6 DEF RInv

\* A success without an entry: the operation, or for a given voice the reference,
\* is in the registry already.
LEMMA FoundStep ==
  ASSUME RInv, NEW c \in Call, NEW v \in Nat, Found(c, v), call[c].pc = "edit",
         call[c].voice = None /\ call[c].op # None =>
           [voice |-> v, bundle |-> call[c].bundle, op |-> call[c].op] \in refs
  PROVE  RInv'
<1>1. RegistryTypeOK
  BY DEF RInv
<1>2. /\ call' \in [Call -> CallRecord]
      /\ call'[c].pc = "print" /\ call'[c].id = v
      /\ call'[c].bundle = call[c].bundle /\ call'[c].op = call[c].op
      /\ call'[c].voice = call[c].voice
      /\ \A d \in Call : d # c => call'[d] = call[d]
  BY <1>1, CallFacts DEF Found, RegistryTypeOK, CallState
<1>3. /\ UNCHANGED <<voices, refs, made, whole, fresh, spawned, faults>>
      /\ lock' = 0
  BY DEF Found, registry, directories
<1>4. RegistryTypeOK'
  BY <1>1, <1>2, <1>3 DEF RegistryTypeOK
<1>5. RegistryOK' /\ OneVoicePerOperation'
  BY <1>3 DEF RInv, RegistryOK, OneVoicePerOperation, Loads
<1>6. ASSUME NEW d \in Call PROVE (CallOK(d) /\ Decided(d) /\ Entered(d))'
  <2>0. CallOK(d) /\ Decided(d) /\ Entered(d) /\ CallOK(c)
    BY DEF RInv
  <2>1. CASE d = c
    <3>1. CallOK(d)'
      BY <2>0, <2>1, <1>2, <1>3 DEF CallOK
    <3>2. Decided(d)'
      BY <2>1, <1>2 DEF Decided
    <3>3. Entered(d)'
      BY <2>1, <1>2, <1>3 DEF Entered, ReferenceOf
    <3> QED BY <3>1, <3>2, <3>3
  <2>2. CASE d # c
    <3>1. lock = c
      BY <2>0 DEF CallOK
    <3>2. CallOK(d)'
      BY <2>0, <2>2, <3>1, <1>2, <1>3 DEF CallOK, Call
    <3>3. Decided(d)'
      BY <2>0, <2>2, <1>2, <1>3 DEF Decided
    <3>4. Entered(d)'
      BY <2>0, <2>2, <1>2, <1>3 DEF Entered, ReferenceOf
    <3> QED BY <3>2, <3>3, <3>4
  <2> QED BY <2>1, <2>2
<1> QED BY <1>4, <1>5, <1>6 DEF RInv

\* A call begins.
LEMMA SpawnStep ==
  ASSUME RInv, NEW b \in Bundle, NEW op \in Nat, NEW v \in Nat, Spawn(b, op, v)
  PROVE  /\ RInv'
         /\ spawned' = spawned + 1 /\ spawned' \in Call
         /\ call'[spawned'].pc = "lock" /\ call'[spawned'].bundle = b
         /\ call'[spawned'].op = op /\ call'[spawned'].voice = v
         /\ \A d \in Call : d # spawned' => call'[d] = call[d]
<1> DEFINE new == [pc |-> "lock", bundle |-> b, op |-> op, voice |-> v, id |-> None]
<1>1. RegistryTypeOK
  BY DEF RInv
<1>2. /\ UNCHANGED <<voices, refs, made, whole, lock, fresh, faults>>
      /\ spawned < MaxCalls /\ spawned' = spawned + 1
      /\ call' = [call EXCEPT ![spawned + 1] = new]
  BY DEF Spawn, registry, directories
<1>3. spawned \in Nat /\ spawned + 1 \in Call
  BY <1>1, <1>2, RegistryAssumption DEF RegistryTypeOK, Call
<1>4. new \in CallRecord
  BY DEF CallRecord, CallState, None
<1>5. /\ call' \in [Call -> CallRecord]
      /\ call'[spawned + 1] = new
      /\ \A d \in Call : d # spawned + 1 => call'[d] = call[d]
  <2> HIDE DEF new
  <2> QED BY <1>1, <1>2, <1>3, <1>4 DEF RegistryTypeOK
<1>6. RegistryTypeOK'
  BY <1>1, <1>2, <1>3, <1>5 DEF RegistryTypeOK, Call
<1>7. RegistryOK' /\ OneVoicePerOperation'
  BY <1>2 DEF RInv, RegistryOK, OneVoicePerOperation, Loads
<1>8. ASSUME NEW d \in Call PROVE (CallOK(d) /\ Decided(d) /\ Entered(d))'
  <2>0. CallOK(d) /\ Decided(d) /\ Entered(d)
    BY DEF RInv
  <2>1. CASE d = spawned + 1
    <3>1. call'[d].pc = "lock" /\ call'[d].bundle = b
      BY <2>1, <1>5
    <3>2. CallOK(d)'
      BY <3>1, <2>1, <1>2, <1>3 DEF CallOK
    <3> QED BY <3>1, <3>2 DEF Decided, Entered
  <2>2. CASE d # spawned + 1
    <3>1. call'[d] = call[d]
      BY <2>2, <1>5
    <3>2. CallOK(d)'
      BY <2>0, <3>1, <1>2, <1>3 DEF CallOK, Call
    <3>3. Decided(d)'
      BY <2>0, <3>1, <1>2 DEF Decided
    <3>4. Entered(d)'
      BY <2>0, <3>1, <1>2 DEF Entered, ReferenceOf
    <3> QED BY <3>2, <3>3, <3>4
  <2> QED BY <2>1, <2>2
<1> QED BY <1>2, <1>3, <1>5, <1>6, <1>7, <1>8 DEF RInv

\* A directory is made: for a new voice, or for one that lacks the reference.
LEMMA MakeStep ==
  ASSUME RInv, NEW c \in Call, call[c].pc = "edit", SavedOperation(c) = {},
         Known(c), CreateDir(<<Target(c), call[c].bundle>>) = made',
         call' = [call EXCEPT ![c].pc = AfterCreate, ![c].id = Target(c)],
         fresh' = IF call[c].voice = None THEN fresh + 1 ELSE fresh,
         UNCHANGED <<registry, whole, lock, spawned, faults>>
  PROVE  RInv'
<1>1. RegistryTypeOK /\ RegistryOK /\ CallOK(c)
  BY DEF RInv
<1>2. /\ fresh \in Nat /\ call[c].voice \in Nat /\ call[c].bundle \in Bundle
      /\ Target(c) \in Nat /\ fresh' \in Nat
      /\ Target(c) < fresh' /\ fresh <= fresh'
  <2>1. fresh \in Nat /\ call[c].voice \in Nat /\ call[c].bundle \in Bundle
    BY <1>1 DEF RegistryTypeOK, CallRecord, CallOK
  <2>2. CASE call[c].voice = None
    BY <2>1, <2>2 DEF Target
  <2>3. CASE call[c].voice # None
    BY <2>1, <2>3, <1>1 DEF Target, Known, RegistryOK
  <2> QED BY <2>1, <2>2, <2>3
<1>3. /\ call' \in [Call -> CallRecord]
      /\ call'[c].pc = "fill" /\ call'[c].id = Target(c)
      /\ call'[c].bundle = call[c].bundle /\ call'[c].op = call[c].op
      /\ call'[c].voice = call[c].voice
      /\ \A d \in Call : d # c => call'[d] = call[d]
  BY <1>1, <1>2, CallFacts DEF RegistryTypeOK, CallState, AfterCreate
<1>4. /\ UNCHANGED <<voices, refs, whole, lock, spawned, faults>>
      /\ made' = made \union {<<Target(c), call[c].bundle>>}
  BY DEF registry, CreateDir
<1>5. RegistryTypeOK'
  BY <1>1, <1>2, <1>3, <1>4 DEF RegistryTypeOK
<1>6. RegistryOK'
  <2>1. \A v \in voices : v \in Nat /\ v < fresh
    BY <1>1 DEF RegistryTypeOK, RegistryOK
  <2>2. \A r \in refs : r.voice \in Nat /\ r.voice < fresh /\ Loads(r.voice, r.bundle)
    BY <1>1 DEF RegistryTypeOK, RegistryOK, Reference
  <2> QED BY <2>1, <2>2, <1>2, <1>4 DEF RegistryOK, Loads
<1>7. OneVoicePerOperation'
  BY <1>4 DEF RInv, OneVoicePerOperation
<1>8. ASSUME NEW d \in Call PROVE (CallOK(d) /\ Decided(d) /\ Entered(d))'
  <2>0. CallOK(d) /\ Decided(d) /\ Entered(d)
    BY DEF RInv
  <2>1. CASE d = c
    <3>1. CallOK(d)'
      BY <2>0, <2>1, <1>3, <1>4 DEF CallOK
    <3>2. \A r \in refs : r.op = call[c].op => call[c].op = None
      BY DEF SavedOperation
    <3>3. Decided(d)'
      BY <3>2, <2>1, <1>2, <1>3, <1>4 DEF Decided
    <3>4. Entered(d)'
      BY <2>1, <1>3 DEF Entered
    <3> QED BY <3>1, <3>3, <3>4
  <2>2. CASE d # c
    <3>1. call'[d] = call[d] /\ call[d].pc \notin {"fill", "save"}
      BY <2>0, <2>2, <1>1, <1>3 DEF CallOK
    <3>2. CallOK(d)'
      BY <2>0, <3>1, <1>4 DEF CallOK
    <3>3. Decided(d)'
      BY <3>1 DEF Decided
    <3>4. Entered(d)'
      <4>1. ReferenceOf(d)' = ReferenceOf(d)
        BY <3>1, Zenon DEF ReferenceOf
      <4>2. refs' = refs /\ Entered(d)
        BY <1>4, <2>0
      <4> QED BY <3>1, <4>1, <4>2, Zenon DEF Entered
    <3> QED BY <3>2, <3>3, <3>4
  <2> QED BY <2>1, <2>2
<1> QED BY <1>5, <1>6, <1>7, <1>8 DEF RInv

\* The three files are written.
LEMMA FillStep == ASSUME RInv, NEW c \in Call, FillDirectory(c) PROVE RInv'
<1>1. RegistryTypeOK /\ CallOK(c) /\ call[c].pc = "fill"
  BY DEF RInv, FillDirectory
<1>2. <<call[c].id, call[c].bundle>> \in made
  BY <1>1 DEF RInv, Decided
<1>3. /\ call' \in [Call -> CallRecord]
      /\ call'[c].pc = "save" /\ call'[c].id = call[c].id
      /\ call'[c].bundle = call[c].bundle /\ call'[c].op = call[c].op
      /\ call'[c].voice = call[c].voice
      /\ \A d \in Call : d # c => call'[d] = call[d]
  BY <1>1, GoFacts DEF FillDirectory, CallState
<1>4. UNCHANGED <<voices, refs, made, lock, fresh, spawned, faults>>
  BY DEF FillDirectory, registry
<1>5. whole' = whole \union {<<call[c].id, call[c].bundle>>}
  BY DEF FillDirectory
<1>6. RegistryTypeOK'
  BY <1>1, <1>2, <1>3, <1>4, <1>5 DEF RegistryTypeOK
<1>7. RegistryOK' /\ OneVoicePerOperation'
  BY <1>4, <1>5 DEF RInv, RegistryOK, OneVoicePerOperation, Loads
<1>8. ASSUME NEW d \in Call PROVE (CallOK(d) /\ Decided(d) /\ Entered(d))'
  <2>0. CallOK(d) /\ Decided(d) /\ Entered(d)
    BY DEF RInv
  <2>1. CASE d = c
    <3>1. CallOK(d)'
      BY <2>0, <2>1, <1>1, <1>3, <1>4 DEF CallOK
    <3>2. <<call'[d].id, call'[d].bundle>> \in whole'
      BY <2>1, <1>3, <1>5
    <3>3. Decided(d)'
      BY <2>0, <3>2, <2>1, <1>1, <1>3, <1>4 DEF Decided
    <3>4. Entered(d)'
      BY <2>1, <1>3 DEF Entered
    <3> QED BY <3>1, <3>3, <3>4
  <2>2. CASE d # c
    <3>1. call'[d] = call[d] /\ call[d].pc \notin {"fill", "save"}
      BY <2>0, <2>2, <1>1, <1>3 DEF CallOK
    <3>2. CallOK(d)'
      BY <2>0, <3>1, <1>4 DEF CallOK
    <3>3. Decided(d)'
      BY <3>1 DEF Decided
    <3>4. Entered(d)'
      BY <2>0, <3>1, <1>4 DEF Entered, ReferenceOf
    <3> QED BY <3>2, <3>3, <3>4
  <2> QED BY <2>1, <2>2
<1> QED BY <1>6, <1>7, <1>8 DEF RInv

\* The reference is entered; nobody else has entered this operation.
LEMMA SaveStep == ASSUME RInv, NEW c \in Call, SaveRegistry(c) PROVE RInv'
<1> DEFINE new == ReferenceOf(c)
<1>1. RegistryTypeOK /\ CallOK(c) /\ Decided(c) /\ call[c].pc = "save"
  BY DEF RInv, SaveRegistry
<1>2. /\ call' \in [Call -> CallRecord]
      /\ call'[c].pc = "print" /\ call'[c].id = call[c].id
      /\ call'[c].bundle = call[c].bundle /\ call'[c].op = call[c].op
      /\ call'[c].voice = call[c].voice
      /\ \A d \in Call : d # c => call'[d] = call[d]
  BY <1>1, GoFacts DEF SaveRegistry, Leave, CallState
<1>3. /\ UNCHANGED <<made, whole, fresh, spawned, faults>>
      /\ lock' = 0
      /\ voices' = voices \union {call[c].id}
      /\ refs' = refs \union {new}
  BY <1>1 DEF SaveRegistry, Leave, directories, ReferenceOf, CallOK
<1>4. /\ call[c].id \in Nat /\ call[c].op \in Nat /\ call[c].bundle \in Bundle
      /\ call[c].id < fresh
      /\ <<call[c].id, call[c].bundle>> \in whole
      /\ \A r \in refs : r.op = call[c].op => call[c].op = None
  BY <1>1 DEF RegistryTypeOK, CallRecord, CallOK, Decided
<1>5. /\ new \in Reference
      /\ new.voice = call[c].id /\ new.bundle = call[c].bundle
      /\ new.op = call[c].op
  BY <1>4 DEF Reference, ReferenceOf
<1> HIDE DEF new
<1>6. RegistryTypeOK'
  BY <1>1, <1>2, <1>3, <1>4, <1>5 DEF RegistryTypeOK
<1>7. RegistryOK'
  BY <1>3, <1>4, <1>5 DEF RInv, RegistryOK, Loads
<1>8. OneVoicePerOperation'
  BY <1>3, <1>4, <1>5 DEF RInv, OneVoicePerOperation
<1>9. ASSUME NEW d \in Call PROVE (CallOK(d) /\ Decided(d) /\ Entered(d))'
  <2>0. CallOK(d) /\ Decided(d) /\ Entered(d)
    BY DEF RInv
  <2>1. CASE d = c
    <3>1. CallOK(d)'
      BY <2>0, <2>1, <1>1, <1>2, <1>3 DEF CallOK
    <3>2. Decided(d)'
      BY <2>1, <1>2 DEF Decided
    <3>3. ReferenceOf(d)' = new
      BY <2>1, <1>2 DEF ReferenceOf, new
    <3>4. Entered(d)'
      BY <3>3, <1>3 DEF Entered
    <3> QED BY <3>1, <3>2, <3>4
  <2>2. CASE d # c
    <3>1. call'[d] = call[d] /\ call[d].pc \notin {"edit", "fill", "save"}
      BY <2>0, <2>2, <1>1, <1>2 DEF CallOK
    <3>2. CallOK(d)'
      BY <2>0, <3>1, <1>3 DEF CallOK
    <3>3. Decided(d)'
      BY <3>1 DEF Decided
    <3>4. Entered(d)'
      BY <2>0, <3>1, <1>3 DEF Entered, ReferenceOf
    <3> QED BY <3>2, <3>3, <3>4
  <2> QED BY <2>1, <2>2
<1> QED BY <1>6, <1>7, <1>8, <1>9 DEF RInv

\* What no step takes back: an entry, a directory, what a call was asked, success.
Onward ==
  /\ refs \subseteq refs' /\ whole \subseteq whole'
  /\ \A d \in Call : call[d].pc # "unused" =>
       /\ call'[d].pc # "unused" /\ call'[d].bundle = call[d].bundle
       /\ call'[d].op = call[d].op /\ call'[d].voice = call[d].voice
       /\ call[d].pc = "ok" => call'[d] = call[d]

LEMMA OnwardFromFacts ==
  ASSUME NEW c \in Call, call[c].pc \notin Ended,
         refs \subseteq refs', whole \subseteq whole',
         call'[c].pc # "unused", call'[c].bundle = call[c].bundle,
         call'[c].op = call[c].op, call'[c].voice = call[c].voice,
         \A d \in Call : d # c => call'[d] = call[d]
  PROVE  Onward
BY DEF Onward, Ended

LEMMA MovedOn ==
  ASSUME RInv, NEW c \in Call, call[c].pc \notin Ended,
         NEW w \in CallState \ {"unused"}, Go(c, w),
         refs \subseteq refs', whole \subseteq whole'
  PROVE  Onward
<1>1. /\ call'[c].pc = w
      /\ call'[c].bundle = call[c].bundle /\ call'[c].op = call[c].op
      /\ call'[c].voice = call[c].voice
      /\ \A d \in Call : d # c => call'[d] = call[d]
  BY GoFacts DEF RInv
<1> QED BY <1>1, OnwardFromFacts

LEMMA DecidedOn ==
  ASSUME RInv, NEW c \in Call, call[c].pc \notin Ended, NEW i \in Nat,
         NEW w \in CallState \ {"unused"},
         call' = [call EXCEPT ![c].pc = w, ![c].id = i],
         refs \subseteq refs', whole \subseteq whole'
  PROVE  Onward
<1>1. /\ call'[c].pc = w
      /\ call'[c].bundle = call[c].bundle /\ call'[c].op = call[c].op
      /\ call'[c].voice = call[c].voice
      /\ \A d \in Call : d # c => call'[d] = call[d]
  BY CallFacts DEF RInv, RegistryTypeOK
<1> QED BY <1>1, OnwardFromFacts

LEMMA SpawnedOn ==
  ASSUME RInv, NEW b \in Bundle, NEW op \in Nat, NEW v \in Nat, Spawn(b, op, v)
  PROVE  Onward
<1>1. /\ spawned' = spawned + 1
      /\ \A d \in Call : d # spawned' => call'[d] = call[d]
  BY SpawnStep
<1>2. spawned \in Nat
  BY DEF RInv, RegistryTypeOK
<1>3. \A d \in Call : call[d].pc # "unused" => d # spawned'
  BY <1>1, <1>2 DEF RInv, CallOK
<1>4. refs' = refs /\ whole' = whole
  BY DEF Spawn, registry, directories
<1> QED BY <1>1, <1>3, <1>4 DEF Onward

LEMMA RejectedStep ==
  ASSUME RInv, NEW c \in Call, Rejected(c), call[c].pc \notin Ended
  PROVE  RInv' /\ Onward
<1>1. /\ Go(c, "failed") /\ lock' = IF lock = c THEN 0 ELSE lock
      /\ UNCHANGED <<registry, directories, fresh, spawned, faults>>
  BY DEF Rejected, Leave
<1>2. /\ faults' \in 0..MaxFaults /\ call[c].pc # "unused"
      /\ lock' \in {lock, 0} /\ (lock' = lock \/ lock = c)
  BY <1>1 DEF RInv, RegistryTypeOK, Ended
<1>3. RInv'
  BY <1>1, <1>2, QuietStep
<1>4. Onward
  BY <1>1, MovedOn DEF CallState, registry, directories
<1> QED BY <1>3, <1>4

\* A step of a call, or its death.
LEMMA CallInv ==
  ASSUME RInv, NEW c \in Call, CallStep(c) \/ Die(c)
  PROVE  RInv' /\ Onward
<1>0. /\ RegistryTypeOK /\ RegistryOK /\ CallOK(c)
      /\ faults \in 0..MaxFaults /\ fresh \in Nat /\ call[c].voice \in Nat
      /\ call[c] \in CallRecord
      /\ \A r \in refs : r \in Reference
      /\ \A v \in voices : v < fresh
      /\ \A r \in refs : r.voice < fresh
  BY DEF RInv, RegistryTypeOK, RegistryOK, CallRecord
<1>1. CASE LockRegistry(c)
  <2>1. /\ Go(c, "edit") /\ lock = 0 /\ lock' = c /\ call[c].pc = "lock"
        /\ UNCHANGED <<registry, directories, fresh, spawned, faults>>
    BY <1>1 DEF LockRegistry
  <2>2. faults' \in 0..MaxFaults
    BY <2>1, <1>0
  <2>3. RInv'
    BY <2>1, <2>2, QuietStep
  <2>4. Onward
    BY <2>1, MovedOn DEF CallState, Ended, registry, directories
  <2> QED BY <2>3, <2>4
<1>2. CASE Report(c)
  <2>1. /\ Go(c, "ok") /\ lock' = lock /\ call[c].pc = "print"
        /\ UNCHANGED <<registry, directories, fresh, spawned, faults>>
    BY <1>2 DEF Report
  <2>2. faults' \in 0..MaxFaults /\ lock' \in {lock, 0}
    BY <2>1, <1>0
  <2>3. RInv'
    BY <2>1, <2>2, QuietStep
  <2>4. Onward
    BY <2>1, MovedOn DEF CallState, Ended, registry, directories
  <2> QED BY <2>3, <2>4
<1>3. CASE Die(c)
  <2>1. /\ Go(c, "failed") /\ lock' = IF lock = c THEN 0 ELSE lock
        /\ call[c].pc \notin Ended /\ faults < MaxFaults /\ faults' = faults + 1
        /\ UNCHANGED <<registry, directories, fresh, spawned>>
    BY <1>3 DEF Die, Leave
  <2>2. /\ faults' \in 0..MaxFaults /\ call[c].pc # "unused"
        /\ lock' \in {lock, 0} /\ (lock' = lock \/ lock = c)
    BY <2>1, <1>0, RegistryAssumption DEF Ended
  <2>3. RInv'
    BY <2>1, <2>2, QuietStep
  <2>4. Onward
    BY <2>1, MovedOn DEF CallState, registry, directories
  <2> QED BY <2>3, <2>4
<1>4. CASE UnknownVoice(c)
  BY <1>4, RejectedStep DEF UnknownVoice, Ended
<1>5. CASE Replay(c)
  <2>1. call[c].pc = "edit" /\ call[c].pc \notin Ended
    BY <1>5 DEF Replay, Ended
  <2>2. CASE Rejected(c)
    BY <2>1, <2>2, RejectedStep
  <2>3. CASE ~Rejected(c)
    <3>1. PICK r \in refs : r.op = call[c].op /\ r.bundle = call[c].bundle
                            /\ Found(c, r.voice)
      BY <1>5, <2>3 DEF Replay, SavedOperation
    <3>2. r \in Reference
      BY <1>0
    <3>3. r.voice \in Nat
      BY <3>2 DEF Reference
    <3>4. r = [voice |-> r.voice, bundle |-> call[c].bundle, op |-> call[c].op]
      BY <3>1, <3>2 DEF Reference
    <3>5. RInv'
      BY <3>1, <3>3, <3>4, <2>1, FoundStep
    <3>6. Onward
      BY <3>1, <3>3, <2>1, DecidedOn DEF Found, CallState, registry, directories
    <3> QED BY <3>5, <3>6
  <2> QED BY <2>2, <2>3
<1>6. CASE Reuse(c)
  <2>1. /\ call[c].pc = "edit" /\ call[c].pc \notin Ended
        /\ Known(c) /\ HasReference(c)
    BY <1>6 DEF Reuse, Ended
  <2>2. CASE Rejected(c)
    BY <2>1, <2>2, RejectedStep
  <2>3. CASE ~Rejected(c)
    <3>1. Found(c, Target(c))
      BY <1>6, <2>3 DEF Reuse
    <3>2. PICK r \in refs : r.voice = Target(c)
      BY <2>1 DEF HasReference
    <3>3. r.voice \in Nat /\ r.voice < fresh
      BY <1>0 DEF Reference
    <3>4. call[c].voice # None /\ Target(c) \in Nat
      BY <3>2, <3>3, <1>0 DEF Target
    <3>5. RInv'
      BY <3>1, <3>4, <2>1, FoundStep
    <3>6. /\ call' = [call EXCEPT ![c].pc = "print", ![c].id = Target(c)]
          /\ refs \subseteq refs' /\ whole \subseteq whole'
      BY <3>1 DEF Found, registry, directories
    <3>7. Onward
      <4> DEFINE voice == Target(c)
      <4>1. voice \in Nat /\ call' = [call EXCEPT ![c].pc = "print", ![c].id = voice]
        BY <3>4, <3>6
      <4>2. "print" \in CallState \ {"unused"} /\ call[c].pc \notin Ended
        BY <2>1 DEF CallState
      <4> HIDE DEF voice
      <4> QED BY <4>1, <4>2, <3>6, DecidedOn
    <3> QED BY <3>5, <3>7
  <2> QED BY <2>2, <2>3
<1>7. CASE MakeDirectory(c)
  <2>1. /\ call[c].pc = "edit" /\ call[c].pc \notin Ended
        /\ SavedOperation(c) = {} /\ Known(c)
    BY <1>7 DEF MakeDirectory, Ended
  <2>2. CASE Rejected(c)
    BY <2>1, <2>2, RejectedStep
  <2>3. CASE ~Rejected(c)
    <3>1. /\ made' = CreateDir(<<Target(c), call[c].bundle>>)
          /\ call' = [call EXCEPT ![c].pc = AfterCreate, ![c].id = Target(c)]
          /\ fresh' = IF call[c].voice = None THEN fresh + 1 ELSE fresh
          /\ UNCHANGED <<registry, whole, lock, spawned, faults>>
      BY <1>7, <2>3 DEF MakeDirectory
    <3>2. RInv'
      BY <3>1, <2>1, MakeStep
    <3>3. Target(c) \in Nat
      BY <1>0 DEF Target
    <3>4. Onward
      BY <3>1, <3>3, <2>1, DecidedOn DEF AfterCreate, CallState, registry
    <3> QED BY <3>2, <3>4
  <2> QED BY <2>2, <2>3
<1>8. CASE FillDirectory(c)
  <2>1. RInv'
    BY <1>8, FillStep
  <2>2. Onward
    BY <1>8, MovedOn DEF FillDirectory, CallState, Ended, registry
  <2> QED BY <2>1, <2>2
<1>9. CASE SaveRegistry(c)
  <2>1. RInv'
    BY <1>9, SaveStep
  <2>2. Onward
    BY <1>9, MovedOn DEF SaveRegistry, Leave, CallState, Ended, directories
  <2> QED BY <2>1, <2>2
<1> QED
  <2>1. \/ LockRegistry(c) \/ Replay(c) \/ UnknownVoice(c) \/ Reuse(c)
        \/ MakeDirectory(c) \/ FillDirectory(c) \/ SaveRegistry(c)
        \/ Report(c) \/ Die(c)
    BY DEF CallStep
  <2> QED BY <2>1, <1>1, <1>2, <1>3, <1>4, <1>5, <1>6, <1>7, <1>8, <1>9

\* No call takes a step; the service may have failed once more.
LEMMA RUnchanged ==
  ASSUME RInv, UNCHANGED <<registry, directories, lock, fresh, spawned, call>>,
         faults' \in 0..MaxFaults
  PROVE  RInv' /\ Onward
<1>1. UNCHANGED <<voices, refs, made, whole, lock, fresh, spawned, call>>
  BY DEF registry, directories
<1>2. RegistryTypeOK' /\ RegistryOK' /\ OneVoicePerOperation'
  BY <1>1 DEF RInv, RegistryTypeOK, RegistryOK, OneVoicePerOperation, Loads
<1>3. ASSUME NEW d \in Call PROVE (CallOK(d) /\ Decided(d) /\ Entered(d))'
  BY <1>1 DEF RInv, CallOK, Decided, Entered, ReferenceOf
<1>4. Onward
  BY <1>1 DEF Onward
<1> QED BY <1>2, <1>3, <1>4 DEF RInv

LEMMA RInductive == ASSUME RInv, [RNext]_rvars PROVE RInv'
<1>1. ASSUME NEW b \in Bundle, NEW op \in 0..MaxOps, NEW v \in 0..fresh,
             Spawn(b, op, v)
      PROVE  RInv'
  <2>1. op \in Nat /\ v \in Nat
    OBVIOUS
  <2> QED BY <1>1, <2>1, SpawnStep
<1>2. CASE UNCHANGED rvars
  BY <1>2, RUnchanged DEF rvars, RInv, RegistryTypeOK
<1> QED BY <1>1, <1>2, CallInv DEF RNext, Idle
-----------------------------------------------------------------------------
(***************************************************************************)
(* The service.                                                            *)
(***************************************************************************)
\* Drafts stay what they are, apart from their voice, and the new ones are of the
\* service o, made among those that are saving.
DraftsGoOn(o) ==
  /\ DOMAIN drafts \subseteq DOMAIN drafts'
  /\ \A d \in DOMAIN drafts : /\ drafts'[d].word = drafts[d].word
                              /\ drafts'[d].bundle = drafts[d].bundle
                              /\ drafts'[d].by = drafts[d].by
                              /\ drafts'[d].among = drafts[d].among
  /\ \A d \in DOMAIN drafts' \ DOMAIN drafts :
       drafts'[d].by = o /\ drafts'[d].among = {s \in Service : saving[s]}

\* What a request knows survives a step of the registry and of other services.
LEMMA OthersKnow ==
  ASSUME IInv, RInv', Onward, spawned' >= spawned, NEW o, DraftsGoOn(o),
         NEW g \in Handler, req'[g] = req[g],
         req[g].at # "idle" => req[g].of # o
  PROVE  Knows(g)'
<1>0. Knows(g) /\ OneAtATime
  BY DEF IInv
<1>1. CASE req[g].at = "idle"
  BY <1>1 DEF Knows
<1>2. CASE req[g].at \in {"look", "check"}
  BY <1>0, <1>2 DEF Knows
<1>3. CASE req[g].at = "write"
  <2>1. req[g].of # o /\ req[g].of \in {s \in Service : saving[s]}
    BY <1>0, <1>3 DEF OneAtATime
  <2>2. ASSUME NEW d \in DOMAIN drafts', drafts'[d].word = req[g].asked.word
        PROVE  drafts'[d].by # req[g].of /\ req[g].of \in drafts'[d].among
    <3>1. CASE d \in DOMAIN drafts
      BY <3>1, <2>2, <1>0, <1>3 DEF DraftsGoOn, Knows
    <3>2. CASE d \notin DOMAIN drafts
      BY <3>2, <2>1 DEF DraftsGoOn
    <3> QED BY <3>1, <3>2
  <2> QED BY <2>2, <1>0, <1>3 DEF Knows
<1>4. CASE req[g].at = "promote"
  BY <1>0, <1>4 DEF Knows, DraftsGoOn
<1>5. CASE req[g].at \in {"await", "commit"}
  <2> DEFINE c == req[g].child
  <2>1. /\ c \in 1..spawned /\ call[c].pc # "unused" /\ req[g].draft \in DOMAIN drafts
        /\ call[c].voice = None /\ call[c].op = req[g].draft
        /\ call[c].bundle = drafts[req[g].draft].bundle
        /\ req[g].at = "commit" => call[c].pc = "ok"
    BY <1>0, <1>5 DEF Knows
  <2>2. c \in Call /\ c \in 1..spawned'
    <3>1. spawned \in 0..MaxCalls /\ spawned' \in Nat
      BY DEF IInv, RInv, RegistryTypeOK
    <3> HIDE DEF c
    <3> QED BY <2>1, <3>1, RegistryAssumption DEF Call
  <2>3. /\ call'[c].pc # "unused" /\ call'[c].bundle = call[c].bundle
        /\ call'[c].op = call[c].op /\ call'[c].voice = call[c].voice
        /\ call[c].pc = "ok" => call'[c] = call[c]
    BY <2>1, <2>2 DEF Onward
  <2>4. /\ req[g].draft \in DOMAIN drafts'
        /\ drafts'[req[g].draft].bundle = drafts[req[g].draft].bundle
    BY <2>1 DEF DraftsGoOn
  <2> QED BY <1>5, <2>1, <2>2, <2>3, <2>4 DEF Knows
<1>6. req[g].at \in Location
  BY DEF IInv, TypeOK, Request
<1> QED BY <1>1, <1>2, <1>3, <1>4, <1>5, <1>6 DEF Location

\* A step of one request: what it has to show of the others is that they are of
\* other services, and that the drafts go on.
LEMMA RequestStep ==
  ASSUME IInv, NEW h \in Handler, NEW o \in Service, RInv', Onward,
         spawned' >= spawned,
         \A g \in Handler : g # h => /\ req'[g] = req[g]
                                     /\ req[g].at # "idle" => req[g].of # o,
         req' \in [Handler -> Request], proc' = proc,
         saving' \in [Service -> BOOLEAN],
         \A s \in Service : s # o => saving'[s] = saving[s],
         req'[h].at # "idle" => req'[h].of = o /\ saving'[o],
         saves' \in 0..MaxSaves, byHand' = byHand,
         drafts' \in Seq(Draft), Len(drafts') >= Len(drafts), DraftsGoOn(o),
         NamesakesCross', PromotedIsUsable',
         req'[h].draft \in 0..Len(drafts'), req'[h].child \in 0..spawned',
         Knows(h)'
  PROVE  IInv'
<1>1. /\ spawned \in Nat /\ spawned' \in Nat
      /\ Len(drafts) \in Nat /\ Len(drafts') \in Nat
  BY LenProperties DEF IInv, RInv, RegistryTypeOK, TypeOK
<1>2. \A g \in Handler : /\ req'[g].draft \in 0..Len(drafts')
                         /\ req'[g].child \in 0..spawned'
  <2> TAKE g \in Handler
  <2>1. req[g].draft \in 0..Len(drafts) /\ req[g].child \in 0..spawned
    BY DEF IInv, TypeOK
  <2>2. CASE g = h
    BY <2>2
  <2>3. CASE g # h
    BY <1>1, <2>1, <2>3
  <2> QED BY <2>2, <2>3
<1>3. TypeOK'
  BY <1>2 DEF IInv, TypeOK, RInv
<1>4. OneAtATime'
  BY DEF OneAtATime, IInv
<1>5. ASSUME NEW g \in Handler PROVE Knows(g)'
  <2>1. CASE g = h
    BY <2>1
  <2>2. CASE g # h
    <3>1. req'[g] = req[g] /\ (req[g].at # "idle" => req[g].of # o)
      BY <2>2
    <3> QED BY <3>1, OthersKnow
  <2> QED BY <2>1, <2>2
<1> QED BY <1>3, <1>4, <1>5 DEF IInv

LEMMA SameDrafts ==
  ASSUME IInv, drafts' = drafts, refs \subseteq refs', whole \subseteq whole'
  PROVE  /\ drafts' \in Seq(Draft) /\ Len(drafts') >= Len(drafts)
         /\ Len(drafts') \in Nat
         /\ NamesakesCross' /\ PromotedIsUsable'
         /\ \A o : DraftsGoOn(o)
<1>1. drafts \in Seq(Draft) /\ Len(drafts) \in Nat
  BY LenProperties DEF IInv, TypeOK
<1>2. NamesakesCross'
  BY DEF IInv, NamesakesCross
<1>3. PromotedIsUsable'
  BY DEF IInv, PromotedIsUsable, Loads
<1>4. \A o : DraftsGoOn(o)
  BY DEF DraftsGoOn
<1> QED BY <1>1, <1>2, <1>3, <1>4

LEMMA RestingFacts ==
  Resting \in Request /\ Resting.at = "idle" /\ Resting.draft = 0 /\ Resting.child = 0
<1>1. Resting \in Request
  BY DEF Resting, Request, Asked, Location
<1>2. Resting.at = "idle" /\ Resting.draft = 0 /\ Resting.child = 0
  BY DEF Resting
<1> QED BY <1>1, <1>2

\* A step in which no request moves on, though some may end: of a service's life,
\* of the registry, of a request that is over.
LEMMA NoneMoves ==
  ASSUME IInv, RInv', Onward, spawned' >= spawned,
         UNCHANGED <<drafts, saves>>, byHand' \in 0..MaxByHand,
         proc' \in [Service -> Life], saving' \in [Service -> BOOLEAN],
         req' \in [Handler -> Request],
         \A g \in Handler :
           \/ req'[g] = Resting
           \/ req'[g] = req[g] /\ (req[g].at # "idle" => saving'[req[g].of])
  PROVE  IInv'
<1>1. /\ refs \subseteq refs' /\ whole \subseteq whole'
      /\ spawned \in Nat /\ spawned' \in Nat
  BY DEF Onward, IInv, RInv, RegistryTypeOK
<1>2. /\ drafts' \in Seq(Draft) /\ NamesakesCross' /\ PromotedIsUsable'
      /\ DraftsGoOn(NoService) /\ Len(drafts') \in Nat /\ drafts' = drafts
  BY <1>1, SameDrafts
<1>3. \A g \in Handler : /\ req'[g].draft \in 0..Len(drafts')
                         /\ req'[g].child \in 0..spawned'
  <2> TAKE g \in Handler
  <2>1. req[g].draft \in 0..Len(drafts) /\ req[g].child \in 0..spawned
    BY DEF IInv, TypeOK
  <2>2. CASE req'[g] = Resting
    BY <2>2, <1>1, <1>2, RestingFacts
  <2>3. CASE req'[g] = req[g]
    BY <2>3, <2>1, <1>1, <1>2
  <2> QED BY <2>2, <2>3
<1>4. TypeOK'
  BY <1>2, <1>3 DEF IInv, TypeOK, RInv
<1>5. OneAtATime'
  BY RestingFacts DEF IInv, OneAtATime
<1>6. ASSUME NEW g \in Handler PROVE Knows(g)'
  <2>1. CASE req'[g] = Resting
    BY <2>1, RestingFacts DEF Knows
  <2>2. CASE req'[g] = req[g]
    <3>1. req[g].at # "idle" => req[g].of \in Service
      BY DEF IInv, OneAtATime
    <3>2. NoService \notin Service
      BY SaveAssumption DEF NoService, Service
    <3> QED BY <2>2, <3>1, <3>2, <1>2, OthersKnow
  <2> QED BY <2>1, <2>2
<1> QED BY <1>2, <1>4, <1>5, <1>6 DEF IInv

\* The request under way is its service's only one.
LEMMA Alone ==
  ASSUME IInv, NEW h \in Handler, req[h].at # "idle"
  PROVE  /\ req[h].of \in Service /\ saving[req[h].of]
         /\ saving \in [Service -> BOOLEAN]
         /\ \A g \in Handler : g # h /\ req[g].at # "idle" => req[g].of # req[h].of
BY DEF IInv, TypeOK, OneAtATime

LEMMA MoveFacts ==
  ASSUME req \in [Handler -> Request], NEW h \in Handler, NEW w \in Location,
         Move(h, w)
  PROVE  /\ req' \in [Handler -> Request]
         /\ req'[h].at = w /\ req'[h].of = req[h].of /\ req'[h].asked = req[h].asked
         /\ req'[h].draft = req[h].draft /\ req'[h].child = req[h].child
         /\ \A g \in Handler : g # h => req'[g] = req[g]
BY DEF Move, Request

LEMMA FinishFacts ==
  ASSUME IInv, NEW h \in Handler, req[h].at # "idle", Finish(h)
  PROVE  /\ req' \in [Handler -> Request] /\ req'[h] = Resting
         /\ \A g \in Handler : g # h => req'[g] = req[g]
         /\ saving' \in [Service -> BOOLEAN]
         /\ \A s \in Service : s # req[h].of => saving'[s] = saving[s]
         /\ \A g \in Handler : g # h /\ req[g].at # "idle" => saving'[req[g].of]
<1>1. req \in [Handler -> Request] /\ OneAtATime
  BY DEF IInv, TypeOK
<1>2. /\ req[h].of \in Service /\ saving \in [Service -> BOOLEAN]
      /\ \A g \in Handler : g # h /\ req[g].at # "idle" => req[g].of # req[h].of
  BY Alone
<1>3. req' = [req EXCEPT ![h] = Resting] /\ saving' = [saving EXCEPT ![req[h].of] = FALSE]
  BY DEF Finish, Freed
<1>4. /\ req' \in [Handler -> Request] /\ req'[h] = Resting
      /\ \A g \in Handler : g # h => req'[g] = req[g]
  BY <1>1, <1>3, RestingFacts
<1>5. /\ saving' \in [Service -> BOOLEAN]
      /\ \A s \in Service : s # req[h].of => saving'[s] = saving[s]
  BY <1>2, <1>3
<1>6. \A g \in Handler : g # h /\ req[g].at # "idle" => saving'[req[g].of]
  BY <1>1, <1>2, <1>5 DEF OneAtATime
<1> QED BY <1>4, <1>5, <1>6

\* The registry is as it was, or a failure was counted.
LEMMA RegistryRests ==
  ASSUME IInv, UNCHANGED <<registry, directories, lock, fresh, spawned, call>>,
         faults' \in 0..MaxFaults
  PROVE  /\ RInv' /\ Onward /\ spawned' = spawned /\ call' = call
         /\ refs' = refs /\ whole' = whole
         /\ spawned \in Nat /\ spawned' >= spawned
<1>1. RInv
  BY DEF IInv
<1>2. RInv' /\ Onward
  BY <1>1, RUnchanged
<1>3. spawned \in Nat
  BY <1>1 DEF RInv, RegistryTypeOK
<1> QED BY <1>2, <1>3 DEF registry, directories

LEMMA RvarsRest ==
  ASSUME IInv, UNCHANGED rvars
  PROVE  /\ UNCHANGED <<registry, directories, lock, fresh, spawned, call>>
         /\ UNCHANGED <<refs, whole>>
         /\ faults' \in 0..MaxFaults
BY DEF IInv, RInv, RegistryTypeOK, rvars, registry, directories

\* A request ends, and the drafts are as they were.
LEMMA EndsInv ==
  ASSUME IInv, NEW h \in Handler, req[h].at # "idle", Finish(h),
         UNCHANGED <<registry, directories, lock, fresh, spawned, call>>,
         faults' \in 0..MaxFaults, UNCHANGED <<drafts, proc, saves, byHand>>
  PROVE  IInv'
<1>1. RInv' /\ Onward /\ spawned' >= spawned
  BY RegistryRests
<1>2. /\ proc' \in [Service -> Life] /\ byHand' \in 0..MaxByHand
      /\ UNCHANGED <<drafts, saves>>
  BY DEF IInv, TypeOK
<1>3. /\ req' \in [Handler -> Request] /\ req'[h] = Resting
      /\ \A g \in Handler : g # h => req'[g] = req[g]
      /\ saving' \in [Service -> BOOLEAN]
      /\ \A g \in Handler : g # h /\ req[g].at # "idle" => saving'[req[g].of]
  BY FinishFacts
<1> QED BY <1>1, <1>2, <1>3, NoneMoves

\* A request moves on, and the drafts and the calls are as they were.
LEMMA MovesInv ==
  ASSUME IInv, NEW h \in Handler, req[h].at # "idle",
         req' \in [Handler -> Request], req'[h].of = req[h].of,
         \A g \in Handler : g # h => req'[g] = req[g],
         req'[h].draft \in 0..Len(drafts), req'[h].child = req[h].child,
         UNCHANGED <<rvars, drafts, proc, saving, saves, byHand>>,
         Knows(h)'
  PROVE  IInv'
<1> DEFINE o == req[h].of
<1>0. /\ UNCHANGED <<registry, directories, lock, fresh, spawned, call>>
      /\ faults' \in 0..MaxFaults
  BY RvarsRest
<1>1. /\ RInv' /\ Onward /\ refs' = refs /\ whole' = whole
      /\ spawned' = spawned /\ spawned' >= spawned
  BY <1>0, RegistryRests
<1>2. saves \in 0..MaxSaves /\ req[h].child \in 0..spawned
  BY DEF IInv, TypeOK
<1>3. /\ o \in Service /\ saving[o] /\ saving \in [Service -> BOOLEAN]
      /\ \A g \in Handler : g # h /\ req[g].at # "idle" => req[g].of # o
  BY Alone
<1>4. /\ drafts' \in Seq(Draft) /\ Len(drafts') >= Len(drafts) /\ drafts' = drafts
      /\ NamesakesCross' /\ PromotedIsUsable' /\ DraftsGoOn(o)
  BY <1>1, SameDrafts
<1>5. req'[h].draft \in 0..Len(drafts') /\ req'[h].child \in 0..spawned'
  BY <1>1, <1>2, <1>4
<1>6. /\ saving' \in [Service -> BOOLEAN] /\ saving'[o] /\ req'[h].of = o
      /\ \A s \in Service : s # o => saving'[s] = saving[s]
      /\ saves' \in 0..MaxSaves /\ byHand' = byHand /\ proc' = proc
  BY <1>2, <1>3
<1>7. \A g \in Handler : g # h => /\ req'[g] = req[g]
                                  /\ req[g].at # "idle" => req[g].of # o
  BY <1>3
<1> HIDE DEF o
<1> QED BY <1>1, <1>3, <1>4, <1>5, <1>6, <1>7, RequestStep

\* The life of a service: when one ends, its requests end with it.
LEMMA LifeInv ==
  ASSUME IInv, NEW s \in Service, Start(s) \/ Stop(s) \/ Exit(s)
  PROVE  IInv'
<1>1. /\ proc \in [Service -> Life] /\ saving \in [Service -> BOOLEAN]
      /\ req \in [Handler -> Request] /\ byHand \in 0..MaxByHand /\ OneAtATime
  BY DEF IInv, TypeOK
<1>2. /\ UNCHANGED rvars /\ drafts' = drafts /\ saves' = saves /\ byHand' = byHand
      /\ \E l \in Life : proc' = [proc EXCEPT ![s] = l]
  BY DEF Start, Stop, Exit, Life
<1>3. RInv' /\ Onward /\ spawned' >= spawned
  BY <1>2, RvarsRest, RegistryRests
<1>4. proc' \in [Service -> Life] /\ byHand' \in 0..MaxByHand
  BY <1>1, <1>2
<1>5. CASE saving' = saving /\ req' = req
  <2>1. \A g \in Handler : req[g].at # "idle" => saving'[req[g].of]
    BY <1>1, <1>5 DEF OneAtATime
  <2> QED BY <1>1, <1>2, <1>3, <1>4, <1>5, <2>1, NoneMoves
<1>6. CASE Exit(s)
  <2>1. /\ saving' = [saving EXCEPT ![s] = FALSE]
        /\ req' = [h \in Handler |-> IF req[h].of = s THEN Resting ELSE req[h]]
    BY <1>6 DEF Exit
  <2>2. saving' \in [Service -> BOOLEAN] /\ req' \in [Handler -> Request]
    BY <1>1, <2>1, RestingFacts
  <2>3. ASSUME NEW g \in Handler, req'[g] # Resting
        PROVE  req'[g] = req[g] /\ (req[g].at # "idle" => saving'[req[g].of])
    <3>1. req[g].of # s /\ req'[g] = req[g]
      BY <2>1, <2>3
    <3> QED BY <3>1, <1>1, <2>1 DEF OneAtATime
  <2> QED BY <1>2, <1>3, <1>4, <2>2, <2>3, NoneMoves
<1> QED BY <1>5, <1>6 DEF Start, Stop, Exit

\* A request is admitted while its service has none under way.
LEMMA BeginInv ==
  ASSUME IInv, NEW h \in Handler, NEW s \in Service, NEW reusable \in BOOLEAN,
         NEW composed \in BOOLEAN, NEW w \in Word, NEW b \in Bundle,
         Begin(h, s, reusable, composed, w, b)
  PROVE  IInv'
<1> DEFINE asked == [reusable |-> reusable, composed |-> composed,
                     word |-> w, bundle |-> b]
           at == IF reusable THEN "look" ELSE "check"
           new == [at |-> at, of |-> s, draft |-> 0, child |-> 0, asked |-> asked]
<1>1. /\ ~saving[s] /\ saving' = [saving EXCEPT ![s] = TRUE]
      /\ h = saves + 1 /\ saves' = h
      /\ req' = [req EXCEPT ![h] = new]
      /\ UNCHANGED rvars /\ drafts' = drafts /\ proc' = proc /\ byHand' = byHand
  BY DEF Begin, Busy
<1>2. /\ req \in [Handler -> Request] /\ OneAtATime /\ saves \in 0..MaxSaves
      /\ saving \in [Service -> BOOLEAN]
  BY DEF IInv, TypeOK
<1>3. at \in {"look", "check"}
  OBVIOUS
<1>4. /\ new \in Request /\ new.at = at /\ new.draft = 0 /\ new.child = 0
      /\ new.of = s /\ new.asked.word = w /\ new.asked.bundle = b
  BY <1>3 DEF Request, Asked, Location
<1> HIDE DEF new, at
<1>5. /\ req' \in [Handler -> Request] /\ req'[h] = new
      /\ \A g \in Handler : g # h => req'[g] = req[g]
  BY <1>1, <1>2, <1>4
<1>6. /\ \A g \in Handler : req[g].at # "idle" => req[g].of # s
      /\ saving' \in [Service -> BOOLEAN] /\ saving'[s]
      /\ \A t \in Service : t # s => saving'[t] = saving[t]
  BY <1>1, <1>2 DEF OneAtATime
<1>7. /\ RInv' /\ Onward /\ refs' = refs /\ whole' = whole
      /\ spawned' = spawned /\ spawned \in Nat /\ spawned' >= spawned
  BY <1>1, RvarsRest, RegistryRests
<1>8. /\ drafts' \in Seq(Draft) /\ Len(drafts') >= Len(drafts) /\ DraftsGoOn(s)
      /\ NamesakesCross' /\ PromotedIsUsable' /\ Len(drafts') \in Nat
  BY <1>1, <1>7, SameDrafts
<1>9. Knows(h)'
  BY <1>3, <1>4, <1>5 DEF Knows
<1>10. req'[h].draft \in 0..Len(drafts') /\ req'[h].child \in 0..spawned'
  BY <1>4, <1>5, <1>7, <1>8
<1>11. saves' \in 0..MaxSaves /\ req'[h].of = s
  BY <1>1, <1>4, <1>5, SaveAssumption DEF Handler
<1> QED BY <1>1, <1>5, <1>6, <1>7, <1>8, <1>9, <1>10, <1>11, RequestStep

\* The draft of an earlier try is found, promoted or not, or there is none.
LEMMA LookForDraftInv ==
  ASSUME IInv, NEW h \in Handler, LookForDraft(h) PROVE IInv'
<1>1. /\ req[h].at = "look" /\ UNCHANGED rvars
      /\ UNCHANGED <<drafts, proc, saves, byHand>>
  BY DEF LookForDraft
<1>2. /\ req \in [Handler -> Request] /\ Knows(h) /\ drafts \in Seq(Draft)
      /\ req[h].draft \in 0..Len(drafts)
  BY DEF IInv, TypeOK
<1>3. CASE Finish(h)
  BY <1>1, <1>3, RvarsRest, EndsInv
<1>4. CASE Move(h, "check") /\ saving' = saving
  <2>1. /\ req' \in [Handler -> Request] /\ req'[h].of = req[h].of
        /\ req'[h].at = "check" /\ req'[h].asked = req[h].asked
        /\ req'[h].draft = req[h].draft /\ req'[h].child = req[h].child
        /\ \A g \in Handler : g # h => req'[g] = req[g]
    BY <1>2, <1>4, MoveFacts DEF Location
  <2>2. Knows(h)'
    BY <1>1, <1>2, <2>1 DEF Knows
  <2> QED BY <1>1, <1>2, <1>4, <2>1, <2>2, MovesInv
<1>5. ASSUME NEW d \in Namesakes(h), saving' = saving,
             req' = [req EXCEPT ![h].at = "promote", ![h].draft = d]
      PROVE  IInv'
  <2>1. d \in DOMAIN drafts /\ d \in 0..Len(drafts) /\ d \in Nat
    BY <1>2, LenProperties DEF Namesakes
  <2>2. /\ req' \in [Handler -> Request]
        /\ req'[h].at = "promote" /\ req'[h].draft = d
        /\ req'[h].of = req[h].of /\ req'[h].child = req[h].child
        /\ \A g \in Handler : g # h => req'[g] = req[g]
    BY <1>2, <1>5, <2>1 DEF Request, Location
  <2>3. Knows(h)'
    BY <1>1, <2>1, <2>2 DEF Knows
  <2> QED BY <1>1, <1>5, <2>1, <2>2, <2>3, MovesInv
<1> QED BY <1>3, <1>4, <1>5 DEF LookForDraft

\* From here on a draft of this name can only come from another service.
LEMMA CheckNameInv ==
  ASSUME IInv, NEW h \in Handler, CheckName(h) PROVE IInv'
<1>1. /\ req[h].at = "check" /\ UNCHANGED rvars
      /\ UNCHANGED <<drafts, proc, saves, byHand>>
  BY DEF CheckName
<1>2. /\ req \in [Handler -> Request] /\ Knows(h)
      /\ req[h].draft \in 0..Len(drafts)
  BY DEF IInv, TypeOK
<1>3. CASE Finish(h)
  BY <1>1, <1>3, RvarsRest, EndsInv
<1>4. CASE Move(h, "write") /\ saving' = saving /\ ~Taken(req[h].asked.word)
  <2>1. /\ req' \in [Handler -> Request] /\ req'[h].of = req[h].of
        /\ req'[h].at = "write" /\ req'[h].asked = req[h].asked
        /\ req'[h].draft = req[h].draft /\ req'[h].child = req[h].child
        /\ \A g \in Handler : g # h => req'[g] = req[g]
    BY <1>2, <1>4, MoveFacts DEF Location
  <2>2. \A d \in DOMAIN drafts' : drafts'[d].word # req'[h].asked.word
    BY <1>1, <1>4, <2>1 DEF Taken
  <2>3. Knows(h)'
    BY <1>1, <1>2, <2>1, <2>2 DEF Knows
  <2> QED BY <1>1, <1>2, <1>4, <2>1, <2>3, MovesInv
<1> QED BY <1>3, <1>4 DEF CheckName

\* What this save knows of its namesakes is what NamesakesCross asks of the draft.
LEMMA WriteDraftInv ==
  ASSUME IInv, NEW h \in Handler, WriteDraft(h) PROVE IInv'
<1> DEFINE o == req[h].of
           new == [word |-> req[h].asked.word, bundle |-> req[h].asked.bundle,
                   voice |-> None, by |-> o,
                   among |-> {s \in Service : saving[s]}]
           n == Len(drafts) + 1
<1>1. /\ req[h].at = "write" /\ UNCHANGED rvars
      /\ drafts' = Append(drafts, new)
      /\ UNCHANGED <<proc, saves, byHand>>
  BY DEF WriteDraft
<1>2. /\ req \in [Handler -> Request] /\ Knows(h) /\ drafts \in Seq(Draft)
      /\ saves \in 0..MaxSaves /\ req[h].child \in 0..spawned
      /\ NamesakesCross /\ PromotedIsUsable
  BY DEF IInv, TypeOK
<1>3. /\ o \in Service /\ saving[o] /\ saving \in [Service -> BOOLEAN]
      /\ \A g \in Handler : g # h /\ req[g].at # "idle" => req[g].of # o
  BY <1>1, Alone
<1>4. /\ new \in Draft /\ new.word = req[h].asked.word /\ new.voice = None
      /\ new.by = o /\ new.among = {s \in Service : saving[s]}
      /\ \A d \in DOMAIN drafts : drafts[d].word = new.word =>
           drafts[d].by # o /\ o \in drafts[d].among
  <2>1. /\ req[h].asked.word \in Word /\ req[h].asked.bundle \in Bundle
        /\ \A d \in DOMAIN drafts : drafts[d].word = req[h].asked.word =>
             drafts[d].by # o /\ o \in drafts[d].among
    BY <1>1, <1>2 DEF Knows
  <2> HIDE DEF o
  <2> QED BY <1>3, <2>1 DEF Draft, None
<1> HIDE DEF new
<1>5. /\ drafts' \in Seq(Draft) /\ Len(drafts') = n /\ Len(drafts) \in Nat
      /\ DOMAIN drafts = 1..Len(drafts) /\ DOMAIN drafts' = 1..n
      /\ drafts'[n] = new
      /\ \A d \in DOMAIN drafts : drafts'[d] = drafts[d]
  BY <1>1, <1>2, <1>4, LenProperties, AppendProperties
<1>6. NamesakesCross'
  <2> SUFFICES ASSUME NEW c \in DOMAIN drafts', NEW d \in DOMAIN drafts',
                      c < d, drafts'[c].word = drafts'[d].word
               PROVE  /\ drafts'[c].by # drafts'[d].by
                      /\ drafts'[d].by \in drafts'[c].among
    BY DEF NamesakesCross
  <2>1. c \in DOMAIN drafts /\ (d \in DOMAIN drafts \/ d = n)
    BY <1>5
  <2>2. CASE d = n
    BY <2>1, <2>2, <1>4, <1>5
  <2>3. CASE d \in DOMAIN drafts
    BY <2>1, <2>3, <1>2, <1>5 DEF NamesakesCross
  <2> QED BY <2>1, <2>2, <2>3
<1>7. /\ RInv' /\ Onward /\ refs' = refs /\ whole' = whole
      /\ spawned' = spawned /\ spawned \in Nat /\ spawned' >= spawned
  BY <1>1, RvarsRest, RegistryRests
<1>8. PromotedIsUsable'
  <2> SUFFICES ASSUME NEW d \in DOMAIN drafts', drafts'[d].voice # None
               PROVE  ( /\ [voice |-> drafts[d].voice, bundle |-> drafts[d].bundle,
                            op |-> d] \in refs
                        /\ Loads(drafts[d].voice, drafts[d].bundle) )'
    BY DEF PromotedIsUsable
  <2>1. d \in DOMAIN drafts /\ drafts'[d] = drafts[d]
    BY <1>4, <1>5
  <2> QED BY <2>1, <1>2, <1>7 DEF PromotedIsUsable, Loads
<1>9. DraftsGoOn(o)
  <2>1. DOMAIN drafts \subseteq DOMAIN drafts' /\ DOMAIN drafts' \ DOMAIN drafts \subseteq {n}
    BY <1>5
  <2> HIDE DEF n, o
  <2> QED BY <2>1, <1>4, <1>5 DEF DraftsGoOn
<1>10. /\ saves' \in 0..MaxSaves /\ byHand' = byHand /\ proc' = proc
       /\ Len(drafts') >= Len(drafts)
  BY <1>1, <1>2, <1>5
<1>11. CASE Finish(h)
  <2>1. /\ req' \in [Handler -> Request] /\ req'[h] = Resting
        /\ \A g \in Handler : g # h => req'[g] = req[g]
        /\ saving' \in [Service -> BOOLEAN]
        /\ \A s \in Service : s # o => saving'[s] = saving[s]
    BY <1>1, <1>11, FinishFacts
  <2>2. /\ req'[h].at = "idle" /\ req'[h].draft \in 0..Len(drafts')
        /\ req'[h].child \in 0..spawned'
    BY <2>1, <1>5, <1>7, RestingFacts
  <2>3. Knows(h)'
    BY <2>2 DEF Knows
  <2> HIDE DEF o
  <2> QED BY <1>3, <1>5, <1>6, <1>7, <1>8, <1>9, <1>10, <2>1, <2>2, <2>3,
             RequestStep
<1>12. CASE saving' = saving
            /\ req' = [req EXCEPT ![h].at = "promote", ![h].draft = n]
  <2>1. n \in Nat
    BY <1>5
  <2>2. /\ req' \in [Handler -> Request]
        /\ req'[h].at = "promote" /\ req'[h].draft = n /\ req'[h].of = o
        /\ req'[h].child = req[h].child
        /\ \A g \in Handler : g # h => req'[g] = req[g]
    BY <1>2, <1>12, <2>1 DEF Request, Location
  <2>3. n \in DOMAIN drafts'
    BY <1>5
  <2>4. Knows(h)'
    BY <2>2, <2>3 DEF Knows
  <2>5. req'[h].draft \in 0..Len(drafts') /\ req'[h].child \in 0..spawned'
    BY <2>2, <1>2, <1>5, <1>7
  <2>6. /\ saving' \in [Service -> BOOLEAN] /\ saving'[o]
        /\ \A s \in Service : s # o => saving'[s] = saving[s]
    BY <1>3, <1>12
  <2> HIDE DEF o
  <2> QED BY <1>3, <1>5, <1>6, <1>7, <1>8, <1>9, <1>10, <2>2, <2>4, <2>5, <2>6,
             RequestStep
<1> QED BY <1>11, <1>12 DEF WriteDraft

\* The call is made for this draft, its operation and no given voice.
LEMMA StartPromotionInv ==
  ASSUME IInv, NEW h \in Handler, StartPromotion(h) PROVE IInv'
<1> DEFINE d == req[h].draft
           n == spawned + 1
           o == req[h].of
<1>1. /\ req[h].at = "promote"
      /\ Spawn(drafts[d].bundle, d, None)
      /\ req' = [req EXCEPT ![h].at = "await", ![h].child = n]
      /\ UNCHANGED <<drafts, proc, saving, saves, byHand>>
  BY DEF StartPromotion
<1>2. /\ req \in [Handler -> Request] /\ Knows(h) /\ drafts \in Seq(Draft)
      /\ saves \in 0..MaxSaves /\ d \in 0..Len(drafts) /\ RInv
  BY DEF IInv, TypeOK
<1>3. d \in DOMAIN drafts /\ d \in Nat /\ None \in Nat
  BY <1>1, <1>2, LenProperties DEF Knows, None
<1>4. drafts[d].bundle \in Bundle
  <2>1. drafts[d] \in Draft
    BY <1>2, <1>3, ElementOfSeq, LenProperties
  <2> QED BY <2>1 DEF Draft
<1>5. /\ RInv' /\ Onward /\ spawned' = n /\ n \in Call
      /\ call'[n].pc = "lock" /\ call'[n].bundle = drafts[d].bundle
      /\ call'[n].op = d /\ call'[n].voice = None
  <2> DEFINE b == drafts[d].bundle
  <2>1. Spawn(b, d, None) /\ b \in Bundle
    BY <1>1, <1>4
  <2> HIDE DEF b, d, n
  <2>2. /\ RInv' /\ spawned' = spawned + 1 /\ spawned' \in Call
        /\ call'[spawned'].pc = "lock" /\ call'[spawned'].bundle = b
        /\ call'[spawned'].op = d /\ call'[spawned'].voice = None
    BY <2>1, <1>2, <1>3, SpawnStep
  <2>3. Onward
    BY <2>1, <1>2, <1>3, SpawnedOn
  <2> QED BY <2>2, <2>3 DEF b, n
<1>6. refs' = refs /\ whole' = whole
  BY <1>1 DEF Spawn, registry, directories
<1>7. n \in Nat /\ n \in 1..spawned' /\ n \in 0..spawned' /\ spawned' >= spawned
  BY <1>2, <1>5 DEF RInv, RegistryTypeOK
<1>8. /\ o \in Service /\ saving[o] /\ saving \in [Service -> BOOLEAN]
      /\ \A g \in Handler : g # h /\ req[g].at # "idle" => req[g].of # o
  BY <1>1, Alone
<1>9. /\ req' \in [Handler -> Request] /\ req'[h].of = o
      /\ req'[h].at = "await" /\ req'[h].draft = d /\ req'[h].child = n
      /\ \A g \in Handler : g # h => req'[g] = req[g]
  <2> HIDE DEF n
  <2> QED BY <1>1, <1>2, <1>7 DEF Request, Location
<1>10. /\ drafts' \in Seq(Draft) /\ Len(drafts') >= Len(drafts) /\ DraftsGoOn(o)
       /\ NamesakesCross' /\ PromotedIsUsable'
  BY <1>1, <1>6, SameDrafts
<1>11. Knows(h)'
  <2>1. drafts' = drafts
    BY <1>1
  <2> HIDE DEF d, n
  <2> QED BY <2>1, <1>3, <1>5, <1>7, <1>9 DEF Knows
<1>12. req'[h].draft \in 0..Len(drafts') /\ req'[h].child \in 0..spawned'
  BY <1>1, <1>2, <1>7, <1>9
<1>13. /\ saving' = saving /\ saves' \in 0..MaxSaves
       /\ byHand' = byHand /\ proc' = proc
  BY <1>1, <1>2
<1> HIDE DEF d, n, o
<1> QED BY <1>5, <1>7, <1>8, <1>9, <1>10, <1>11, <1>12, <1>13, RequestStep

LEMMA PromotionEndsInv ==
  ASSUME IInv, NEW h \in Handler, PromotionEnds(h) PROVE IInv'
<1>1. /\ req[h].at = "await" /\ UNCHANGED rvars
      /\ UNCHANGED <<drafts, proc, saves, byHand>>
  BY DEF PromotionEnds
<1>2. /\ req \in [Handler -> Request] /\ Knows(h)
      /\ req[h].draft \in 0..Len(drafts)
  BY DEF IInv, TypeOK
<1>3. CASE Finish(h)
  BY <1>1, <1>3, RvarsRest, EndsInv
<1>4. CASE /\ Move(h, "commit") /\ saving' = saving
           /\ call[req[h].child].pc = "ok"
  <2>1. /\ req' \in [Handler -> Request] /\ req'[h].of = req[h].of
        /\ req'[h].at = "commit" /\ req'[h].asked = req[h].asked
        /\ req'[h].draft = req[h].draft /\ req'[h].child = req[h].child
        /\ \A g \in Handler : g # h => req'[g] = req[g]
    BY <1>2, <1>4, MoveFacts DEF Location
  <2>2. call' = call /\ spawned' = spawned
    BY <1>1 DEF rvars
  <2>3. Knows(h)'
    BY <1>1, <1>2, <1>4, <2>1, <2>2 DEF Knows
  <2> QED BY <1>1, <1>2, <1>4, <2>1, <2>3, MovesInv
<1> QED BY <1>3, <1>4 DEF PromotionEnds

\* The call entered the draft's operation, and the draft gets the voice it named.
LEMMA CommitDraftInv ==
  ASSUME IInv, NEW h \in Handler, CommitDraft(h) PROVE IInv'
<1> DEFINE d == req[h].draft
           c == req[h].child
           v == call[c].id
           o == req[h].of
<1>1. /\ req[h].at = "commit" /\ UNCHANGED rvars /\ Finish(h)
      /\ drafts' = [drafts EXCEPT ![d].voice = v]
      /\ UNCHANGED <<proc, saves, byHand>>
  BY DEF CommitDraft
<1>2. /\ Knows(h) /\ drafts \in Seq(Draft)
      /\ saves \in 0..MaxSaves /\ NamesakesCross /\ PromotedIsUsable
      /\ RInv
  BY DEF IInv, TypeOK
<1>3. /\ d \in DOMAIN drafts /\ c \in 1..spawned
      /\ call[c].pc = "ok" /\ call[c].voice = None /\ call[c].op = d
      /\ call[c].bundle = drafts[d].bundle
  BY <1>1, <1>2 DEF Knows
<1>4. /\ DOMAIN drafts = 1..Len(drafts) /\ Len(drafts) \in Nat
      /\ \A e \in DOMAIN drafts : drafts[e] \in Draft
  BY <1>2, LenProperties, ElementOfSeq
<1>5. c \in Call /\ d # None
  <2>1. spawned \in 0..MaxCalls
    BY <1>2 DEF RInv, RegistryTypeOK
  <2> HIDE DEF c, d
  <2> QED BY <2>1, <1>3, <1>4, RegistryAssumption DEF Call, None
<1>6. v \in Nat
  BY <1>2, <1>5 DEF RInv, RegistryTypeOK, CallRecord
<1>7. /\ [voice |-> v, bundle |-> drafts[d].bundle, op |-> d] \in refs
  BY <1>2, <1>3, <1>5 DEF RInv, Entered, ReferenceOf
<1>8. Loads(v, drafts[d].bundle)
  BY <1>2, <1>7 DEF RInv, RegistryOK
<1>9. /\ drafts' \in Seq(Draft) /\ DOMAIN drafts' = DOMAIN drafts
      /\ Len(drafts') = Len(drafts)
      /\ \A e \in DOMAIN drafts : /\ drafts'[e].word = drafts[e].word
                                  /\ drafts'[e].bundle = drafts[e].bundle
                                  /\ drafts'[e].by = drafts[e].by
                                  /\ drafts'[e].among = drafts[e].among
                                  /\ e # d => drafts'[e] = drafts[e]
      /\ drafts'[d].voice = v
  <2> DEFINE new == [drafts[d] EXCEPT !.voice = v]
  <2>1. /\ new \in Draft /\ new.voice = v /\ new.word = drafts[d].word
        /\ new.bundle = drafts[d].bundle
        /\ new.by = drafts[d].by /\ new.among = drafts[d].among
    BY <1>3, <1>4, <1>6 DEF Draft
  <2>2. drafts' = [drafts EXCEPT ![d] = new]
    BY <1>1
  <2> HIDE DEF new, d, v
  <2>3. drafts' \in Seq(Draft) /\ Len(drafts') = Len(drafts)
    BY <2>1, <2>2, <1>2, <1>3, <1>4, ExceptSeq
  <2> QED BY <2>1, <2>2, <2>3, <1>3, <1>4
<1>10. /\ RInv' /\ Onward /\ refs' = refs /\ whole' = whole
       /\ spawned' = spawned /\ spawned \in Nat /\ spawned' >= spawned
  BY <1>1, RvarsRest, RegistryRests
<1>11. NamesakesCross' /\ DraftsGoOn(o)
  <2> HIDE DEF d, v, o
  <2>1. NamesakesCross'
    BY <1>2, <1>9 DEF NamesakesCross
  <2>2. DraftsGoOn(o)
    BY <1>9 DEF DraftsGoOn
  <2> QED BY <2>1, <2>2
<1>12. PromotedIsUsable'
  <2> SUFFICES ASSUME NEW e \in DOMAIN drafts', drafts'[e].voice # None
               PROVE  ( /\ [voice |-> drafts[e].voice, bundle |-> drafts[e].bundle,
                            op |-> e] \in refs
                        /\ Loads(drafts[e].voice, drafts[e].bundle) )'
    BY DEF PromotedIsUsable
  <2>1. CASE e = d
    BY <2>1, <1>3, <1>7, <1>8, <1>9, <1>10 DEF Loads
  <2>2. CASE e # d
    BY <2>2, <1>2, <1>9, <1>10 DEF PromotedIsUsable, Loads
  <2> QED BY <2>1, <2>2
<1>13. /\ req' \in [Handler -> Request] /\ req'[h] = Resting
       /\ \A g \in Handler : g # h => req'[g] = req[g]
       /\ saving' \in [Service -> BOOLEAN]
       /\ \A s \in Service : s # o => saving'[s] = saving[s]
  BY <1>1, FinishFacts
<1>14. /\ o \in Service
       /\ \A g \in Handler : g # h /\ req[g].at # "idle" => req[g].of # o
  BY <1>1, Alone
<1>15. /\ req'[h].at = "idle" /\ req'[h].draft \in 0..Len(drafts')
       /\ req'[h].child \in 0..spawned' /\ Len(drafts') >= Len(drafts)
  BY <1>4, <1>9, <1>10, <1>13, RestingFacts
<1>16. Knows(h)'
  BY <1>15 DEF Knows
<1>17. saves' \in 0..MaxSaves /\ byHand' = byHand /\ proc' = proc
  BY <1>1, <1>2
<1> HIDE DEF d, c, v, o
<1> QED BY <1>9, <1>10, <1>11, <1>12, <1>13, <1>14, <1>15, <1>16, <1>17,
           RequestStep

LEMMA SaveFailsInv == ASSUME IInv, NEW h \in Handler, SaveFails(h) PROVE IInv'
<1>1. /\ req[h].at # "idle" /\ Finish(h)
      /\ UNCHANGED <<registry, directories, lock, fresh, spawned, call>>
      /\ faults' = faults + 1 /\ faults < MaxFaults
      /\ UNCHANGED <<drafts, proc, saves, byHand>>
  BY DEF SaveFails
<1>2. faults' \in 0..MaxFaults
  BY <1>1, RegistryAssumption DEF IInv, RInv, RegistryTypeOK
<1> QED BY <1>1, <1>2, EndsInv

\* A step that is none of the service's.
LEMMA ElsewhereInv ==
  ASSUME IInv, RInv', Onward, spawned' >= spawned, UNCHANGED service,
         byHand' \in 0..MaxByHand
  PROVE  IInv'
<1>1. UNCHANGED <<drafts, saves>> /\ proc' = proc /\ saving' = saving /\ req' = req
  BY DEF service
<1>2. /\ proc' \in [Service -> Life] /\ saving' \in [Service -> BOOLEAN]
      /\ req' \in [Handler -> Request]
      /\ \A g \in Handler : req[g].at # "idle" => saving'[req[g].of]
  BY <1>1 DEF IInv, TypeOK, OneAtATime
<1> QED BY <1>1, <1>2, NoneMoves

LEMMA InitInv == Init => IInv
<1> SUFFICES ASSUME Init PROVE IInv
  OBVIOUS
<1>1. RInv /\ RegistryTypeOK
  BY RInitInv DEF Init, RInv
<1>2. /\ drafts = <<>> /\ saves = 0 /\ byHand = 0 /\ spawned = 0
      /\ proc = [s \in Service |-> "new"] /\ saving = [s \in Service |-> FALSE]
      /\ req = [h \in Handler |-> Resting]
  BY DEF Init, RInit
<1>3. /\ drafts \in Seq(Draft) /\ Len(drafts) = 0 /\ DOMAIN drafts = {}
  BY <1>2, EmptySeq
<1>4. /\ req \in [Handler -> Request]
      /\ \A h \in Handler : /\ req[h].at = "idle"
                            /\ req[h].draft = 0 /\ req[h].child = 0
  BY <1>2, RestingFacts
<1>5. TypeOK
  <2>1. saves \in 0..MaxSaves /\ byHand \in 0..MaxByHand
    BY <1>2, SaveAssumption
  <2>2. proc \in [Service -> Life] /\ saving \in [Service -> BOOLEAN]
    BY <1>2 DEF Life
  <2>3. \A h \in Handler : /\ req[h].draft \in 0..Len(drafts)
                           /\ req[h].child \in 0..spawned
    BY <1>2, <1>3, <1>4
  <2> QED BY <2>1, <2>2, <2>3, <1>1, <1>3, <1>4 DEF TypeOK
<1>6. NamesakesCross /\ PromotedIsUsable
  BY <1>3 DEF NamesakesCross, PromotedIsUsable
<1>7. OneAtATime /\ \A h \in Handler : Knows(h)
  BY <1>4 DEF OneAtATime, Knows
<1> QED BY <1>1, <1>5, <1>6, <1>7 DEF IInv

LEMMA Inductive == ASSUME IInv, [Next]_vars PROVE IInv'
<1>0. /\ RInv /\ byHand \in 0..MaxByHand /\ spawned \in Nat /\ fresh \in Nat
      /\ Len(drafts) \in Nat
  BY LenProperties DEF IInv, TypeOK, RInv, RegistryTypeOK
<1>1. ASSUME NEW h \in Handler, HandlerStep(h) \/ SaveFails(h) PROVE IInv'
  BY <1>1, LookForDraftInv, CheckNameInv, WriteDraftInv, StartPromotionInv,
     PromotionEndsInv, CommitDraftInv, SaveFailsInv DEF HandlerStep
<1>2. ASSUME NEW b \in Bundle, NEW op \in 0..Len(drafts), NEW v \in 0..fresh,
             CommandLine(b, op, v)
      PROVE  IInv'
  <2>1. op \in Nat /\ v \in Nat
    BY <1>0
  <2>2. Spawn(b, op, v) /\ UNCHANGED service /\ byHand' \in 0..MaxByHand
    BY <1>0, <1>2, SaveAssumption DEF CommandLine
  <2>3. RInv' /\ spawned' = spawned + 1
    BY <1>0, <2>1, <2>2, SpawnStep
  <2>4. Onward
    BY <1>0, <2>1, <2>2, SpawnedOn
  <2>5. spawned' >= spawned
    BY <1>0, <2>3
  <2> QED BY <2>2, <2>3, <2>4, <2>5, ElsewhereInv
<1>3. ASSUME NEW c \in Call, CallStep(c) \/ Die(c), UNCHANGED <<service, byHand>>
      PROVE  IInv'
  <2>1. RInv' /\ Onward
    BY <1>0, <1>3, CallInv
  <2>2. spawned' = spawned
    BY <1>3 DEF CallStep, Die, LockRegistry, Replay, UnknownVoice, Reuse,
                MakeDirectory, FillDirectory, SaveRegistry, Report, Found, Rejected
  <2>3. spawned' >= spawned /\ byHand' \in 0..MaxByHand /\ UNCHANGED service
    BY <1>0, <1>3, <2>2
  <2> QED BY <2>1, <2>3, ElsewhereInv
<1>4. CASE UNCHANGED vars
  <2>1. UNCHANGED rvars /\ UNCHANGED service /\ byHand' = byHand
    BY <1>4 DEF vars
  <2>2. RInv' /\ Onward /\ spawned' >= spawned
    BY <2>1, RvarsRest, RegistryRests
  <2> QED BY <1>0, <2>1, <2>2, ElsewhereInv
<1>5. ASSUME NEW s \in Service, Start(s) \/ Stop(s) \/ Exit(s) PROVE IInv'
  BY <1>5, LifeInv
<1> QED BY <1>1, <1>2, <1>3, <1>4, <1>5, BeginInv DEF Next, Calls, Rest

\* The inductive invariant holds of every behaviour of the service, its calls and
\* the command line.
THEOREM Invariance == Spec => []IInv
<1>1. Init => IInv
  BY InitInv
<1>2. IInv /\ [Next]_vars => IInv'
  BY Inductive
<1> QED BY <1>1, <1>2, PTL DEF Spec

\* Every variable always has its type (TypeOK).
THEOREM TypeCorrect == Spec => []TypeOK
<1>1. IInv => TypeOK
  BY DEF IInv
<1> QED BY <1>1, Invariance, PTL

\* However often a save is retried, killed or run twice at once, its operation
\* makes one reference of one voice: promote_once alone, under any callers.
THEOREM OneVoice == RSpec => []OneVoicePerOperation
<1>1. RInit => RInv
  BY RInitInv
<1>2. RInv /\ [RNext]_rvars => RInv'
  BY RInductive
<1>3. RInv => OneVoicePerOperation
  BY DEF RInv
<1> QED BY <1>1, <1>2, <1>3, PTL DEF RSpec

\* And with the service as one of the callers.
THEOREM OneVoiceOfService == Spec => []OneVoicePerOperation
<1>1. IInv => OneVoicePerOperation
  BY DEF IInv, RInv
<1> QED BY <1>1, Invariance, PTL

\* However many services are started, stopped and killed on the data directory,
\* two drafts of one name are always of two services, the later of one that was
\* saving when the earlier was made: a service alone, or one after another, never
\* makes two.
THEOREM NamesakesOnlyCross == Spec => []NamesakesCross
<1>1. IInv => NamesakesCross
  BY DEF IInv
<1> QED BY <1>1, Invariance, PTL

\* A promoted draft names a voice with this audition that loads, entered by the
\* draft's own operation, after any history of failures, restarts and retries.
THEOREM PromotedVoicesLoad == Spec => []PromotedIsUsable
<1>1. IInv => PromotedIsUsable
  BY DEF IInv
<1> QED BY <1>1, Invariance, PTL
=============================================================================
