------------------------ MODULE AnnotationBankProofs ------------------------
(***************************************************************************)
(* Proofs about AnnotationBank.tla, for any number of clients, intents and *)
(* calls of save: nobody overwrites a record he has not seen, no intent is *)
(* carried out twice, and what is answered as saved was written.           *)
(*                                                                         *)
(* The argument: an intent that is based on revision e can only ever be    *)
(* revision e + 1, whichever call carries it and however often.            *)
(***************************************************************************)
EXTENDS AnnotationBank, TLAPS

Length == Len(log)

\* The stored record is the last one written, and each was based on the one before.
LogInv ==
  /\ record.rev = Length /\ record.op = OpAt(Length)
  /\ Length > 0 => record.text = log[Length].text
  /\ \A n \in 1..Length : log[n].base = OpAt(n - 1)
  /\ \A n \in 1..Length : log[n].op <= ops
  /\ \A m, n \in 1..Length : log[m].op = log[n].op => m = n

Knows(rev, op) == rev <= Length /\ op = OpAt(rev)
Placed(op, expected) == \A n \in 1..Length : log[n].op = op => n = expected + 1

\* Clients have seen records that were written.
ShownInv == \A c \in Client : Knows(shown[c].rev, shown[c].op)

\* So have the authors of intents, and an intent has one place in the log.
IntentInv ==
  \A c \in Client :
    /\ intent[c].op = NoOp => intent[c] = NoIntent
    /\ intent[c].op # NoOp =>
         /\ intent[c].op <= ops
         /\ Knows(intent[c].expected, intent[c].base)
         /\ Placed(intent[c].op, intent[c].expected)

SaveInv ==
  \A h \in Saves : save[h].pc \notin {"unsent", "over"} =>
    /\ save[h].op # NoOp /\ save[h].op <= ops /\ save[h].text \in Text
    /\ Knows(save[h].expected, save[h].base)
    /\ Placed(save[h].op, save[h].expected)

\* Whoever carries the same intent agrees on its place.
AgreeInv ==
  /\ \A c, d \in Client : intent[c].op = intent[d].op /\ intent[c].op # NoOp =>
       intent[c].expected = intent[d].expected
  /\ \A c \in Client, h \in Saves : intent[c].op = save[h].op /\ intent[c].op # NoOp =>
       intent[c].expected = save[h].expected
  /\ \A g, h \in Saves : save[g].op = save[h].op /\ save[g].op # NoOp =>
       save[g].expected = save[h].expected

\* One save at a time is between the creation of the lock file and its removal,
\* and it decides on the record it read.
Holds(h) ==
  /\ save[h].pc \in Locked => lock = h
  /\ save[h].pc \in {"backup", "replace"} => record.rev = save[h].expected
  /\ save[h].result = "saved" =>
       /\ save[h].pc \in {"unlock", "reply"} /\ save[h].expected + 1 <= Length
       /\ log[save[h].expected + 1].op = save[h].op
       /\ log[save[h].expected + 1].text = save[h].text
  /\ save[h].pc \in {"unsent", "over"} =>
       save[h].op = NoOp /\ save[h].result = "none"

LockInv == \A h \in Saves : Holds(h)

IInv == TypeOK /\ LogInv /\ ShownInv /\ IntentInv /\ SaveInv /\ AgreeInv /\ LockInv
-----------------------------------------------------------------------------
LEMMA InitInv == Init => IInv
<1> SUFFICES ASSUME Init PROVE IInv
  OBVIOUS
<1> USE BankAssumption DEF Init, NoSave, NoIntent, Absent
<1>1. TypeOK
  BY DEF TypeOK, Stored, Version, Locked, SaveRecord, Entry
<1>2. Length = 0
  BY DEF Length
<1>3. LogInv /\ ShownInv
  BY <1>2 DEF LogInv, ShownInv, Knows, OpAt
<1>4. IntentInv /\ SaveInv /\ AgreeInv
  BY DEF IntentInv, SaveInv, AgreeInv
<1>5. LockInv
  BY DEF LockInv, Holds, Locked
<1> QED BY <1>1, <1>3, <1>4, <1>5 DEF IInv

Same(g) == /\ save'[g].op = save[g].op /\ save'[g].text = save[g].text
           /\ save'[g].expected = save[g].expected /\ save'[g].base = save[g].base

\* What a step of one save does to the calls of save.
LEMMA GotoFacts ==
  ASSUME TypeOK, NEW h \in Saves, NEW pc \in Locked \union {"reply"}, Goto(h, pc)
  PROVE  /\ save' \in [Saves -> SaveRecord]
         /\ \A g \in Saves : Same(g)
         /\ \A g \in Saves \ {h} : save'[g] = save[g]
         /\ save'[h].pc = pc /\ save'[h].result = save[h].result
<1>1. save[h] \in SaveRecord
  BY DEF TypeOK
<1>2. [save[h] EXCEPT !.pc = pc] \in SaveRecord
  BY <1>1 DEF SaveRecord
<1>3. save' = [save EXCEPT ![h] = [save[h] EXCEPT !.pc = pc]]
  BY <1>1 DEF Goto, TypeOK
<1> QED BY <1>1, <1>2, <1>3 DEF TypeOK, Same, SaveRecord

LEMMA ConcludeFacts ==
  ASSUME TypeOK, NEW h \in Saves, NEW pc \in {"unlock", "reply"},
         NEW result \in {"saved", "conflict", "busy", "failed"}, Conclude(h, pc, result)
  PROVE  /\ save' \in [Saves -> SaveRecord]
         /\ \A g \in Saves : Same(g)
         /\ \A g \in Saves \ {h} : save'[g] = save[g]
         /\ save'[h].pc = pc /\ save'[h].result = result
<1> DEFINE r == [save[h] EXCEPT !.pc = pc, !.result = result]
<1>1. save[h] \in SaveRecord
  BY DEF TypeOK
<1>2. r \in SaveRecord
  BY <1>1 DEF SaveRecord, Locked
<1>3. save' = [save EXCEPT ![h] = r]
  BY <1>1 DEF Conclude, TypeOK
<1>4. /\ r.op = save[h].op /\ r.text = save[h].text /\ r.expected = save[h].expected
      /\ r.base = save[h].base /\ r.pc = pc /\ r.result = result
  BY <1>1 DEF SaveRecord
<1> HIDE DEF r
<1> QED BY <1>2, <1>3, <1>4 DEF TypeOK, Same

LEMMA ForgetFacts ==
  ASSUME TypeOK, NEW h \in Saves, Forget(h)
  PROVE  /\ save' \in [Saves -> SaveRecord]
         /\ \A g \in Saves \ {h} : save'[g] = save[g]
         /\ save'[h] = NoSave("over")
<1>1. NoSave("over") \in SaveRecord
  BY DEF NoSave, SaveRecord
<1> QED BY <1>1 DEF Forget, TypeOK

Quiet(h) ==
  /\ UNCHANGED <<record, shown, intent, ops, log>>
  /\ \/ /\ \A g \in Saves : Same(g)
        /\ save[h].pc \notin {"unsent", "over"}
     \/ save'[h] = NoSave("over")
  /\ \A g \in Saves \ {h} : save'[g] = save[g]

\* A step that writes no record and answers nobody leaves intents where they were.
LEMMA QuietKeeps ==
  ASSUME IInv, NEW h \in Saves, Quiet(h)
  PROVE  LogInv' /\ ShownInv' /\ IntentInv' /\ SaveInv' /\ AgreeInv'
<1> USE DEF IInv
<1>0. \A g \in Saves : Same(g) \/ save'[g] = NoSave("over")
  BY DEF Quiet, Same
<1>1. LogInv'
  BY DEF Quiet, LogInv, Length, OpAt
<1>2. ShownInv'
  BY DEF Quiet, ShownInv, Knows, Length, OpAt
<1>3. IntentInv'
  BY DEF Quiet, IntentInv, Knows, Placed, Length, OpAt
<1>4. SaveInv'
  <2> SUFFICES ASSUME NEW g \in Saves, save'[g].pc \notin {"unsent", "over"}
               PROVE  (/\ save[g].op # NoOp /\ save[g].op <= ops /\ save[g].text \in Text
                       /\ Knows(save[g].expected, save[g].base)
                       /\ Placed(save[g].op, save[g].expected))'
    BY DEF SaveInv
  <2>1. Same(g) /\ save[g].pc \notin {"unsent", "over"}
    BY <1>0 DEF Quiet, NoSave
  <2>2. UNCHANGED <<log, ops>>
    BY DEF Quiet
  <2> QED BY <2>1, <2>2 DEF Same, SaveInv, Knows, Placed, OpAt, Length
<1>5. AgreeInv'
  <2>1. \A g \in Saves : save'[g].op # NoOp => Same(g)
    BY <1>0 DEF NoSave
  <2> QED BY <2>1 DEF AgreeInv, Same, Quiet
<1> QED BY <1>1, <1>2, <1>3, <1>4, <1>5

LEMMA TypesStep ==
  ASSUME IInv, [Next]_vars
  PROVE  TypeOK'
<1> USE BankAssumption DEF IInv, TypeOK
<1>1. ASSUME NEW c \in Client, Reload(c) PROVE TypeOK'
  BY <1>1 DEF Reload, NoIntent, Stored, Version
<1>2. ASSUME NEW c \in Client, Decide(c) PROVE TypeOK'
  <2>1. ops' \in 0..MaxOps /\ ops + 1 \in Op
    BY <1>2 DEF Decide, Op
  <2>2. shown[c] \in Version
    OBVIOUS
  <2>3. intent' \in [Client -> [op : Op \union {NoOp}, expected : Nat,
                                base : Op \union {NoOp}]]
    BY <1>2, <2>1, <2>2 DEF Decide, Version
  <2> QED BY <1>2, <2>1, <2>3 DEF Decide
<1>3. ASSUME NEW c \in Client, NEW h \in Saves, NEW text \in Text, Send(c, h, text)
      PROVE  TypeOK'
  BY <1>3 DEF Send, SaveRecord
<1>4. ASSUME NEW h \in Saves, OpenLock(h) PROVE TypeOK'
  <2>1. save' \in [Saves -> SaveRecord]
    BY <1>4, GotoFacts, ConcludeFacts DEF OpenLock, Locked
  <2> QED BY <1>4, <2>1 DEF OpenLock, Saves
<1>5. ASSUME NEW h \in Saves, Read(h) PROVE TypeOK'
  <2>1. save' \in [Saves -> SaveRecord]
    BY <1>5, GotoFacts, ConcludeFacts DEF Read, Locked
  <2> QED BY <1>5, <2>1 DEF Read
<1>6. ASSUME NEW h \in Saves, KeepPrevious(h) PROVE TypeOK'
  <2>1. save' \in [Saves -> SaveRecord]
    BY <1>6, GotoFacts DEF KeepPrevious, Locked
  <2> QED BY <1>6, <2>1 DEF KeepPrevious, Backup
<1>7. ASSUME NEW h \in Saves, Replace(h) PROVE TypeOK'
  <2>1. save' \in [Saves -> SaveRecord]
    BY <1>7, ConcludeFacts DEF Replace
  <2>2. save[h] \in SaveRecord /\ save[h].op \in Op /\ save[h].text \in Text
    BY <1>7 DEF Replace, SaveInv, SaveRecord
  <2>3. log' \in Seq(Entry)
    BY <1>7, <2>2 DEF Replace, Entry, SaveRecord
  <2>4. record' \in Stored
    BY <1>7, <2>2 DEF Replace, NextRevision, Stored, SaveRecord
  <2> QED BY <1>7, <2>1, <2>3, <2>4 DEF Replace
<1>8. ASSUME NEW h \in Saves, Unlock(h) PROVE TypeOK'
  <2>1. save' \in [Saves -> SaveRecord]
    BY <1>8, GotoFacts DEF Unlock
  <2> QED BY <1>8, <2>1 DEF Unlock
<1>9. ASSUME NEW h \in Saves, Fail(h) \/ UnlockFails(h) PROVE TypeOK'
  <2>1. save' \in [Saves -> SaveRecord]
    BY <1>9, ConcludeFacts DEF Fail, UnlockFails
  <2> QED BY <1>9, <2>1 DEF Fail, UnlockFails
<1>10. ASSUME NEW h \in Saves, Answer(h) PROVE TypeOK'
  <2>1. save' \in [Saves -> SaveRecord]
    BY <1>10, ForgetFacts DEF Answer
  <2>2. save[h] \in SaveRecord
    OBVIOUS
  <2>3. shown' \in [Client -> Version]
    <3> DEFINE seen == [op |-> save[h].op, rev |-> save[h].expected + 1]
    <3>1. seen \in Version
      BY <2>2 DEF SaveRecord, Version
    <3>2. shown' = shown \/ shown' = [shown EXCEPT ![save[h].client] = seen]
      BY <1>10 DEF Answer
    <3> HIDE DEF seen
    <3> QED BY <3>1, <3>2
  <2>4. NoIntent \in [op : Op \union {NoOp}, expected : Nat, base : Op \union {NoOp}]
    BY DEF NoIntent
  <2>5. intent' \in [Client -> [op : Op \union {NoOp}, expected : Nat,
                                base : Op \union {NoOp}]]
    BY <1>10, <2>4 DEF Answer
  <2> QED BY <1>10, <2>1, <2>3, <2>5 DEF Answer
<1>11. ASSUME NEW h \in Saves, Crash(h) PROVE TypeOK'
  <2>1. save' \in [Saves -> SaveRecord]
    BY <1>11, ForgetFacts DEF Crash
  <2> QED BY <1>11, <2>1 DEF Crash
<1>12. CASE OperatorUnlocks
  BY <1>12 DEF OperatorUnlocks
<1>13. CASE UNCHANGED vars
  BY <1>13 DEF vars
<1> QED BY <1>1, <1>2, <1>3, <1>4, <1>5, <1>6, <1>7, <1>8, <1>9, <1>10, <1>11, <1>12, <1>13
        DEF Next

Rest == LogInv /\ ShownInv /\ IntentInv /\ SaveInv /\ AgreeInv

LEMMA RestStep ==
  ASSUME IInv, NEW h \in Saves,
         \/ OpenLock(h) \/ Read(h) \/ KeepPrevious(h) \/ Unlock(h) \/ Fail(h)
         \/ UnlockFails(h) \/ Crash(h)
  PROVE  Rest'
<1> SUFFICES Quiet(h)
  BY QuietKeeps DEF Rest
<1> USE DEF IInv, Quiet
<1>1. CASE OpenLock(h)
  BY <1>1, GotoFacts, ConcludeFacts DEF OpenLock, Locked
<1>2. CASE Read(h)
  <2>1. /\ \A g \in Saves : Same(g)
        /\ \A g \in Saves \ {h} : save'[g] = save[g]
    BY <1>2, GotoFacts, ConcludeFacts DEF Read, Locked
  <2> QED BY <1>2, <2>1 DEF Read
<1>3. CASE KeepPrevious(h)
  BY <1>3, GotoFacts DEF KeepPrevious, Locked
<1>4. CASE Unlock(h)
  BY <1>4, GotoFacts DEF Unlock
<1>5. CASE Fail(h)
  BY <1>5, ConcludeFacts DEF Fail
<1>6. CASE UnlockFails(h)
  BY <1>6, ConcludeFacts DEF UnlockFails
<1>7. CASE Crash(h)
  BY <1>7, ForgetFacts DEF Crash
<1> QED BY <1>1, <1>2, <1>3, <1>4, <1>5, <1>6, <1>7

\* What another save does does not disturb a save, unless it takes its lock.
LEMMA OthersHold ==
  ASSUME TypeOK, NEW g \in Saves, Holds(g), save'[g] = save[g], UNCHANGED <<record, log>>,
         lock' = lock \/ save[g].pc \notin Locked
  PROVE  Holds(g)'
  BY DEF Holds, Length, Locked

LEMMA LockStep ==
  ASSUME IInv, NEW h \in Saves,
         \/ OpenLock(h) \/ Read(h) \/ KeepPrevious(h) \/ Unlock(h) \/ Fail(h)
         \/ UnlockFails(h) \/ Crash(h) \/ Answer(h)
  PROVE  LockInv'
<1> USE DEF IInv
<1>1. save[h] \in SaveRecord /\ Holds(h) /\ \A g \in Saves : Holds(g)
  BY DEF TypeOK, LockInv
<1>2. SUFFICES ASSUME UNCHANGED <<record, log>>,
                      \A g \in Saves \ {h} : save'[g] = save[g] PROVE LockInv'
  BY GotoFacts, ConcludeFacts, ForgetFacts
     DEF OpenLock, Read, KeepPrevious, Unlock, Fail, UnlockFails, Crash, Answer, Locked
<1>3. SUFFICES /\ Holds(h)'
               /\ \A g \in Saves \ {h} : lock' = lock \/ save[g].pc \notin Locked
  BY <1>1, <1>2, OthersHold DEF LockInv
<1>4. CASE OpenLock(h)
  <2>1. \A g \in Saves : lock = 0 => save[g].pc \notin Locked
    BY <1>1 DEF Holds, Saves
  <2>2. CASE Unlocked
    <3>1. /\ lock' = h /\ Same(h) /\ save'[h].pc = "read"
          /\ save'[h].result = save[h].result
      BY <1>4, <2>2, GotoFacts DEF OpenLock, Locked
    <3> QED BY <1>1, <1>4, <2>1, <2>2, <3>1 DEF OpenLock, Unlocked, Holds
  <2>3. CASE ~Unlocked
    BY <1>4, <2>3, ConcludeFacts DEF OpenLock, Holds, Locked
  <2> QED BY <2>2, <2>3
<1>5. CASE Read(h)
  <2>1. lock' = lock /\ lock = h
    BY <1>1, <1>5 DEF Read, Holds, Locked
  <2>2. CASE Replayed(h) /\ SameContent(h)
    <3>1. Same(h) /\ save'[h].pc = "unlock" /\ save'[h].result = "saved"
      BY <1>5, <2>2, ConcludeFacts DEF Read
    <3>2. /\ Length > 0 /\ log[Length].op = save[h].op /\ log[Length].text = save[h].text
          /\ save[h].op # NoOp
      BY <1>5, <2>2 DEF Read, Replayed, SameContent, LogInv, SaveInv, OpAt, Length, TypeOK
    <3>3. Length = save[h].expected + 1
      BY <1>5, <3>2 DEF SaveInv, Placed, Read, Length, TypeOK
    <3>4. Length' = Length /\ log' = log
      BY <1>2 DEF Length
    <3>5. Length \in Nat /\ save[h].expected \in Nat
      BY <1>1 DEF TypeOK, Length, SaveRecord
    <3> QED BY <2>1, <3>1, <3>2, <3>3, <3>4, <3>5 DEF Holds, Same, Locked
  <2>3. CASE ~(Replayed(h) /\ SameContent(h)) /\ (Replayed(h) \/ ~UpToDate(h))
    <3>1. save'[h].pc = "unlock" /\ save'[h].result = "conflict"
      BY <1>5, <2>3, ConcludeFacts DEF Read
    <3> QED BY <2>1, <3>1 DEF Holds, Locked
  <2>4. CASE ~Replayed(h) /\ UpToDate(h)
    <3>1. /\ Same(h) /\ save'[h].pc \in {"backup", "replace"}
          /\ save'[h].result = save[h].result
      BY <1>5, <2>4, GotoFacts DEF Read, Locked
    <3>2. save[h].result # "saved"
      BY <1>1, <1>5 DEF Read, Holds
    <3> QED BY <1>2, <2>1, <2>4, <3>1, <3>2 DEF Holds, Same, UpToDate, Locked
  <2> QED BY <2>1, <2>2, <2>3, <2>4
<1>6. CASE KeepPrevious(h)
  <2>1. Same(h) /\ save'[h].pc = "replace" /\ save'[h].result = save[h].result
    BY <1>6, GotoFacts DEF KeepPrevious, Locked
  <2> QED BY <1>1, <1>2, <1>6, <2>1 DEF KeepPrevious, Holds, Same, Locked
<1>7. CASE Unlock(h)
  <2>1. Same(h) /\ save'[h].pc = "reply" /\ save'[h].result = save[h].result
    BY <1>7, GotoFacts DEF Unlock
  <2>2. \A g \in Saves \ {h} : save[g].pc \notin Locked
    BY <1>1, <1>7 DEF Unlock, Holds, Locked
  <2>3. Holds(h)'
    BY <1>1, <1>2, <2>1 DEF Holds, Same, Locked, Length
  <2> QED BY <2>2, <2>3
<1>8. CASE Fail(h) \/ UnlockFails(h)
  <2>1. save'[h].pc \in {"unlock", "reply"} /\ save'[h].result = "failed" /\ lock' = lock
    BY <1>8, ConcludeFacts DEF Fail, UnlockFails
  <2>2. save'[h].pc \in Locked => lock = h
    BY <1>1, <1>8, ConcludeFacts DEF Fail, UnlockFails, Holds, Locked
  <2> QED BY <2>1, <2>2 DEF Holds
<1>9. CASE Crash(h) \/ Answer(h)
  BY <1>9, ForgetFacts DEF Crash, Answer, NoSave, Holds, Locked
<1> QED BY <1>4, <1>5, <1>6, <1>7, <1>8, <1>9

\* A client that looks at the record sees one that was written.
LEMMA ReloadStep ==
  ASSUME IInv, NEW c \in Client, Reload(c)
  PROVE  Rest' /\ LockInv'
<1> USE DEF IInv, TypeOK, Reload
<1>1. LogInv' /\ LockInv'
  BY DEF LogInv, LockInv, Holds, Length, OpAt
<1>2. ShownInv'
  <2>1. record.rev \in Nat /\ Knows(record.rev, record.op)
    BY DEF LogInv, Knows, OpAt, Length, Stored
  <2>2. \A d \in Client : shown'[d] = shown[d]
                          \/ shown'[d] = [op |-> record.op, rev |-> record.rev]
    OBVIOUS
  <2> QED BY <2>1, <2>2 DEF ShownInv, Knows, OpAt, Length
<1>3. \A d \in Client :
        intent'[d] = intent[d] \/ (intent'[d] = NoIntent /\ intent'[d].op = NoOp)
  BY DEF NoIntent
<1>4. IntentInv'
  <2> SUFFICES ASSUME NEW d \in Client
               PROVE  (/\ intent[d].op = NoOp => intent[d] = NoIntent
                       /\ intent[d].op # NoOp =>
                            /\ intent[d].op <= ops
                            /\ Knows(intent[d].expected, intent[d].base)
                            /\ Placed(intent[d].op, intent[d].expected))'
    BY DEF IntentInv
  <2>1. CASE intent'[d] = intent[d]
    BY <2>1 DEF IntentInv, NoIntent, Knows, Placed, OpAt, Length
  <2>2. CASE intent'[d] = NoIntent /\ intent'[d].op = NoOp
    BY <2>2 DEF NoIntent
  <2> QED BY <1>3, <2>1, <2>2
<1>5. SaveInv'
  BY DEF SaveInv, Knows, Placed, OpAt, Length
<1>6. AgreeInv'
  BY <1>3 DEF AgreeInv
<1> QED BY <1>1, <1>2, <1>4, <1>5, <1>6 DEF Rest

\* A new intent is based on what its author sees, and is nowhere in the log.
LEMMA DecideStep ==
  ASSUME IInv, NEW c \in Client, Decide(c)
  PROVE  Rest' /\ LockInv'
<1> USE BankAssumption DEF IInv
<1>1. /\ ops \in Nat /\ ops' = ops + 1 /\ NoOp # ops + 1
      /\ UNCHANGED <<record, lock, shown, save, log>>
  BY DEF Decide, TypeOK
<1>2. /\ intent'[c] = [op |-> ops + 1, expected |-> shown[c].rev, base |-> shown[c].op]
      /\ \A d \in Client \ {c} : intent'[d] = intent[d]
  BY DEF Decide, TypeOK
<1>3. /\ log \in Seq(Entry)
      /\ \A n \in 1..Length : log[n].op \in Nat /\ log[n].op <= ops
  <2>1. log \in Seq(Entry) /\ \A n \in 1..Length : log[n] \in Entry
    BY DEF TypeOK, Length
  <2>2. \A n \in 1..Length : log[n].op \in Nat
    BY <2>1 DEF Entry, Op
  <2> QED BY <2>1, <2>2 DEF LogInv
<1>4. LogInv'
  BY <1>1, <1>3 DEF LogInv, OpAt, Length
<1>5. ShownInv' /\ LockInv'
  BY <1>1 DEF ShownInv, LockInv, Holds, Knows, OpAt, Length
<1>6. IntentInv'
  <2> SUFFICES ASSUME NEW d \in Client
               PROVE  (/\ intent[d].op = NoOp => intent[d] = NoIntent
                       /\ intent[d].op # NoOp =>
                            /\ intent[d].op <= ops
                            /\ Knows(intent[d].expected, intent[d].base)
                            /\ Placed(intent[d].op, intent[d].expected))'
    BY DEF IntentInv
  <2>1. CASE d = c
    <3>1. Knows(shown[c].rev, shown[c].op)
      BY DEF ShownInv
    <3>2. Knows(intent[c].expected, intent[c].base)'
      BY <1>1, <1>2, <3>1 DEF Knows, OpAt, Length
    <3>3. Placed(intent[c].op, intent[c].expected)'
      BY <1>1, <1>2, <1>3 DEF Placed, Length
    <3> QED BY <1>1, <1>2, <2>1, <3>2, <3>3
  <2>2. CASE d # c
    <3>1. intent'[d] = intent[d] /\ (intent[d].op = NoOp \/ intent[d].op \in Nat)
      BY <1>2, <2>2 DEF TypeOK, Op
    <3> QED BY <1>1, <3>1 DEF NoIntent, IntentInv, Knows, Placed, OpAt, Length
  <2> QED BY <2>1, <2>2
<1>7. \A h \in Saves : save[h].op # NoOp => save[h].op \in Nat /\ save[h].op <= ops
  BY DEF SaveInv, LockInv, Holds, TypeOK, SaveRecord, Op
<1>8. SaveInv'
  <2> SUFFICES ASSUME NEW g \in Saves, save[g].pc \notin {"unsent", "over"}
               PROVE  (/\ save[g].op # NoOp /\ save[g].op <= ops /\ save[g].text \in Text
                       /\ Knows(save[g].expected, save[g].base)
                       /\ Placed(save[g].op, save[g].expected))'
    BY <1>1 DEF SaveInv
  <2>1. save[g].op <= ops'
    BY <1>1, <1>7 DEF SaveInv
  <2> QED BY <1>1, <2>1 DEF SaveInv, Knows, Placed, OpAt, Length
<1>9. AgreeInv'
  <2>1. \A d \in Client : intent[d].op # NoOp => intent[d].op \in Nat /\ intent[d].op <= ops
    BY DEF IntentInv, TypeOK, Op
  <2>2. \A d \in Client \ {c} : intent'[d].op # intent'[c].op
    BY <1>1, <1>2, <2>1
  <2>3. \A h \in Saves : save'[h].op # intent'[c].op
    BY <1>1, <1>2, <1>7
  <2>4. \A d \in Client : d = c \/ intent'[d] = intent[d]
    BY <1>2
  <2> QED BY <1>1, <2>2, <2>3, <2>4 DEF AgreeInv
<1> QED BY <1>4, <1>5, <1>6, <1>8, <1>9 DEF Rest

\* A call of save carries its author's intent.
LEMMA SendStep ==
  ASSUME IInv, NEW c \in Client, NEW h \in Saves, NEW text \in Text, Send(c, h, text)
  PROVE  Rest' /\ LockInv'
<1> USE BankAssumption DEF IInv
<1>1. UNCHANGED <<record, lock, shown, intent, ops, log>>
  BY DEF Send
<1>2. /\ save'[h] = [client |-> c, op |-> intent[c].op, text |-> text,
                     expected |-> intent[c].expected, base |-> intent[c].base,
                     pc |-> "open", result |-> "none"]
      /\ \A g \in Saves \ {h} : save'[g] = save[g]
  BY DEF Send, TypeOK
<1>3. intent[c].op # NoOp
  BY DEF Send, IntentInv
<1>4. LogInv' /\ ShownInv' /\ IntentInv'
  BY <1>1 DEF LogInv, ShownInv, IntentInv, Knows, Placed, OpAt, Length
<1>5. SaveInv'
  BY <1>1, <1>2, <1>3 DEF SaveInv, IntentInv, Knows, Placed, OpAt, Length
<1>6. AgreeInv'
  <2>1. \A g \in Saves : \/ save'[g].op = intent[c].op
                            /\ save'[g].expected = intent[c].expected
                         \/ save'[g] = save[g]
    BY <1>2
  <2> QED BY <1>1, <2>1 DEF AgreeInv
<1>7. LockInv'
  <2>1. Holds(h)'
    BY <1>2 DEF Holds, Locked
  <2>2. \A g \in Saves \ {h} : Holds(g)'
    BY <1>1, <1>2, OthersHold DEF LockInv
  <2> QED BY <2>1, <2>2 DEF LockInv
<1> QED BY <1>4, <1>5, <1>6, <1>7 DEF Rest

\* An intent that is carried out takes its place in the log.
LEMMA ReplaceStep ==
  ASSUME IInv, NEW h \in Saves, Replace(h)
  PROVE  Rest' /\ LockInv'
<1> USE BankAssumption DEF IInv
<1> DEFINE e == [op |-> save[h].op, text |-> save[h].text, base |-> save[h].base]
<1>1. /\ save[h] \in SaveRecord /\ save[h].pc = "replace"
      /\ UNCHANGED <<lock, shown, intent, ops>>
      /\ record' = [op |-> save[h].op, rev |-> save[h].expected + 1,
                    text |-> save[h].text]
      /\ log' = Append(log, e)
  BY DEF Replace, TypeOK, NextRevision
<1>2. /\ save[h].op # NoOp /\ save[h].op <= ops /\ save[h].text \in Text
      /\ Knows(save[h].expected, save[h].base) /\ Placed(save[h].op, save[h].expected)
  BY <1>1 DEF SaveInv
<1>3. e \in Entry /\ e.op = save[h].op /\ e.text = save[h].text /\ e.base = save[h].base
  BY <1>1, <1>2 DEF Entry, SaveRecord
<1>4. log \in Seq(Entry) /\ Length \in Nat
  BY DEF TypeOK, Length
<1> HIDE DEF e
<1>5. /\ Length' = Length + 1 /\ log'[Length + 1] = e
      /\ \A n \in 1..Length : log'[n] = log[n]
  BY <1>1, <1>3, <1>4 DEF Length
<1>6. /\ Length = save[h].expected /\ save[h].base = OpAt(Length)
      /\ \A n \in 1..Length : log[n].op # save[h].op
  <2>1. record.rev = save[h].expected
    BY <1>1 DEF LockInv, Holds
  <2> QED BY <1>2, <1>4, <2>1 DEF LogInv, Knows, Placed
<1>7. \A n \in 0..Length : OpAt(n)' = OpAt(n)
  BY <1>4, <1>5 DEF OpAt
<1>8. \A rev \in Nat, op \in Op \union {NoOp} : Knows(rev, op) => Knows(rev, op)'
  BY <1>4, <1>5, <1>7 DEF Knows
<1>9. \A op \in Op \union {NoOp}, expected \in Nat :
        /\ Placed(op, expected)
        /\ op = save[h].op => expected = save[h].expected
        => Placed(op, expected)'
  BY <1>3, <1>4, <1>5, <1>6 DEF Placed
<1>10. \A n \in 1..(Length + 1) :
         log'[n] = IF n = Length + 1 THEN e ELSE log[n]
  BY <1>4, <1>5
<1>11. LogInv'
  <2>1. /\ record'.rev = Length' /\ record'.op = OpAt(Length)'
        /\ record'.text = log'[Length'].text
    <3>1. OpAt(Length)' = log'[Length + 1].op
      BY <1>4, <1>5 DEF OpAt
    <3> QED BY <1>1, <1>3, <1>5, <1>6, <3>1
  <2>2. \A n \in 1..Length' : log'[n].base = OpAt(n - 1)'
    <3> TAKE n \in 1..Length'
    <3>1. n - 1 \in 0..Length
      BY <1>4, <1>5
    <3>2. CASE n = Length + 1
      <4>1. n - 1 = Length
        BY <1>4, <3>2
      <4>2. OpAt(n - 1)' = OpAt(n - 1)
        BY <1>7, <3>1
      <4>3. log'[n].base = save[h].base
        BY <1>3, <1>5, <3>2
      <4>4. OpAt(n - 1) = OpAt(Length)
        BY <4>1
      <4> QED BY <1>6, <4>2, <4>3, <4>4
    <3>3. CASE n # Length + 1
      BY <1>4, <1>5, <1>7, <3>1, <3>3 DEF LogInv
    <3> QED BY <3>2, <3>3
  <2>3. \A n \in 1..Length' : log'[n].op <= ops'
    <3> TAKE n \in 1..Length'
    <3>1. CASE n = Length + 1
      BY <1>1, <1>2, <1>3, <1>5, <3>1
    <3>2. CASE n # Length + 1
      <4>1. n \in 1..Length /\ log'[n] = log[n]
        BY <1>4, <1>5, <3>2
      <4>2. log[n].op <= ops
        BY <4>1 DEF LogInv
      <4> QED BY <1>1, <4>1, <4>2
    <3> QED BY <3>1, <3>2
  <2>4. \A m, n \in 1..Length' : log'[m].op = log'[n].op => m = n
    <3>1. \A n \in 1..Length' : \/ n = Length + 1 /\ log'[n].op = save[h].op
                                \/ n \in 1..Length /\ log'[n].op = log[n].op
      BY <1>3, <1>4, <1>5
    <3> QED BY <1>6, <3>1 DEF LogInv
  <2>5. (\A n \in 1..Length : log[n].base = OpAt(n - 1))'
    BY <2>2
  <2> QED BY <2>1, <2>3, <2>4, <2>5 DEF LogInv
<1>12. ShownInv'
  <2>1. \A c \in Client : shown[c].rev \in Nat /\ shown[c].op \in Op \union {NoOp}
    BY DEF TypeOK, Version
  <2> QED BY <1>1, <1>8, <2>1 DEF ShownInv, Knows
<1>13. IntentInv'
  <2> SUFFICES ASSUME NEW d \in Client
               PROVE  (/\ intent[d].op = NoOp => intent[d] = NoIntent
                       /\ intent[d].op # NoOp =>
                            /\ intent[d].op <= ops
                            /\ Knows(intent[d].expected, intent[d].base)
                            /\ Placed(intent[d].op, intent[d].expected))'
    BY DEF IntentInv
  <2>1. /\ intent[d].expected \in Nat /\ intent[d].op \in Op \union {NoOp}
        /\ intent[d].base \in Op \union {NoOp}
    BY DEF TypeOK
  <2>2. intent[d].op = save[h].op => intent[d].expected = save[h].expected
    BY <1>2 DEF AgreeInv
  <2>3. intent[d].op # NoOp => Knows(intent[d].expected, intent[d].base)'
    BY <1>1, <1>8, <2>1 DEF IntentInv, Knows
  <2>4. intent[d].op # NoOp => Placed(intent[d].op, intent[d].expected)'
    BY <1>1, <1>9, <2>1, <2>2 DEF IntentInv, Placed
  <2> QED BY <1>1, <2>3, <2>4 DEF IntentInv, NoIntent
<1>14. \A g \in Saves : Same(g) /\ (g # h => save'[g] = save[g])
  BY ConcludeFacts DEF Replace
<1>15. SaveInv'
  <2> SUFFICES ASSUME NEW g \in Saves, save'[g].pc \notin {"unsent", "over"}
               PROVE  (/\ save[g].op # NoOp /\ save[g].op <= ops /\ save[g].text \in Text
                       /\ Knows(save[g].expected, save[g].base)
                       /\ Placed(save[g].op, save[g].expected))'
    BY DEF SaveInv
  <2>0. save[g].pc \notin {"unsent", "over"}
    BY <1>1, <1>14
  <2>1. /\ save[g].expected \in Nat /\ save[g].op \in Op \union {NoOp}
        /\ save[g].base \in Op \union {NoOp}
    BY DEF TypeOK, SaveRecord
  <2>2. save[g].op = save[h].op => save[g].expected = save[h].expected
    BY <1>2 DEF AgreeInv
  <2>3. Knows(save[g].expected, save[g].base)'
    BY <1>8, <1>14, <2>0, <2>1 DEF SaveInv, Knows, Same
  <2>4. Placed(save[g].op, save[g].expected)'
    BY <1>9, <1>14, <2>0, <2>1, <2>2 DEF SaveInv, Placed, Same
  <2> QED BY <1>1, <1>14, <2>0, <2>3, <2>4 DEF SaveInv, Same
<1>16. AgreeInv'
  BY <1>1, <1>14 DEF AgreeInv, Same
<1>17. LockInv'
  <2>1. save[h].pc \in Locked => lock = h
    BY DEF LockInv, Holds
  <2>2. Holds(h)'
    <3>1. save'[h].pc = "unlock" /\ save'[h].result = "saved" /\ Same(h)
      BY ConcludeFacts DEF Replace
    <3> QED BY <1>1, <1>3, <1>4, <1>5, <1>6, <2>1, <3>1 DEF Holds, Same, Locked
  <2>3. ASSUME NEW g \in Saves \ {h} PROVE Holds(g)'
    <3>1. save[g].pc \notin Locked /\ save'[g] = save[g] /\ Holds(g)
      BY <1>1, <1>14, <2>1 DEF LockInv, Holds, Locked
    <3>2. save[g].expected \in Nat
      BY DEF TypeOK, SaveRecord
    <3>3. save[g].result = "saved" =>
            /\ save[g].expected + 1 <= Length'
            /\ log'[save[g].expected + 1] = log[save[g].expected + 1]
      BY <1>4, <1>5, <3>1, <3>2 DEF Holds
    <3> QED BY <3>1, <3>3 DEF Holds, Locked
  <2> QED BY <2>2, <2>3 DEF LockInv
<1> QED BY <1>11, <1>12, <1>13, <1>15, <1>16, <1>17 DEF Rest

\* Who is told that his intent was saved looks at a record that was written.
LEMMA AnswerStep ==
  ASSUME IInv, NEW h \in Saves, Answer(h)
  PROVE  Rest'
<1> USE DEF IInv
<1> DEFINE c == save[h].client
           seen == [op |-> save[h].op, rev |-> save[h].expected + 1]
<1>1. /\ UNCHANGED <<record, lock, ops, log>> /\ save[h] \in SaveRecord
      /\ \A g \in Saves : save'[g] = save[g] \/ save'[g] = NoSave("over")
  BY ForgetFacts DEF Answer, TypeOK
<1>2. LogInv'
  BY <1>1 DEF LogInv, OpAt, Length
<1>3. ShownInv'
  <2>1. save[h].result = "saved" => Knows(seen.rev, seen.op)
    BY <1>1 DEF LockInv, Holds, Knows, OpAt, SaveRecord
  <2>2. \A d \in Client : shown'[d] = shown[d]
                          \/ (save[h].result = "saved" /\ shown'[d] = seen)
    BY DEF Answer, TypeOK
  <2> HIDE DEF seen
  <2> QED BY <1>1, <2>1, <2>2 DEF ShownInv, Knows, OpAt, Length
<1>4. \A d \in Client :
        intent'[d] = intent[d] \/ (intent'[d] = NoIntent /\ intent'[d].op = NoOp)
  BY DEF Answer, TypeOK, NoIntent
<1>5. IntentInv'
  <2> SUFFICES ASSUME NEW d \in Client
               PROVE  (/\ intent[d].op = NoOp => intent[d] = NoIntent
                       /\ intent[d].op # NoOp =>
                            /\ intent[d].op <= ops
                            /\ Knows(intent[d].expected, intent[d].base)
                            /\ Placed(intent[d].op, intent[d].expected))'
    BY DEF IntentInv
  <2>1. CASE intent'[d] = intent[d]
    BY <1>1, <2>1 DEF IntentInv, NoIntent, Knows, Placed, OpAt, Length
  <2>2. CASE intent'[d] = NoIntent /\ intent'[d].op = NoOp
    BY <2>2 DEF NoIntent
  <2> QED BY <1>4, <2>1, <2>2
<1>6. SaveInv'
  <2> SUFFICES ASSUME NEW g \in Saves, save'[g].pc \notin {"unsent", "over"}
               PROVE  (/\ save[g].op # NoOp /\ save[g].op <= ops /\ save[g].text \in Text
                       /\ Knows(save[g].expected, save[g].base)
                       /\ Placed(save[g].op, save[g].expected))'
    BY DEF SaveInv
  <2>1. save'[g] = save[g]
    BY <1>1 DEF NoSave
  <2> QED BY <1>1, <2>1 DEF SaveInv, Knows, Placed, OpAt, Length
<1>7. AgreeInv'
  <2>1. \A g \in Saves : save'[g].op # NoOp => save'[g] = save[g]
    BY <1>1 DEF NoSave
  <2>2. \A d \in Client : intent'[d].op # NoOp => intent'[d] = intent[d]
    BY <1>4
  <2> QED BY <2>1, <2>2 DEF AgreeInv
<1> QED BY <1>2, <1>3, <1>5, <1>6, <1>7 DEF Rest

\* The operator removes the lock file of a save that is over.
LEMMA OperatorStep ==
  ASSUME IInv, OperatorUnlocks
  PROVE  Rest' /\ LockInv'
<1> USE DEF IInv, OperatorUnlocks
<1>1. LogInv' /\ ShownInv' /\ IntentInv'
  BY DEF LogInv, ShownInv, IntentInv, Knows, Placed, OpAt, Length
<1>2. SaveInv' /\ AgreeInv'
  BY DEF SaveInv, AgreeInv, Knows, Placed, OpAt, Length
<1>3. \A g \in Saves : save[g].pc \notin Locked
  BY DEF LockInv, Holds, Locked
<1>4. LockInv'
  BY <1>3, OthersHold DEF LockInv
<1> QED BY <1>1, <1>2, <1>4 DEF Rest

LEMMA StutterStep == IInv /\ UNCHANGED vars => Rest' /\ LockInv'
<1> SUFFICES ASSUME IInv, UNCHANGED vars PROVE Rest' /\ LockInv'
  OBVIOUS
<1> USE DEF IInv, vars
<1>1. LogInv' /\ ShownInv' /\ IntentInv'
  BY DEF LogInv, ShownInv, IntentInv, Knows, Placed, OpAt, Length
<1>2. SaveInv' /\ AgreeInv' /\ LockInv'
  BY DEF SaveInv, AgreeInv, LockInv, Holds, Knows, Placed, OpAt, Length
<1> QED BY <1>1, <1>2 DEF Rest
-----------------------------------------------------------------------------
LEMMA NextInv == IInv /\ [Next]_vars => IInv'
<1> SUFFICES ASSUME IInv, [Next]_vars PROVE IInv'
  OBVIOUS
<1>1. Rest' /\ LockInv'
  BY RestStep, LockStep, ReloadStep, DecideStep, SendStep, ReplaceStep, AnswerStep,
     OperatorStep, StutterStep DEF Next
<1> QED BY <1>1, TypesStep DEF Rest, IInv

\* The inductive invariant holds whenever banks, tabs, servers and scripts run.
THEOREM Invariance == Spec => []IInv
  BY InitInv, NextInv, PTL DEF Spec

\* Every variable has its type, for any number of clients and calls.
THEOREM TypeCorrect == Spec => []TypeOK
<1>1. IInv => TypeOK
  BY DEF IInv
<1> QED BY <1>1, Invariance, PTL

\* Nobody overwrites what he has not seen, and no intent is carried out twice,
\* however many clients, calls, crashes, lost answers and retries there are.
THEOREM NothingOverwrittenBlindly == Spec => []NoBlindOverwrite
<1>1. IInv => NoBlindOverwrite
  BY DEF IInv, LogInv, NoBlindOverwrite, Length
<1> QED BY <1>1, Invariance, PTL

\* An intent is answered as saved only if it was written, with that content.
THEOREM SavedWasWritten == Spec => []SavedIsWritten
<1>1. IInv => SavedIsWritten
  <2> SUFFICES ASSUME IInv, NEW h \in Saves, save[h].result = "saved"
               PROVE  \E n \in 1..Len(log) : /\ log[n].op = save[h].op
                                             /\ log[n].text = save[h].text
    BY DEF SavedIsWritten
  <2>1. save[h].expected + 1 \in 1..Len(log)
    BY DEF IInv, LockInv, Holds, TypeOK, SaveRecord, Length
  <2> WITNESS save[h].expected + 1 \in 1..Len(log)
  <2> QED BY DEF IInv, LockInv, Holds
<1> QED BY <1>1, Invariance, PTL
-----------------------------------------------------------------------------
(***************************************************************************)
(* A refusal.  The record it was decided on was a later one than the one   *)
(* the intent was based on, and where the intent belongs is another, or    *)
(* the same intent with another content.                                   *)
(***************************************************************************)
Refusal(h) ==
  /\ Length > save[h].expected
  /\ Length = save[h].expected + 1 =>
       record.op # save[h].op \/ record.text # save[h].text

RefusedInv == \A h \in Saves : save[h].result = "conflict" => Refusal(h)

\* Refusals that are not new stay true as long as nothing is written.
LEMMA RefusalStays ==
  ASSUME RefusedInv, UNCHANGED <<record, log>>,
         \A g \in Saves : save'[g].result = "conflict" =>
                            save[g].result = "conflict" /\ Same(g)
  PROVE  RefusedInv'
  BY DEF RefusedInv, Refusal, Same, Length

LEMMA ReadRefuses ==
  ASSUME IInv, RefusedInv, NEW h \in Saves, Read(h)
  PROVE  RefusedInv'
<1> USE DEF IInv
<1>1. /\ UNCHANGED <<record, log>> /\ save[h].pc = "read" /\ save[h] \in SaveRecord
      /\ save[h].expected \in Nat /\ Length \in Nat
  BY DEF Read, TypeOK, SaveRecord, Length
<1>2. CASE Replayed(h) /\ SameContent(h)
  BY <1>1, <1>2, ConcludeFacts, RefusalStays DEF Read
<1>3. CASE ~(Replayed(h) /\ SameContent(h)) /\ (Replayed(h) \/ ~UpToDate(h))
  <2>1. Conclude(h, "unlock", "conflict")
    BY <1>1, <1>3 DEF Read
  <2>2. \A g \in Saves : Same(g) /\ (g # h => save'[g] = save[g])
    BY <2>1, ConcludeFacts
  <2>3. /\ record.rev = Length /\ record.op = OpAt(Length)
        /\ save[h].op # NoOp /\ save[h].expected <= Length
        /\ Placed(save[h].op, save[h].expected)
    BY <1>1 DEF LogInv, SaveInv, Knows
  <2>4. Refusal(h)
    <3>1. CASE Replayed(h)
      <4>1. Length > 0 /\ log[Length].op = save[h].op
        BY <1>1, <2>3, <3>1 DEF Replayed, OpAt
      <4>2. Length = save[h].expected + 1
        BY <1>1, <2>3, <4>1 DEF Placed
      <4>3. record.text # save[h].text
        BY <1>3, <3>1 DEF SameContent
      <4> QED BY <1>1, <4>2, <4>3 DEF Refusal
    <3>2. CASE ~Replayed(h)
      <4>1. Length # save[h].expected
        BY <1>3, <2>3, <3>2 DEF UpToDate
      <4> QED BY <1>1, <2>3, <3>2, <4>1 DEF Refusal, Replayed
    <3> QED BY <3>1, <3>2
  <2>5. Length' = Length
    BY <1>1 DEF Length
  <2>6. Refusal(h)'
    BY <1>1, <2>2, <2>4, <2>5 DEF Refusal, Same
  <2>7. ASSUME NEW g \in Saves \ {h}, save'[g].result = "conflict" PROVE Refusal(g)'
    BY <1>1, <2>2, <2>5, <2>7 DEF RefusedInv, Refusal
  <2> QED BY <2>6, <2>7 DEF RefusedInv
<1>4. CASE ~Replayed(h) /\ UpToDate(h)
  BY <1>1, <1>4, GotoFacts, RefusalStays DEF Read, Locked
<1> QED BY <1>2, <1>3, <1>4

\* What is written moves the record on, away from where a refused intent belongs.
LEMMA ReplaceRefuses ==
  ASSUME IInv, RefusedInv, NEW h \in Saves, Replace(h)
  PROVE  RefusedInv'
<1> USE DEF IInv
<1>1. Length' = Length + 1 /\ Length \in Nat
  <2>1. log \in Seq(Entry)
    BY DEF TypeOK
  <2> QED BY <2>1 DEF Replace, Length
<1>2. \A g \in Saves : Same(g) /\ (g # h => save'[g] = save[g])
  BY ConcludeFacts DEF Replace
<1>3. save'[h].result = "saved"
  BY ConcludeFacts DEF Replace
<1>4. ASSUME NEW g \in Saves, save'[g].result = "conflict" PROVE Refusal(g)'
  <2>1. g # h /\ save[g].result = "conflict" /\ save'[g].expected = save[g].expected
    BY <1>2, <1>3, <1>4 DEF Same
  <2>2. Length > save[g].expected /\ save[g].expected \in Nat
    BY <2>1 DEF RefusedInv, Refusal, TypeOK, SaveRecord
  <2>3. Length' > save[g].expected /\ Length' # save[g].expected + 1
    BY <1>1, <2>2
  <2> QED BY <2>1, <2>3 DEF Refusal
<1> QED BY <1>4 DEF RefusedInv

LEMMA RefusedStep == IInv /\ RefusedInv /\ [Next]_vars => RefusedInv'
<1> SUFFICES ASSUME IInv, RefusedInv, [Next]_vars PROVE RefusedInv'
  OBVIOUS
<1>0. TypeOK
  BY DEF IInv
<1>1. ASSUME NEW c \in Client, Reload(c) \/ Decide(c) PROVE RefusedInv'
  BY <1>1, RefusalStays DEF Reload, Decide, Same
<1>2. ASSUME NEW c \in Client, NEW h \in Saves, NEW text \in Text, Send(c, h, text)
      PROVE  RefusedInv'
  <2>1. /\ UNCHANGED <<record, log>> /\ save'[h].result = "none"
        /\ \A g \in Saves \ {h} : save'[g] = save[g]
    BY <1>0, <1>2 DEF Send, TypeOK
  <2> QED BY <2>1, RefusalStays DEF Same
<1>3. ASSUME NEW h \in Saves, OpenLock(h) PROVE RefusedInv'
  BY <1>0, <1>3, GotoFacts, ConcludeFacts, RefusalStays DEF OpenLock, Locked
<1>4. ASSUME NEW h \in Saves, KeepPrevious(h) \/ Unlock(h) PROVE RefusedInv'
  BY <1>0, <1>4, GotoFacts, RefusalStays DEF KeepPrevious, Unlock, Locked
<1>5. ASSUME NEW h \in Saves, Fail(h) \/ UnlockFails(h) PROVE RefusedInv'
  BY <1>0, <1>5, ConcludeFacts, RefusalStays DEF Fail, UnlockFails
<1>6. ASSUME NEW h \in Saves, Answer(h) \/ Crash(h) PROVE RefusedInv'
  <2>1. /\ UNCHANGED <<record, log>> /\ save'[h].result = "none"
        /\ \A g \in Saves \ {h} : save'[g] = save[g]
    BY <1>0, <1>6, ForgetFacts DEF Answer, Crash, NoSave
  <2> QED BY <2>1, RefusalStays DEF Same
<1>7. CASE OperatorUnlocks \/ UNCHANGED vars
  BY <1>7, RefusalStays DEF OperatorUnlocks, vars, Same
<1> QED BY <1>1, <1>2, <1>3, <1>4, <1>5, <1>6, <1>7, ReadRefuses, ReplaceRefuses
        DEF Next

\* An intent that is the stored one, in place and content, is never answered with a
\* conflict, also when the answer to an earlier try was lost.
THEOREM RetriesAreAcknowledged == Spec => []RetryIsAcknowledged
<1>1. Init => RefusedInv
  BY DEF Init, RefusedInv, NoSave
<1>2. IInv /\ RefusedInv => RetryIsAcknowledged
  <2> SUFFICES ASSUME IInv, RefusedInv, NEW h \in Saves, save[h].result = "conflict",
                      record.op = save[h].op
               PROVE  record.text # save[h].text
    BY DEF RetryIsAcknowledged
  <2>1. /\ Refusal(h) /\ save[h].pc \notin {"unsent", "over"}
        /\ save[h].expected \in Nat /\ Length \in Nat
    BY DEF RefusedInv, IInv, LockInv, Holds, TypeOK, SaveRecord, Length
  <2>2. Placed(save[h].op, save[h].expected) /\ save[h].op # NoOp
    BY <2>1 DEF IInv, SaveInv
  <2>3. Length > 0 /\ log[Length].op = save[h].op
    BY <2>1, <2>2 DEF IInv, LogInv, OpAt
  <2>4. Length = save[h].expected + 1
    BY <2>1, <2>2, <2>3 DEF Placed
  <2> QED BY <2>1, <2>4 DEF Refusal
<1> QED BY <1>1, <1>2, RefusedStep, Invariance, PTL DEF Spec
-----------------------------------------------------------------------------
(***************************************************************************)
(* The backup.  A save that is about to replace a review has kept it.      *)
(***************************************************************************)
BackupInv ==
  /\ BackupIsPredecessor
  /\ \A h \in Saves : save[h].pc = "replace" /\ keepsBackup /\ record.rev > 0 =>
       previous.op = record.op

\* As long as nothing is written, and who comes to replace has no backup to make.
LEMMA BackupStays ==
  ASSUME BackupInv, UNCHANGED <<keepsBackup, record, previous, log>>,
         \A g \in Saves : save'[g].pc = "replace" =>
                            save[g].pc = "replace" \/ ~keepsBackup \/ ~(record.rev > 0)
  PROVE  BackupInv'
  BY DEF BackupInv, BackupIsPredecessor, OpAt

LEMMA BackupStep == IInv /\ BackupInv /\ [Next]_vars => BackupInv'
<1> SUFFICES ASSUME IInv, BackupInv, [Next]_vars PROVE BackupInv'
  OBVIOUS
<1>0. TypeOK
  BY DEF IInv
<1>1. ASSUME NEW c \in Client, Reload(c) \/ Decide(c) PROVE BackupInv'
  BY <1>1, BackupStays DEF Reload, Decide
<1>2. ASSUME NEW c \in Client, NEW h \in Saves, NEW text \in Text, Send(c, h, text)
      PROVE  BackupInv'
  <2>1. /\ UNCHANGED <<keepsBackup, record, previous, log>> /\ save'[h].pc = "open"
        /\ \A g \in Saves \ {h} : save'[g] = save[g]
    BY <1>0, <1>2 DEF Send, TypeOK
  <2> QED BY <2>1, BackupStays
<1>3. ASSUME NEW h \in Saves, OpenLock(h) PROVE BackupInv'
  BY <1>0, <1>3, GotoFacts, ConcludeFacts, BackupStays DEF OpenLock, Locked
<1>4. ASSUME NEW h \in Saves, Unlock(h) PROVE BackupInv'
  BY <1>0, <1>4, GotoFacts, BackupStays DEF Unlock
<1>5. ASSUME NEW h \in Saves, Fail(h) \/ UnlockFails(h) PROVE BackupInv'
  BY <1>0, <1>5, ConcludeFacts, BackupStays DEF Fail, UnlockFails
<1>6. ASSUME NEW h \in Saves, Answer(h) \/ Crash(h) PROVE BackupInv'
  <2>1. /\ UNCHANGED <<keepsBackup, record, previous, log>> /\ save'[h].pc = "over"
        /\ \A g \in Saves \ {h} : save'[g] = save[g]
    BY <1>0, <1>6, ForgetFacts DEF Answer, Crash, NoSave
  <2> QED BY <2>1, BackupStays
<1>7. CASE OperatorUnlocks \/ UNCHANGED vars
  BY <1>7, BackupStays DEF OperatorUnlocks, vars
<1>8. ASSUME NEW h \in Saves, Read(h) PROVE BackupInv'
  <2>1. UNCHANGED <<keepsBackup, record, previous, log>>
    BY <1>8 DEF Read
  <2>2. CASE ~Replayed(h) /\ UpToDate(h)
    BY <1>0, <1>8, <2>1, <2>2, GotoFacts, BackupStays DEF Read, Locked
  <2>3. CASE Replayed(h) \/ ~UpToDate(h)
    BY <1>0, <1>8, <2>1, <2>3, ConcludeFacts, BackupStays DEF Read
  <2> QED BY <2>2, <2>3
<1>9. ASSUME NEW h \in Saves, KeepPrevious(h) PROVE BackupInv'
  BY <1>9 DEF KeepPrevious, Backup, BackupInv, BackupIsPredecessor
<1>10. ASSUME NEW h \in Saves, Replace(h) PROVE BackupInv'
  <2>1. /\ save[h].pc = "replace" /\ save[h].expected = record.rev /\ lock = h
        /\ record.rev = Length /\ record.op = OpAt(Length) /\ Length \in Nat
    BY <1>10 DEF Replace, IInv, LockInv, Holds, Locked, LogInv, TypeOK, Length
  <2>2. /\ UNCHANGED <<keepsBackup, previous>> /\ record'.rev = Length + 1
        /\ Len(log') = Length + 1 /\ \A n \in 1..Length : log'[n] = log[n]
    <3>1. log \in Seq(Entry) /\ record'.rev = save[h].expected + 1
      BY <1>0, <1>10 DEF Replace, NextRevision, TypeOK
    <3> QED BY <1>10, <2>1, <3>1 DEF Replace, Length
  <2>3. BackupIsPredecessor'
    <3> SUFFICES ASSUME keepsBackup, record'.rev > 1
                 PROVE  previous.op = OpAt(record.rev - 1)'
      BY <2>2 DEF BackupIsPredecessor
    <3>1. Length > 0 /\ Length + 1 - 1 = Length
      BY <2>1, <2>2
    <3>2. previous.op = record.op
      BY <2>1, <3>1 DEF BackupInv
    <3>3. OpAt(record.rev - 1)' = OpAt(Length)
      BY <2>1, <2>2, <3>1 DEF OpAt
    <3> QED BY <2>1, <3>2, <3>3
  <2>4. ASSUME NEW g \in Saves PROVE save'[g].pc # "replace"
    <3>1. save'[h].pc = "unlock" /\ (g # h => save'[g] = save[g])
      BY <1>0, <1>10, ConcludeFacts DEF Replace
    <3>2. g # h => save[g].pc # "replace"
      BY <2>1 DEF IInv, LockInv, Holds, Locked
    <3> QED BY <3>1, <3>2
  <2> QED BY <2>3, <2>4 DEF BackupInv
<1> QED BY <1>1, <1>2, <1>3, <1>4, <1>5, <1>6, <1>7, <1>8, <1>9, <1>10 DEF Next

\* The backup of a review is never older than the record that was replaced last,
\* wherever a save died.
THEOREM BackupsArePredecessors == Spec => []BackupIsPredecessor
<1>1. Init => BackupInv
  BY DEF Init, BackupInv, BackupIsPredecessor, NoSave
<1>2. BackupInv => BackupIsPredecessor
  BY DEF BackupInv
<1> QED BY <1>1, <1>2, BackupStep, Invariance, PTL DEF Spec
=============================================================================
