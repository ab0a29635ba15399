--------------------------- MODULE AnnotationBank ---------------------------
(***************************************************************************)
(* Saving a rating or a review of one audition: `RatingBank.save` of       *)
(* demos/voice-lab/ratings.ts and `CurationBank.save` of                   *)
(* demos/voice-lab/curation.ts, with the tabs and scripts that call them.  *)
(*                                                                         *)
(* A save carries an intent: an operation id, a content, and the revision  *)
(* its author was looking at.  Any number of saves, in any number of       *)
(* server processes, run at once; a lock file, created exclusively, lets   *)
(* one at a time read the record and replace it, by an atomic rename.  An  *)
(* answer may be lost, and its caller then sends the same intent again.    *)
(* A process may die at any point and leave the lock file behind; only the *)
(* operator removes it, once the save that made it is over.                *)
(*                                                                         *)
(* Every await of the code that reads or changes a file is a step here.    *)
(* The checks before the lock (schema, bank, audio hashes) are one step    *)
(* that may fail.  Reviews keep the replaced record as a backup, ratings   *)
(* do not.                                                                 *)
(***************************************************************************)
EXTENDS Naturals, Sequences

CONSTANTS Client,
          Text,       \* contents
          NoOp,       \* the operation of an audition without a record
          MaxOps,     \* bound: operation ids
          MaxSaves    \* bound: calls of save, retries included

ASSUME BankAssumption == MaxOps \in Nat /\ MaxSaves \in Nat /\ NoOp \notin Nat

VARIABLES keepsBackup,  \* a bank of reviews
          record,       \* cNNN.json
          previous,     \* cNNN.previous.json
          lock,         \* the save that created cNNN.lock, or 0
          shown,        \* what each client looks at
          intent,       \* what it wants to save
          ops,          \* operation ids used
          save,         \* the calls of save
          log           \* history: the records that were written

vars == <<keepsBackup, record, previous, lock, shown, intent, ops, save, log>>

Op == 1..MaxOps
Saves == 1..MaxSaves
Version == [op : Op \union {NoOp}, rev : Nat]
Absent == [op |-> NoOp, rev |-> 0]
NoIntent == [op |-> NoOp, expected |-> 0, base |-> NoOp]
NoText == "none"
NoSave(pc) == [client |-> "none", op |-> NoOp, text |-> NoText, expected |-> 0,
               base |-> NoOp, pc |-> pc, result |-> "none"]

Init == /\ keepsBackup \in BOOLEAN
        /\ record = [op |-> NoOp, rev |-> 0, text |-> NoText]
        /\ previous = record
        /\ lock = 0
        /\ shown = [c \in Client |-> Absent]
        /\ intent = [c \in Client |-> NoIntent]
        /\ ops = 0
        /\ save = [h \in Saves |-> NoSave("unsent")]
        /\ log = <<>>
-----------------------------------------------------------------------------
(***************************************************************************)
(* The clients.                                                            *)
(***************************************************************************)
\* The state is read without the lock.
Reload(c) ==
  /\ shown' = [shown EXCEPT ![c] = [op |-> record.op, rev |-> record.rev]]
  /\ intent' = [intent EXCEPT ![c] = NoIntent]
  /\ UNCHANGED <<keepsBackup, record, previous, lock, ops, save, log>>

\* An explicit save gets an operation id of its own.
Decide(c) ==
  /\ intent[c] = NoIntent /\ ops < MaxOps
  /\ ops' = ops + 1
  /\ intent' = [intent EXCEPT ![c] = [op |-> ops + 1, expected |-> shown[c].rev,
                                      base |-> shown[c].op]]
  /\ UNCHANGED <<keepsBackup, record, previous, lock, shown, save, log>>

\* Sent once or again; a careless client sends another content under the same id.
Send(c, h, text) ==
  /\ intent[c] # NoIntent /\ save[h].pc = "unsent"
  /\ h = 1 \/ (h > 1 /\ save[h - 1].pc # "unsent")
  /\ save' = [save EXCEPT ![h] = [client |-> c, op |-> intent[c].op, text |-> text,
                                  expected |-> intent[c].expected,
                                  base |-> intent[c].base,
                                  pc |-> "open", result |-> "none"]]
  /\ UNCHANGED <<keepsBackup, record, previous, lock, shown, intent, ops, log>>
-----------------------------------------------------------------------------
(***************************************************************************)
(* save.                                                                   *)
(***************************************************************************)
Goto(h, pc) == save' = [save EXCEPT ![h].pc = pc]
Forget(h) == save' = [save EXCEPT ![h] = NoSave("over")]
Conclude(h, pc, result) == save' = [save EXCEPT ![h].pc = pc, ![h].result = result]

\* A definition named Bug... is never used: put in the place of the one after it,
\* it shows which property would notice that mistake.
BugUnlocked == TRUE
Unlocked == lock = 0

OpenLock(h) ==
  /\ save[h].pc = "open"
  /\ IF Unlocked THEN lock' = h /\ Goto(h, "read")
                 ELSE Conclude(h, "reply", "busy") /\ UNCHANGED lock
  /\ UNCHANGED <<keepsBackup, record, previous, shown, intent, ops, log>>

BugReplayed(h) == FALSE
Replayed(h) == record.op = save[h].op
BugSameContent(h) == TRUE
SameContent(h) == record.text = save[h].text
UpToDate(h) == record.rev = save[h].expected

\* The same intent again is answered as before; a stale one is refused.
Read(h) ==
  /\ save[h].pc = "read"
  /\ IF Replayed(h) THEN Conclude(h, "unlock", IF SameContent(h) THEN "saved"
                                               ELSE "conflict")
     ELSE IF ~UpToDate(h) THEN Conclude(h, "unlock", "conflict")
     ELSE Goto(h, IF keepsBackup /\ record.rev > 0 THEN "backup" ELSE "replace")
  /\ UNCHANGED <<keepsBackup, record, previous, lock, shown, intent, ops, log>>

BugBackup == previous
Backup == record

KeepPrevious(h) ==
  /\ save[h].pc = "backup"
  /\ previous' = Backup
  /\ Goto(h, "replace")
  /\ UNCHANGED <<keepsBackup, record, lock, shown, intent, ops, log>>

NextRevision(h) == save[h].expected + 1

Replace(h) ==
  /\ save[h].pc = "replace"
  /\ record' = [op |-> save[h].op, rev |-> NextRevision(h), text |-> save[h].text]
  /\ log' = Append(log, [op |-> save[h].op, text |-> save[h].text,
                         base |-> save[h].base])
  /\ Conclude(h, "unlock", "saved")
  /\ UNCHANGED <<keepsBackup, previous, lock, shown, intent, ops>>

Unlock(h) ==
  /\ save[h].pc = "unlock"
  /\ lock' = 0
  /\ Goto(h, "reply")
  /\ UNCHANGED <<keepsBackup, record, previous, shown, intent, ops, log>>

\* A file cannot be read or written: the lock is released, and the call fails.
Fail(h) ==
  /\ \/ save[h].pc = "open" /\ Conclude(h, "reply", "failed")
     \/ save[h].pc \in {"read", "backup", "replace"} /\ Conclude(h, "unlock", "failed")
  /\ UNCHANGED <<keepsBackup, record, previous, lock, shown, intent, ops, log>>

\* The lock file cannot be removed: the save is reported as failed, done or not.
UnlockFails(h) ==
  /\ save[h].pc = "unlock"
  /\ Conclude(h, "reply", "failed")
  /\ UNCHANGED <<keepsBackup, record, previous, lock, shown, intent, ops, log>>

\* The answer arrives, or is lost.  A tab of reviews gives up a refused intent; one
\* of ratings keeps it as long as the scores are unchanged.
Answer(h) ==
  LET c == save[h].client
      Pending == intent[c].op = save[h].op
  IN /\ save[h].pc = "reply"
     /\ Forget(h)
     /\ \/ /\ save[h].result = "saved" /\ Pending
           /\ shown' = [shown EXCEPT ![c] = [op |-> save[h].op,
                                             rev |-> save[h].expected + 1]]
           /\ intent' = [intent EXCEPT ![c] = NoIntent]
        \/ /\ keepsBackup /\ save[h].result \in {"conflict", "busy"} /\ Pending
           /\ intent' = [intent EXCEPT ![c] = NoIntent]
           /\ UNCHANGED shown
        \/ UNCHANGED <<shown, intent>>
     /\ UNCHANGED <<keepsBackup, record, previous, lock, ops, log>>

Crash(h) ==
  /\ save[h].pc \notin {"unsent", "over"}
  /\ Forget(h)
  /\ UNCHANGED <<keepsBackup, record, previous, lock, shown, intent, ops, log>>

OperatorUnlocks ==
  /\ lock # 0 /\ save[lock].pc \in {"reply", "over"}
  /\ lock' = 0
  /\ UNCHANGED <<keepsBackup, record, previous, shown, intent, ops, save, log>>

Next == \/ \E c \in Client : Reload(c) \/ Decide(c)
        \/ \E c \in Client, h \in Saves, text \in Text : Send(c, h, text)
        \/ \E h \in Saves : \/ OpenLock(h) \/ Read(h) \/ KeepPrevious(h)
                            \/ Replace(h) \/ Unlock(h) \/ Fail(h) \/ UnlockFails(h)
                            \/ Answer(h) \/ Crash(h)
        \/ OperatorUnlocks

Spec == Init /\ [][Next]_vars
-----------------------------------------------------------------------------
Stored == [op : Op \union {NoOp}, rev : Nat, text : Text \union {NoText}]
Locked == {"read", "backup", "replace", "unlock"}

SaveRecord ==
  [client : Client \union {"none"}, op : Op \union {NoOp}, text : Text \union {NoText},
   expected : Nat, base : Op \union {NoOp},
   pc : {"unsent", "open", "reply", "over"} \union Locked,
   result : {"none", "saved", "conflict", "busy", "failed"}]
Entry == [op : Op, text : Text, base : Op \union {NoOp}]

\* Every variable has its type.
TypeOK ==
  /\ keepsBackup \in BOOLEAN
  /\ record \in Stored /\ previous \in Stored
  /\ lock \in 0..MaxSaves
  /\ shown \in [Client -> Version]
  /\ intent \in [Client -> [op : Op \union {NoOp}, expected : Nat,
                            base : Op \union {NoOp}]]
  /\ ops \in 0..MaxOps
  /\ save \in [Saves -> SaveRecord]
  /\ log \in Seq(Entry)

OpAt(n) == IF n = 0 THEN NoOp ELSE log[n].op

\* Nobody overwrites what he has not seen: each record that was written replaced
\* the one its author was looking at, in whatever tab, script or process.  In
\* particular a retry or a late save cannot roll back a newer one, and no intent
\* is carried out twice.
NoBlindOverwrite ==
  /\ record.rev = Len(log) /\ record.op = OpAt(Len(log))
  /\ \A n \in 1..Len(log) : log[n].base = OpAt(n - 1)
  /\ \A m, n \in 1..Len(log) : log[m].op = log[n].op => m = n

\* An intent that is answered as saved was written, with that content, also when
\* the answer is that of a retry.
SavedIsWritten ==
  \A h \in Saves : save[h].result = "saved" =>
    \E n \in 1..Len(log) : log[n].op = save[h].op /\ log[n].text = save[h].text

\* An intent that is the stored one is not told that somebody else saved.
RetryIsAcknowledged ==
  \A h \in Saves :
    save[h].result = "conflict" =>
      record.op # save[h].op \/ record.text # save[h].text

\* The backup of a review is the record that was replaced last; while a save is
\* under way, or after it died there, it may be the stored record itself.
BackupIsPredecessor ==
  keepsBackup /\ record.rev > 1 =>
    previous.op \in {OpAt(record.rev - 1), record.op}
=============================================================================
