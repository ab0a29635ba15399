----------------------------- MODULE ModelCache -----------------------------
(***************************************************************************)
(* The model cache: `acquire`, `complete`, `valid` and `fetch` of          *)
(* crates/spqx-cli/src/models.rs, run by several processes that share one  *)
(* cache directory.                                                        *)
(*                                                                         *)
(* A process first checks the pinned assets without a lock.  If one is     *)
(* missing or corrupt it takes the lock of the repository, checks each     *)
(* asset again, and replaces the bad ones: download to a temporary file,   *)
(* verify, sync, rename.  A process may die at any point; the operating    *)
(* system then releases its lock, and its temporary file stays behind.  A  *)
(* power loss ends every process and undoes renames that had not reached   *)
(* the disk; a file whose bytes had not reached it is garbage afterwards.  *)
(*                                                                         *)
(* A file is its state: whether length and hash are the pinned ones.       *)
(***************************************************************************)
EXTENDS Naturals

CONSTANTS Proc,           \* processes
          NoProc,
          Assets,         \* how many assets the profile pins
          MaxRuns,        \* bound: calls of one process
          MaxPowerLosses  \* bound

ASSUME CacheAssumption == /\ Assets \in Nat /\ MaxRuns \in Nat
                          /\ MaxPowerLosses \in Nat
                          /\ NoProc \notin Proc

VARIABLES files,    \* the snapshot: what a reader of each asset finds
          settled,  \* what a reader would find after a power loss
          lock,     \* the holder of .spqx-download.lock
          pc,       \* where each process is
          at,       \* the asset it looks at
          offline,  \* it may not download
          temp,     \* its temporary file
          runs,     \* calls it has made
          commits,  \* history: how often each asset was replaced
          losses    \* power losses

disk == <<files, settled>>
vars == <<disk, lock, pc, at, offline, temp, runs, commits, losses>>

Asset == 1..Assets
\* "unsynced": complete and correct, but not yet on the disk.
Content == {"absent", "bad", "unsynced", "good"}
Resting == {"idle", "done", "failed"}

Init == /\ files \in [Asset -> {"absent", "bad", "good"}]
        /\ settled = files
        /\ lock = NoProc
        /\ pc = [p \in Proc |-> "idle"]
        /\ at = [p \in Proc |-> 1]
        /\ offline = [p \in Proc |-> FALSE]
        /\ temp = [p \in Proc |-> "absent"]
        /\ runs = [p \in Proc |-> 0]
        /\ commits = [a \in Asset |-> 0]
        /\ losses = 0

Valid(a) == files[a] \in {"unsynced", "good"}
Go(p, where) == pc' = [pc EXCEPT ![p] = where]
LookAt(p, a) == at' = [at EXCEPT ![p] = a]

FirstAsset == 1

\* A definition named Bug... is never used: put in the place of the one after it,
\* it shows which property would notice that mistake.
\* The lock file is closed when acquire returns, by whatever path.
BugReleased(p) == lock
Released(p) == IF lock = p THEN NoProc ELSE lock

\* acquire returns; a temporary file that was not renamed is deleted.
Return(p, how) == /\ pc' = [pc EXCEPT ![p] = how]
                  /\ at' = [at EXCEPT ![p] = 1]
                  /\ temp' = [temp EXCEPT ![p] = "absent"]
                  /\ lock' = Released(p)
-----------------------------------------------------------------------------
Call(p) ==
  /\ pc[p] \in Resting /\ runs[p] < MaxRuns
  /\ runs' = [runs EXCEPT ![p] = @ + 1]
  /\ \E forbidden \in BOOLEAN : offline' = [offline EXCEPT ![p] = forbidden]
  /\ Go(p, "check") /\ LookAt(p, FirstAsset)
  /\ UNCHANGED <<disk, lock, temp, commits, losses>>

\* `complete`, without the lock.
CheckNext(p) ==
  /\ pc[p] = "check" /\ at[p] <= Assets /\ Valid(at[p])
  /\ LookAt(p, at[p] + 1)
  /\ UNCHANGED <<disk, lock, pc, offline, temp, runs, commits, losses>>

CheckDone(p) ==
  /\ pc[p] = "check" /\ at[p] > Assets
  /\ Return(p, "done")
  /\ UNCHANGED <<disk, offline, runs, commits, losses>>

CheckMissing(p) ==
  /\ pc[p] = "check" /\ at[p] <= Assets /\ ~Valid(at[p])
  /\ IF offline[p] THEN Return(p, "failed")
                    ELSE Go(p, "lock") /\ UNCHANGED <<at, temp, lock>>
  /\ UNCHANGED <<disk, offline, runs, commits, losses>>

LockFree == lock = NoProc

Lock(p) ==
  /\ pc[p] = "lock" /\ LockFree
  /\ lock' = p
  /\ Go(p, "scan") /\ LookAt(p, FirstAsset)
  /\ UNCHANGED <<disk, offline, temp, runs, commits, losses>>

\* Another process may have completed the snapshot while this one waited.
BugNeedsFetch(a) == TRUE
NeedsFetch(a) == ~Valid(a)

ScanNext(p) ==
  /\ pc[p] = "scan" /\ at[p] <= Assets /\ ~NeedsFetch(at[p])
  /\ LookAt(p, at[p] + 1)
  /\ UNCHANGED <<disk, lock, pc, offline, temp, runs, commits, losses>>

ScanDone(p) ==
  /\ pc[p] = "scan" /\ at[p] > Assets
  /\ Return(p, "done")
  /\ UNCHANGED <<disk, offline, runs, commits, losses>>

\* What arrives may be cut off, oversized or altered.
Download(p) ==
  /\ pc[p] = "scan" /\ at[p] <= Assets /\ NeedsFetch(at[p])
  /\ \E got \in {"bad", "unsynced"} : temp' = [temp EXCEPT ![p] = got]
  /\ Go(p, "verify")
  /\ UNCHANGED <<disk, lock, at, offline, runs, commits, losses>>

BugVerified(p) == TRUE
Verified(p) == temp[p] # "bad"

Verify(p) ==
  /\ pc[p] = "verify"
  /\ IF Verified(p) THEN Go(p, "sync") /\ UNCHANGED <<at, temp, lock>>
                    ELSE Return(p, "failed")
  /\ UNCHANGED <<disk, offline, runs, commits, losses>>

BugSynced(content) == content
Synced(content) == IF content = "unsynced" THEN "good" ELSE content

Sync(p) ==
  /\ pc[p] = "sync"
  /\ temp' = [temp EXCEPT ![p] = Synced(@)]
  /\ Go(p, "persist")
  /\ UNCHANGED <<disk, lock, at, offline, runs, commits, losses>>

Persist(p) ==
  /\ pc[p] = "persist"
  /\ files' = [files EXCEPT ![at[p]] = temp[p]]
  /\ commits' = [commits EXCEPT ![at[p]] = @ + 1]
  /\ temp' = [temp EXCEPT ![p] = "absent"]
  /\ Go(p, "scan") /\ LookAt(p, at[p] + 1)
  /\ UNCHANGED <<settled, lock, offline, runs, losses>>

\* A file cannot be read, the server fails, the download takes too long, the
\* disk is full: acquire returns an error.
Fail(p) ==
  /\ pc[p] \notin Resting
  /\ Return(p, "failed")
  /\ UNCHANGED <<disk, offline, runs, commits, losses>>

\* The process is killed.  Its temporary file is never looked at again.
Crash(p) ==
  /\ pc[p] \notin Resting
  /\ pc' = [pc EXCEPT ![p] = "idle"]
  /\ at' = [at EXCEPT ![p] = 1]
  /\ temp' = [temp EXCEPT ![p] = "absent"]
  /\ lock' = IF lock = p THEN NoProc ELSE lock
  /\ UNCHANGED <<disk, offline, runs, commits, losses>>

Settle(a) ==
  /\ settled[a] # files[a]
  /\ settled' = [settled EXCEPT ![a] = files[a]]
  /\ UNCHANGED <<files, lock, pc, at, offline, temp, runs, commits, losses>>

AfterPowerLoss(content) == IF content = "unsynced" THEN "bad" ELSE content

PowerLoss ==
  /\ losses < MaxPowerLosses
  /\ losses' = losses + 1
  /\ files' = [a \in Asset |-> AfterPowerLoss(settled[a])]
  /\ settled' = files'
  /\ lock' = NoProc
  /\ pc' = [p \in Proc |-> "idle"]
  /\ at' = [p \in Proc |-> 1]
  /\ temp' = [p \in Proc |-> "absent"]
  /\ UNCHANGED <<offline, runs, commits>>

\* What acquire does when nothing goes wrong around it.
Step(p) == \/ CheckNext(p) \/ CheckDone(p) \/ CheckMissing(p)
           \/ Lock(p) \/ ScanNext(p) \/ ScanDone(p)
           \/ Download(p) \/ Verify(p) \/ Sync(p) \/ Persist(p)

Rest == \A p \in Proc : pc[p] \in Resting

Idle == Rest /\ UNCHANGED vars

Next == \/ \E p \in Proc : Call(p) \/ Step(p) \/ Fail(p) \/ Crash(p)
        \/ \E a \in Asset : Settle(a)
        \/ PowerLoss
        \/ Idle

Spec == Init /\ [][Next]_vars

\* Reads and downloads have deadlines, so a process that need not wait for the
\* lock goes on.
FairSpec == Spec /\ \A p \in Proc : WF_vars(Step(p))
-----------------------------------------------------------------------------
\* Every variable has its type.
TypeOK ==
  /\ files \in [Asset -> Content] /\ settled \in [Asset -> Content]
  /\ lock \in Proc \union {NoProc}
  /\ pc \in [Proc -> Resting \union {"check", "lock", "scan", "verify", "sync",
                                     "persist"}]
  /\ at \in [Proc -> 1..Assets + 1]
  /\ offline \in [Proc -> BOOLEAN]
  /\ temp \in [Proc -> Content]
  /\ runs \in [Proc -> 0..MaxRuns]
  /\ commits \in [Asset -> Nat]
  /\ losses \in 0..MaxPowerLosses

\* A snapshot that acquire returned is complete and correct, also when another
\* process replaced assets between the unlocked checks, and it stays so on the
\* disk as long as the process lives.
ReturnedIsComplete ==
  \A p \in Proc : pc[p] = "done" => \A a \in Asset : files[a] = "good"

\* One process downloads at a time.
OneDownloads ==
  \A p, q \in Proc : temp[p] # "absent" /\ temp[q] # "absent" => p = q

\* No asset is downloaded again once it is there: processes that waited for the
\* lock find it.  Only a power loss may take it away.
FetchedOnce == \A a \in Asset : commits[a] <= 1 + losses

\* No step takes a correct asset away, nor puts a file into the snapshot that a
\* power loss could turn into garbage.
GoodStays ==
  [][\A a \in Asset : /\ settled[a] = "good" => files'[a] = "good"
                      /\ files'[a] # files[a] /\ losses' = losses
                           => files'[a] = "good"]_vars

\* Every call ends, whoever held the lock and however that process ended.
EveryCallEnds == \A p \in Proc : pc[p] \notin Resting ~> pc[p] \in Resting
=============================================================================
