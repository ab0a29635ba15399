-------------------------- MODULE ModelCacheProofs --------------------------
(***************************************************************************)
(* Proofs about ModelCache.tla, for any number of processes, assets, calls *)
(* and power losses: a snapshot that acquire returns is complete, a        *)
(* correct asset is never taken away, one process downloads at a time, and *)
(* none downloads what is there.                                           *)
(***************************************************************************)
EXTENDS ModelCache, TLAPS

Locked == {"scan", "verify", "sync", "persist"}
Fetching == {"verify", "sync", "persist"}

\* The files are never unsynced, and the correct ones on the disk are seen.
FilesInv ==
  /\ files \in [Asset -> {"absent", "bad", "good"}]
  /\ settled \in [Asset -> {"absent", "bad", "good"}]
  /\ \A a \in Asset : settled[a] = "good" => files[a] = "good"

\* A process that looks for work or works holds the lock, has a temporary file
\* only while it fetches, and renames only a verified and synced one.
LockInv ==
  \A p \in Proc : /\ pc[p] \in Locked => lock = p
                  /\ temp[p] # "absent" => pc[p] \in Fetching
                  /\ pc[p] = "verify" => temp[p] \in {"bad", "unsynced"}
                  /\ pc[p] = "sync" => temp[p] = "unsynced"
                  /\ pc[p] = "persist" => temp[p] = "good"

\* What a process has walked past is correct, and what it fetches is not there.
ScanInv ==
  \A p \in Proc :
    /\ pc[p] \in Locked \union {"check"} => \A a \in Asset : a < at[p] => files[a] = "good"
    /\ pc[p] = "done" => \A a \in Asset : files[a] = "good"
    /\ pc[p] \in Fetching => at[p] \in Asset /\ files[at[p]] # "good"

\* An asset that is not there has been lost as often as it was fetched.
CommitInv ==
  \A a \in Asset : /\ commits[a] <= 1 + losses
                   /\ files[a] # "good" => commits[a] <= losses

IInv == TypeOK /\ FilesInv /\ LockInv /\ ScanInv /\ CommitInv
-----------------------------------------------------------------------------
(***************************************************************************)
(* The inductive invariant.                                                *)
(***************************************************************************)
LEMMA InitInv == Init => IInv
<1> SUFFICES ASSUME Init PROVE IInv
  OBVIOUS
<1> USE CacheAssumption DEF Init, Asset
<1>1. TypeOK
  BY DEF TypeOK, Content, Resting
<1>2. FilesInv /\ LockInv /\ ScanInv /\ CommitInv
  BY DEF FilesInv, LockInv, ScanInv, CommitInv, Locked, Fetching
<1> QED BY <1>1, <1>2 DEF IInv

\* Every kind of step keeps the types.
LEMMA TypeStep == TypeOK /\ ScanInv /\ [Next]_vars => TypeOK'
<1> SUFFICES ASSUME TypeOK, ScanInv, [Next]_vars PROVE TypeOK'
  OBVIOUS
<1> USE CacheAssumption DEF TypeOK, Asset, Content, Resting, disk
<1>1. ASSUME NEW p \in Proc, NEW how \in Resting, Return(p, how),
             UNCHANGED <<disk, offline, runs, commits, losses>>
      PROVE  TypeOK'
  BY <1>1 DEF Return, Released
<1>2. ASSUME NEW p \in Proc, Call(p) PROVE TypeOK'
  <2>1. runs' \in [Proc -> 0..MaxRuns]
    BY <1>2 DEF Call
  <2>2. offline' \in [Proc -> BOOLEAN]
    BY <1>2, Zenon DEF Call
  <2>3. pc' \in [Proc -> Resting \union {"check", "lock", "scan", "verify", "sync",
                                        "persist"}]
    BY <1>2 DEF Call, Go
  <2>4. at' \in [Proc -> 1..Assets + 1]
    BY <1>2 DEF Call, LookAt, FirstAsset
  <2> QED BY <1>2, <2>1, <2>2, <2>3, <2>4, Zenon DEF Call
<1>3. ASSUME NEW p \in Proc, CheckNext(p) \/ ScanNext(p) PROVE TypeOK'
  <2>1. at[p] \in 1..Assets /\ at' = [at EXCEPT ![p] = at[p] + 1]
    BY <1>3 DEF CheckNext, ScanNext, LookAt
  <2>2. at' \in [Proc -> 1..Assets + 1]
    BY <2>1
  <2> QED BY <1>3, <2>2 DEF CheckNext, ScanNext
<1>4. ASSUME NEW p \in Proc, CheckDone(p) \/ ScanDone(p) \/ Fail(p) PROVE TypeOK'
  BY <1>1, <1>4 DEF CheckDone, ScanDone, Fail
<1>5. ASSUME NEW p \in Proc, CheckMissing(p) \/ Verify(p) PROVE TypeOK'
  <2>1. CASE Return(p, "failed") /\ UNCHANGED <<disk, offline, runs, commits, losses>>
    BY <1>1, <2>1
  <2>2. CASE /\ Go(p, "lock") \/ Go(p, "sync")
             /\ UNCHANGED <<disk, at, temp, lock, offline, runs, commits, losses>>
    BY <2>2 DEF Go
  <2> QED BY <1>5, <2>1, <2>2 DEF CheckMissing, Verify
<1>6. ASSUME NEW p \in Proc, Lock(p) PROVE TypeOK'
  BY <1>6 DEF Lock, Go, LookAt, FirstAsset
<1>7. ASSUME NEW p \in Proc, Download(p) \/ Sync(p) PROVE TypeOK'
  <2>1. temp' \in [Proc -> Content]
    BY <1>7 DEF Download, Sync, Synced
  <2>2. pc' \in [Proc -> Resting \union {"check", "lock", "scan", "verify", "sync",
                                        "persist"}]
    <3>1. \E w \in {"verify", "persist"} : pc' = [pc EXCEPT ![p] = w]
      BY <1>7, Zenon DEF Download, Sync, Go
    <3> QED BY <3>1
  <2> QED BY <1>7, <2>1, <2>2, Zenon DEF Download, Sync
<1>8. ASSUME NEW p \in Proc, Persist(p), at[p] \in Asset PROVE TypeOK'
  <2>1. at' = [at EXCEPT ![p] = at[p] + 1]
    BY <1>8 DEF Persist, LookAt
  <2>2. at' \in [Proc -> 1..Assets + 1]
    BY <1>8, <2>1
  <2>3. commits' \in [Asset -> Nat] /\ files' \in [Asset -> Content]
    <3>1. commits' = [commits EXCEPT ![at[p]] = @ + 1]
      BY <1>8, Zenon DEF Persist
    <3>2. files' = [files EXCEPT ![at[p]] = temp[p]] /\ temp[p] \in Content
      BY <1>8, Zenon DEF Persist
    <3>3. commits' \in [Asset -> Nat]
      <4>1. commits \in [Asset -> Nat] /\ at[p] \in Asset
        BY <1>8, Zenon
      <4>2. commits[at[p]] \in Nat
        BY <4>1, Zenon
      <4>3. commits[at[p]] + 1 \in Nat
        BY <4>2, SMT
      <4> QED BY <3>1, <4>1, <4>3, Zenon
    <3>4. files' \in [Asset -> Content]
      BY <3>2, Zenon
    <3> QED BY <3>3, <3>4
  <2>4. pc' \in [Proc -> Resting \union {"check", "lock", "scan", "verify", "sync",
                                        "persist"}]
    BY <1>8 DEF Persist, Go
  <2>5. temp' \in [Proc -> Content]
    BY <1>8 DEF Persist
  <2> QED BY <1>8, <2>2, <2>3, <2>4, <2>5 DEF Persist
<1>9. ASSUME NEW p \in Proc, Crash(p) PROVE TypeOK'
  BY <1>9 DEF Crash
<1>10. ASSUME NEW a \in Asset, Settle(a) PROVE TypeOK'
  BY <1>10 DEF Settle
<1>11. CASE PowerLoss
  BY <1>11 DEF PowerLoss, AfterPowerLoss
<1>12. CASE Idle \/ UNCHANGED vars
  BY <1>12 DEF Idle, vars
<1>13. ASSUME NEW p \in Proc, Persist(p) PROVE at[p] \in Asset
  BY <1>13 DEF Persist, ScanInv, Fetching
<1> QED BY <1>2, <1>3, <1>4, <1>5, <1>6, <1>7, <1>8, <1>9, <1>10, <1>11, <1>12, <1>13
           DEF Next, Step

\* Each action changes the state of one process, or loses them all.
LEMMA LockStep == TypeOK /\ LockInv /\ [Next]_vars => LockInv'
<1> SUFFICES ASSUME TypeOK, LockInv, [Next]_vars, NEW q \in Proc
             PROVE  /\ pc'[q] \in Locked => lock' = q
                    /\ temp'[q] # "absent" => pc'[q] \in Fetching
                    /\ pc'[q] = "verify" => temp'[q] \in {"bad", "unsynced"}
                    /\ pc'[q] = "sync" => temp'[q] = "unsynced"
                    /\ pc'[q] = "persist" => temp'[q] = "good"
  BY DEF LockInv
<1> USE CacheAssumption DEF TypeOK, LockInv, Locked, Fetching
<1>1. ASSUME NEW p \in Proc, NEW how \in Resting, Return(p, how)
      PROVE  LockInv'
  BY <1>1 DEF Return, Released, Resting
<1>2. ASSUME NEW p \in Proc, Call(p) PROVE LockInv'
  BY <1>2 DEF Call, Go, Resting
<1>3. ASSUME NEW p \in Proc, CheckNext(p) \/ ScanNext(p) PROVE LockInv'
  BY <1>3 DEF CheckNext, ScanNext
<1>4. ASSUME NEW p \in Proc, CheckDone(p) \/ ScanDone(p) \/ Fail(p) PROVE LockInv'
  BY <1>1, <1>4 DEF CheckDone, ScanDone, Fail, Resting
<1>5. ASSUME NEW p \in Proc, CheckMissing(p) \/ Verify(p) PROVE LockInv'
  <2>1. CASE Return(p, "failed")
    BY <1>1, <2>1 DEF Resting
  <2>2. CASE pc[p] = "check" /\ Go(p, "lock") /\ UNCHANGED <<temp, lock>>
    BY <2>2 DEF Go
  <2>3. CASE pc[p] = "verify" /\ Verified(p) /\ Go(p, "sync") /\ UNCHANGED <<temp, lock>>
    BY <2>3 DEF Go, Verified
  <2> QED BY <1>5, <2>1, <2>2, <2>3 DEF CheckMissing, Verify
<1>6. ASSUME NEW p \in Proc, Lock(p) PROVE LockInv'
  BY <1>6 DEF Lock, Go, LockFree
<1>7. ASSUME NEW p \in Proc, Download(p) PROVE LockInv'
  BY <1>7 DEF Download, Go
<1>8. ASSUME NEW p \in Proc, Sync(p) PROVE LockInv'
  BY <1>8 DEF Sync, Go, Synced, Content
<1>9. ASSUME NEW p \in Proc, Persist(p) PROVE LockInv'
  BY <1>9 DEF Persist, Go
<1>10. ASSUME NEW p \in Proc, Crash(p) PROVE LockInv'
  BY <1>10 DEF Crash
<1>11. CASE PowerLoss
  BY <1>11 DEF PowerLoss
<1>12. CASE Idle \/ (\E a \in Asset : Settle(a)) \/ UNCHANGED vars
  BY <1>12 DEF Idle, Settle, vars
<1> QED BY <1>2, <1>3, <1>4, <1>5, <1>6, <1>7, <1>8, <1>9, <1>10, <1>11, <1>12
           DEF Next, Step

\* What changes the files: a rename of a good file onto one that is not, and a
\* power loss.
LEMMA FilesStep ==
  ASSUME TypeOK, FilesInv, LockInv, ScanInv, [Next]_vars
  PROVE  /\ FilesInv'
         /\ \/ UNCHANGED <<files, commits, losses>>
            \/ \E p \in Proc : Persist(p) /\ files' = [files EXCEPT ![at[p]] = "good"]
            \/ PowerLoss /\ files' = settled
<1> USE DEF FilesInv, disk
<1>1. CASE UNCHANGED <<disk, commits, losses>>
  BY <1>1
<1>2. ASSUME NEW p \in Proc, Persist(p)
      PROVE  FilesInv' /\ files' = [files EXCEPT ![at[p]] = "good"]
  <2>1. temp[p] = "good"
    BY <1>2 DEF Persist, LockInv
  <2> QED BY <1>2, <2>1 DEF Persist
<1>3. ASSUME NEW a \in Asset, Settle(a)
      PROVE  FilesInv' /\ UNCHANGED <<files, commits, losses>>
  BY <1>3 DEF Settle
<1>4. CASE PowerLoss
  <2>1. files' = settled /\ settled' = settled
    BY <1>4 DEF PowerLoss, AfterPowerLoss
  <2> QED BY <1>4, <2>1
<1>5. ASSUME NEW p \in Proc,
             Call(p) \/ CheckNext(p) \/ CheckDone(p) \/ CheckMissing(p) \/ Lock(p)
             \/ ScanNext(p) \/ ScanDone(p) \/ Download(p) \/ Verify(p) \/ Sync(p)
             \/ Fail(p) \/ Crash(p)
      PROVE  UNCHANGED <<disk, commits, losses>>
  BY <1>5 DEF Call, CheckNext, CheckDone, CheckMissing, Lock, ScanNext, ScanDone,
              Download, Verify, Sync, Fail, Crash
<1>6. CASE Idle \/ UNCHANGED vars
  BY <1>6 DEF Idle, vars
<1> QED BY <1>1, <1>2, <1>3, <1>4, <1>5, <1>6 DEF Next, Step

\* Correct files only go away when every process does.
LEMMA ScanStep ==
  ASSUME TypeOK, FilesInv, LockInv, ScanInv, [Next]_vars
  PROVE  ScanInv'
<1> USE CacheAssumption DEF TypeOK, Locked, Fetching, Asset
<1>1. CASE PowerLoss
  BY <1>1 DEF PowerLoss, ScanInv
<1>3. ASSUME NEW p \in Proc, NEW where, NEW a,
             pc' = [pc EXCEPT ![p] = where], at' = [at EXCEPT ![p] = a], UNCHANGED files,
             where \in Locked \union {"check"} =>
               \A b \in Asset : b < a => files[b] = "good",
             where = "done" => \A b \in Asset : files[b] = "good",
             where \in Fetching => a \in Asset /\ files[a] # "good"
      PROVE  ScanInv'
  BY <1>3 DEF ScanInv
<1>4. ASSUME NEW p \in Proc, Call(p) \/ Lock(p) PROVE ScanInv'
  <2>1. PICK where \in {"check", "scan"} :
          /\ pc' = [pc EXCEPT ![p] = where] /\ at' = [at EXCEPT ![p] = 1]
          /\ UNCHANGED files
    BY <1>4 DEF Call, Lock, Go, LookAt, FirstAsset, disk
  <2>2. \A b \in Asset : ~(b < 1)
    OBVIOUS
  <2> QED BY <1>3, <2>1, <2>2
<1>5. ASSUME NEW p \in Proc, CheckNext(p) \/ ScanNext(p) PROVE ScanInv'
  <2>1. UNCHANGED <<files, pc>> /\ pc[p] \in {"check", "scan"} /\ at[p] <= Assets
    BY <1>5 DEF CheckNext, ScanNext, disk
  <2>2. at' = [at EXCEPT ![p] = at[p] + 1]
    BY <1>5 DEF CheckNext, ScanNext, LookAt
  <2>3. Valid(at[p])
    BY <1>5 DEF CheckNext, ScanNext, NeedsFetch
  <2>4. at[p] \in Asset
    BY <2>1
  <2>5. files[at[p]] = "good"
    BY <2>3, <2>4 DEF Valid, FilesInv
  <2> QED BY <2>1, <2>2, <2>4, <2>5 DEF ScanInv
<1>6. ASSUME NEW p \in Proc, CheckDone(p) \/ ScanDone(p) PROVE ScanInv'
  <2>1. Return(p, "done") /\ UNCHANGED files /\ pc[p] \in {"check", "scan"} /\ at[p] > Assets
    BY <1>6 DEF CheckDone, ScanDone, disk
  <2>2. \A a \in Asset : files[a] = "good"
    BY <2>1 DEF ScanInv
  <2> QED BY <2>1, <2>2 DEF ScanInv, Return
<1>7. ASSUME NEW p \in Proc, CheckMissing(p) \/ Verify(p) \/ Fail(p) \/ Crash(p) PROVE ScanInv'
  <2>1. UNCHANGED files
    BY <1>7 DEF CheckMissing, Verify, Fail, Crash, disk
  <2>2. CASE Return(p, "failed") \/ Crash(p)
    <3>1. PICK where \in {"failed", "idle"} :
            pc' = [pc EXCEPT ![p] = where] /\ at' = [at EXCEPT ![p] = 1]
      BY <2>2 DEF Return, Crash
    <3> QED BY <1>3, <2>1, <3>1
  <2>3. CASE pc[p] = "check" /\ Go(p, "lock") /\ UNCHANGED at
    BY <2>1, <2>3 DEF Go, ScanInv
  <2>4. CASE pc[p] = "verify" /\ Go(p, "sync") /\ UNCHANGED at
    BY <2>1, <2>4 DEF Go, ScanInv
  <2> QED BY <1>7, <2>2, <2>3, <2>4 DEF CheckMissing, Verify, Fail
<1>8. ASSUME NEW p \in Proc, Download(p) \/ Sync(p) PROVE ScanInv'
  <2>1. CASE Download(p)
    <3>1. pc' = [pc EXCEPT ![p] = "verify"] /\ UNCHANGED <<files, at>> /\ pc[p] = "scan"
      BY <2>1 DEF Download, Go, disk
    <3>2. at[p] \in Asset /\ files[at[p]] # "good"
      BY <2>1 DEF Download, NeedsFetch, Valid
    <3> QED BY <3>1, <3>2 DEF ScanInv
  <2>2. CASE Sync(p)
    <3>1. pc' = [pc EXCEPT ![p] = "persist"] /\ UNCHANGED <<files, at>> /\ pc[p] = "sync"
      BY <2>2 DEF Sync, Go, disk
    <3> QED BY <3>1 DEF ScanInv
  <2> QED BY <1>8, <2>1, <2>2
<1>9. ASSUME NEW p \in Proc, Persist(p) PROVE ScanInv'
  <2>1. /\ files' = [files EXCEPT ![at[p]] = "good"] /\ at[p] \in Asset
        /\ pc' = [pc EXCEPT ![p] = "scan"] /\ at' = [at EXCEPT ![p] = at[p] + 1]
    BY <1>9 DEF Persist, Go, LookAt, LockInv, ScanInv
  <2>2. ASSUME NEW q \in Proc, q # p PROVE pc[q] \notin Fetching
    BY <1>9, <2>2 DEF Persist, LockInv
  <2>3. /\ files'[at[p]] = "good" /\ pc'[p] = "scan" /\ at'[p] = at[p] + 1
        /\ \A a \in Asset : a # at[p] => files'[a] = files[a]
        /\ \A q \in Proc : q # p => pc'[q] = pc[q] /\ at'[q] = at[q]
    BY <2>1 DEF FilesInv
  <2>4. \A a \in Asset : files[a] = "good" => files'[a] = "good"
    BY <2>3
  <2>5. ASSUME NEW q \in Proc, q # p
        PROVE  /\ pc'[q] \in Locked \union {"check"} => \A a \in Asset : a < at'[q] => files'[a] = "good"
               /\ pc'[q] = "done" => \A a \in Asset : files'[a] = "good"
               /\ pc'[q] \notin Fetching
    <3>1. pc'[q] = pc[q] /\ at'[q] = at[q]
      BY <2>3, <2>5, Zenon
    <3>2. pc[q] \notin Fetching
      BY <2>2, <2>5, Zenon
    <3>3. ASSUME pc[q] \in Locked \union {"check"}, NEW a \in Asset, a < at[q]
          PROVE  files'[a] = "good"
      BY <2>4, <3>3, Zenon DEF ScanInv
    <3>4. pc[q] = "done" => \A a \in Asset : files'[a] = "good"
      BY <2>4, Zenon DEF ScanInv
    <3> QED BY <3>1, <3>2, <3>3, <3>4, Zenon
  <2>6. \A a \in Asset : a < at'[p] => files'[a] = "good"
    <3> SUFFICES ASSUME NEW a \in Asset, a < at'[p] PROVE files'[a] = "good"
      OBVIOUS
    <3>1. a = at[p] \/ a < at[p]
      BY <2>1, <2>3
    <3>2. pc[p] \in Locked
      BY <1>9 DEF Persist, Locked
    <3> QED BY <2>3, <2>4, <3>1, <3>2 DEF ScanInv
  <2>7. "scan" \notin Fetching \cup {"done"}
    BY DEF Fetching
  <2> QED BY <2>3, <2>5, <2>6, <2>7 DEF ScanInv
<1>11. CASE Idle \/ (\E a \in Asset : Settle(a)) \/ UNCHANGED vars
  BY <1>11 DEF Idle, Settle, vars, disk, ScanInv
<1> QED BY <1>1, <1>4, <1>5, <1>6, <1>7, <1>8, <1>9, <1>11 DEF Next, Step

\* A process fetches only what is not there.
LEMMA CommitStep ==
  ASSUME TypeOK, FilesInv, LockInv, ScanInv, CommitInv, [Next]_vars
  PROVE  CommitInv'
<1> USE DEF TypeOK, CommitInv
<1>1. CASE UNCHANGED <<files, commits, losses>>
  BY <1>1
<1>2. ASSUME NEW p \in Proc, Persist(p), files' = [files EXCEPT ![at[p]] = "good"]
      PROVE  CommitInv'
  <2>1. /\ at[p] \in Asset /\ files[at[p]] # "good" /\ UNCHANGED losses
        /\ commits' = [commits EXCEPT ![at[p]] = commits[at[p]] + 1]
    BY <1>2 DEF Persist, ScanInv, Fetching
  <2>2. losses \in Nat /\ \A a \in Asset : commits[a] \in Nat
    OBVIOUS
  <2>3. ASSUME NEW a \in Asset
        PROVE  commits'[a] <= 1 + losses /\ (files'[a] # "good" => commits'[a] <= losses)
    <3>1. CASE a = at[p]
      BY <1>2, <2>1, <2>2, <3>1 DEF FilesInv
    <3>2. CASE a # at[p]
      BY <1>2, <2>1, <2>2, <3>2 DEF FilesInv
    <3> QED BY <3>1, <3>2
  <2> QED BY <2>1, <2>3
<1>3. CASE PowerLoss
  BY <1>3 DEF PowerLoss
<1> QED BY <1>1, <1>2, <1>3, FilesStep

LEMMA NextInv == IInv /\ [Next]_vars => IInv'
  BY TypeStep, LockStep, FilesStep, ScanStep, CommitStep DEF IInv

LEMMA Invariance == Spec => []IInv
  BY InitInv, NextInv, PTL DEF Spec
-----------------------------------------------------------------------------
(***************************************************************************)
(* The results.                                                            *)
(***************************************************************************)
\* Every variable has its type, for any number of processes and assets.
THEOREM TypeCorrect == Spec => []TypeOK
<1>1. IInv => TypeOK
  BY DEF IInv
<1> QED BY <1>1, Invariance, PTL

\* A snapshot that acquire returned is complete and correct, whatever other
\* processes did to the cache meanwhile.
THEOREM SnapshotIsComplete == Spec => []ReturnedIsComplete
<1>1. IInv => ReturnedIsComplete
  BY DEF IInv, ScanInv, ReturnedIsComplete
<1> QED BY <1>1, Invariance, PTL

\* The lock keeps two processes from downloading at the same time.
THEOREM DownloadsExclude == Spec => []OneDownloads
<1>1. IInv => OneDownloads
  BY DEF IInv, LockInv, OneDownloads, Locked, Fetching
<1> QED BY <1>1, Invariance, PTL

\* An asset is fetched once, and once more for every power loss that took it.
THEOREM NothingFetchedTwice == Spec => []FetchedOnce
<1>1. IInv => FetchedOnce
  BY DEF IInv, CommitInv, FetchedOnce
<1> QED BY <1>1, Invariance, PTL

\* No call, crash or power loss takes a correct asset on the disk away, and only
\* correct ones are put there.
THEOREM CorrectAssetsStay == Spec => GoodStays
<1>1. IInv /\ [Next]_vars =>
        [\A a \in Asset : /\ settled[a] = "good" => files'[a] = "good"
                          /\ files'[a] # files[a] /\ losses' = losses
                               => files'[a] = "good"]_vars
  <2> SUFFICES ASSUME IInv, [Next]_vars, NEW a \in Asset
               PROVE  /\ settled[a] = "good" => files'[a] = "good"
                      /\ files'[a] # files[a] /\ losses' = losses => files'[a] = "good"
    OBVIOUS
  <2> USE DEF IInv, FilesInv
  <2>1. CASE UNCHANGED files
    BY <2>1
  <2>2. CASE \E p \in Proc : files' = [files EXCEPT ![at[p]] = "good"]
    BY <2>2
  <2>3. CASE PowerLoss /\ files' = settled
    BY <2>3 DEF PowerLoss, TypeOK
  <2> QED BY <2>1, <2>2, <2>3, FilesStep
<1> QED BY <1>1, Invariance, PTL DEF Spec, GoodStays
=============================================================================
