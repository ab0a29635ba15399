------------------------------ MODULE Previews ------------------------------
(***************************************************************************)
(* Previews of the voice lab: one rendering at a time, a daily budget and  *)
(* a GPU reservation for each (demos/voice-lab/core.ts `perform`,          *)
(* server.ts `render`), in a service that claims its data directory with   *)
(* a lock file and may die, be stopped, or be started twice (server.ts).   *)
(*                                                                         *)
(* A preview takes one step between any two awaits that another service or *)
(* a death could fall between.  Simplifications: loading reads the budget  *)
(* and the jobs in one step; the captured vector and the wave are written  *)
(* in one step that may fail; the reservation's 240 s are longer than the  *)
(* rendering's 180 + 8, so that it never lapses below a rendering.         *)
(***************************************************************************)
EXTENDS Integers, FiniteSets

CONSTANTS Services,  \* processes started on one data directory
          MaxDaily,  \* maxDaily
          MaxJobs,   \* bound: previews asked for
          MaxDay     \* bound: days that pass

ASSUME PreviewsAssumption ==
  /\ MaxDaily \in Nat \ {0} /\ MaxJobs \in Nat /\ MaxDay \in Nat
  /\ Services \cap {"none", "stale"} = {}

Jobs == 1..MaxJobs
NoJob == 0
Days == 0..MaxDay

VARIABLES lock,       \* service.lock: who made it, "none", or "stale" from before
          signed,     \* who has written its pid into the file it made
          proc,       \* where a service is in its life
          pc,         \* where its perform is
          failed,     \* an error is on its way through perform
          active, mem, budget,           \* core.ts: active, the jobs' status, budget
          budgetFile, jobFile, stored,   \* on disk: budget.json, statuses, audio
          lease,      \* reservations that are held
          rendering,  \* renderers that run, orphans included
          today, made,
          renders,    \* history: renderings begun, by the day they count for
          overlapped  \* history: a service came up while another was still there

pvars == <<lock, signed, proc, pc, failed, active, mem, budget, budgetFile, jobFile,
           stored, lease, rendering, today, made, renders, overlapped>>
lockVars == <<lock, signed, proc>>
files == <<budgetFile, jobFile, stored>>
clock == <<today, made, renders, overlapped>>

Statuses == {"none", "queued", "running", "ready", "failed", "interrupted"}
NoJobs == [j \in Jobs |-> "none"]
Unused == [day |-> 0, used |-> 0]

Init ==
  /\ lock \in {"none", "stale"} /\ signed = {}
  /\ proc = [s \in Services |-> "new"]
  /\ pc = [s \in Services |-> "idle"] /\ failed = [s \in Services |-> FALSE]
  /\ active = [s \in Services |-> NoJob] /\ mem = [s \in Services |-> NoJobs]
  /\ budget = [s \in Services |-> Unused]
  /\ budgetFile = Unused /\ jobFile = NoJobs /\ stored = {}
  /\ lease = {} /\ rendering = {}
  /\ today = 0 /\ made = 0
  /\ renders = [d \in Days |-> 0] /\ overlapped = FALSE
-----------------------------------------------------------------------------
(* The lock file.                                                          *)

Live(p) == p \in Services /\ proc[p] \notin {"new", "dead"}

\* A file without a pid reads as 0, which names the reader's own process group.
OwnerAlive == lock \in Services /\ (lock \notin signed \/ Live(lock))

OpenLock(s) ==
  /\ proc[s] = "new"
  /\ \/ /\ lock = "none"
        /\ lock' = s /\ proc' = [proc EXCEPT ![s] = "claim"]
     \/ /\ lock # "none"
        /\ proc' = [proc EXCEPT ![s] = IF OwnerAlive THEN "dead" ELSE "takeover"]
        /\ UNCHANGED lock
  /\ UNCHANGED <<signed, pc, failed, active, mem, budget, files, lease, rendering, clock>>

\* The file that is removed need not be the one that was read.
RemoveStale(s) ==
  /\ proc[s] = "takeover"
  /\ lock' = "none"
  /\ proc' = [proc EXCEPT ![s] = IF lock = "none" THEN "dead" ELSE "reopen"]
  /\ UNCHANGED <<signed, pc, failed, active, mem, budget, files, lease, rendering, clock>>

Reopen(s) ==
  /\ proc[s] = "reopen"
  /\ lock' = IF lock = "none" THEN s ELSE lock
  /\ proc' = [proc EXCEPT ![s] = IF lock = "none" THEN "claim" ELSE "dead"]
  /\ UNCHANGED <<signed, pc, failed, active, mem, budget, files, lease, rendering, clock>>

SignLock(s) ==
  /\ proc[s] = "claim"
  /\ signed' = signed \cup {s}
  /\ proc' = [proc EXCEPT ![s] = "load"]
  /\ UNCHANGED <<lock, pc, failed, active, mem, budget, files, lease, rendering, clock>>

\* A definition named Bug... is never used: put in the place of the one after it,
\* it shows which property would notice that mistake.
BugLoadedBudget == Unused
LoadedBudget == budgetFile

Loaded(status) == IF status \in {"queued", "running"} THEN "interrupted" ELSE status

Load(s) ==
  /\ proc[s] = "load"
  /\ proc' = [proc EXCEPT ![s] = "up"]
  /\ budget' = [budget EXCEPT ![s] = LoadedBudget]
  /\ mem' = [mem EXCEPT ![s] = [j \in Jobs |-> Loaded(jobFile[j])]]
  /\ overlapped' = (overlapped \/ \E t \in Services \ {s} : proc[t] \in {"up", "stopping"})
  /\ UNCHANGED <<lock, signed, pc, failed, active, files, lease, rendering, today, made, renders>>

\* SIGTERM: the lock goes at once, the process twelve seconds later.
Stop(s) ==
  /\ proc[s] = "up"
  /\ proc' = [proc EXCEPT ![s] = "stopping"]
  /\ lock' = "none"
  /\ UNCHANGED <<signed, pc, failed, active, mem, budget, files, lease, rendering, clock>>

\* The end of the process, after a Stop or by a kill at any point.  Its renderer
\* is in a process group of its own and goes on.
Die(s) ==
  /\ Live(s)
  /\ proc' = [proc EXCEPT ![s] = "dead"]
  /\ pc' = [pc EXCEPT ![s] = "idle"] /\ failed' = [failed EXCEPT ![s] = FALSE]
  /\ active' = [active EXCEPT ![s] = NoJob] /\ mem' = [mem EXCEPT ![s] = NoJobs]
  /\ budget' = [budget EXCEPT ![s] = Unused]
  /\ UNCHANGED <<lock, signed, files, lease, rendering, clock>>
-----------------------------------------------------------------------------
(* A preview.                                                              *)

At(s, where) == proc[s] \in {"up", "stopping"} /\ pc[s] = where
Goto(s, where) == pc' = [pc EXCEPT ![s] = where]
Fail(s) == failed' = [failed EXCEPT ![s] = TRUE]
SetStatus(s, status) == mem' = [mem EXCEPT ![s][active[s]] = status]

Post(s) ==
  /\ At(s, "idle") /\ proc[s] = "up" /\ active[s] = NoJob /\ made < MaxJobs
  /\ made' = made + 1
  /\ active' = [active EXCEPT ![s] = made'] /\ mem' = [mem EXCEPT ![s][made'] = "queued"]
  /\ Goto(s, "queue")
  /\ UNCHANGED <<lockVars, failed, budget, files, lease, rendering, today, renders, overlapped>>

\* If the first write fails the request is answered with an error, and the slot
\* stays taken.
SaveQueued(s) ==
  /\ At(s, "queue")
  /\ \/ Goto(s, "reserve") /\ jobFile' = [jobFile EXCEPT ![active[s]] = "queued"]
     \/ Goto(s, "stuck") /\ UNCHANGED jobFile
  /\ UNCHANGED <<lockVars, failed, active, mem, budget, budgetFile, stored, lease, rendering, clock>>

\* dpty loadout reserve: an answer that is lost may leave a reservation behind.
Reserve(s) ==
  /\ At(s, "reserve")
  /\ \/ Goto(s, "admit") /\ lease' = lease \cup {active[s]} /\ UNCHANGED failed
     \/ Goto(s, "check") /\ lease' \in {lease, lease \cup {active[s]}} /\ Fail(s)
  /\ UNCHANGED <<lockVars, active, mem, budget, files, rendering, clock>>

Current(s) == IF budget[s].day # today THEN [day |-> today, used |-> 0] ELSE budget[s]
Counted(b) == [b EXCEPT !.used = @ + 1]

Admit(s) ==
  /\ At(s, "admit")
  /\ IF Current(s).used >= MaxDaily
     THEN budget' = [budget EXCEPT ![s] = Current(s)] /\ Fail(s) /\ Goto(s, "release")
     ELSE /\ budget' = [budget EXCEPT ![s] = Counted(Current(s))]
          /\ Goto(s, "count") /\ UNCHANGED failed
  /\ UNCHANGED <<lockVars, active, mem, files, lease, rendering, clock>>

SaveBudget(s) ==
  /\ At(s, "count")
  /\ \/ Goto(s, "start") /\ budgetFile' = budget[s] /\ UNCHANGED failed
     \/ Goto(s, "release") /\ Fail(s) /\ UNCHANGED budgetFile
  /\ UNCHANGED <<lockVars, active, mem, budget, jobFile, stored, lease, rendering, clock>>

Start(s) ==
  /\ At(s, "start")
  /\ SetStatus(s, "running")
  /\ \/ /\ jobFile' = [jobFile EXCEPT ![active[s]] = "running"]
        /\ rendering' = rendering \cup {active[s]}
        /\ renders' = [renders EXCEPT ![budget[s].day] = @ + 1]
        /\ Goto(s, "work") /\ UNCHANGED failed
     \/ Goto(s, "release") /\ Fail(s) /\ UNCHANGED <<jobFile, rendering, renders>>
  /\ UNCHANGED <<lockVars, active, budget, budgetFile, stored, lease, today, made, overlapped>>

\* The renderer ends, and its receipt is written, or one of them fails.
Work(s) ==
  /\ At(s, "work")
  /\ rendering' = rendering \ {active[s]}
  /\ failed' \in {failed, [failed EXCEPT ![s] = TRUE]}
  /\ Goto(s, "release")
  /\ UNCHANGED <<lockVars, active, mem, budget, files, lease, clock>>

BugUnconfirmed(s) == UNCHANGED failed
Unconfirmed(s) == Fail(s)

\* The finally of `render`: an error here replaces the result.
Release(s) ==
  /\ At(s, "release")
  /\ \/ lease' = lease \ {active[s]} /\ failed' \in {failed, [failed EXCEPT ![s] = TRUE]}
     \/ UNCHANGED lease /\ Unconfirmed(s)
  /\ Goto(s, "check")
  /\ UNCHANGED <<lockVars, active, mem, budget, files, rendering, clock>>

\* Output that is invalid or cannot be stored fails the job.
Check(s) ==
  /\ At(s, "check")
  /\ \/ /\ ~failed[s]
        /\ stored' = stored \cup {active[s]} /\ SetStatus(s, "ready")
     \/ SetStatus(s, "failed") /\ UNCHANGED stored
  /\ failed' = [failed EXCEPT ![s] = FALSE]
  /\ Goto(s, "finish")
  /\ UNCHANGED <<lockVars, active, budget, budgetFile, jobFile, lease, rendering, clock>>

BugFreed(s) == IF mem[s][active[s]] = "failed" THEN active[s] ELSE NoJob
Freed(s) == NoJob

\* The finally of `perform`: active is reset behind the write, not if it fails.
Finish(s) ==
  /\ At(s, "finish")
  /\ \/ /\ jobFile' = [jobFile EXCEPT ![active[s]] = mem[s][active[s]]]
        /\ active' = [active EXCEPT ![s] = Freed(s)] /\ Goto(s, "idle")
     \/ Goto(s, "stuck") /\ UNCHANGED <<jobFile, active>>
  /\ UNCHANGED <<lockVars, failed, mem, budget, budgetFile, stored, lease, rendering, clock>>

Perform(s) == \/ SaveQueued(s) \/ Reserve(s) \/ Admit(s) \/ SaveBudget(s) \/ Start(s)
              \/ Work(s) \/ Release(s) \/ Check(s) \/ Finish(s)
-----------------------------------------------------------------------------
(* What happens by itself.                                                 *)

Working(j) == \E s \in Services : active[s] = j

OrphanEnds(j) ==
  /\ j \in rendering /\ ~Working(j)
  /\ rendering' = rendering \ {j}
  /\ UNCHANGED <<lockVars, pc, failed, active, mem, budget, files, lease, clock>>

Expire(j) ==
  /\ j \in lease \ rendering
  /\ \A s \in Services : active[s] = j => pc[s] \in {"finish", "stuck"}
  /\ lease' = lease \ {j}
  /\ UNCHANGED <<lockVars, pc, failed, active, mem, budget, files, rendering, clock>>

Midnight ==
  /\ today < MaxDay
  /\ today' = today + 1
  /\ UNCHANGED <<lockVars, pc, failed, active, mem, budget, files, lease, rendering, made,
                 renders, overlapped>>

Done == /\ \A s \in Services : proc[s] = "dead"
        /\ UNCHANGED pvars

Next ==
  \/ \E s \in Services : \/ OpenLock(s) \/ RemoveStale(s) \/ Reopen(s) \/ SignLock(s)
                         \/ Load(s) \/ Stop(s) \/ Die(s) \/ Post(s) \/ Perform(s)
  \/ \E j \in Jobs : OrphanEnds(j) \/ Expire(j)
  \/ Midnight \/ Done

Spec == Init /\ [][Next]_pvars
FairSpec == Spec /\ \A s \in Services : WF_pvars(Perform(s))
-----------------------------------------------------------------------------
\* No day has more renderings than the budget allows: what the lab's README
\* promises of a data directory.
DailyLimit == \A d \in Days : renders[d] <= MaxDaily

\* It is kept whatever fails, dies or restarts in between, because a rendering
\* counts before it begins.  The exception is a service that came up beside
\* another one: each then counts for itself.
BudgetKept == ~overlapped => DailyLimit

\* A preview that anybody can see as ready has its audio on disk and its GPU
\* reservation confirmed as released, and unless its last write is still under
\* way (or failed) it will be ready after a restart too.
ReadyIsBacked ==
  \A s \in Services, j \in Jobs :
    mem[s][j] = "ready" =>
      j \in stored /\ j \notin lease /\ (active[s] # j => jobFile[j] = "ready")

\* Every preview ends and makes room for the next, unless its first or its last
\* write fails: then the slot stays taken until the service is restarted.
SlotFreed ==
  \A s \in Services :
    active[s] # NoJob ~> (active[s] = NoJob \/ pc[s] = "stuck")
=============================================================================
