--------------------------- MODULE PreviewsProofs ---------------------------
(***************************************************************************)
(* Proofs about Previews.tla, for any number of services, previews and     *)
(* days, and any budget: no day has more renderings than the budget allows *)
(* while the services follow each other, and a preview that is shown as    *)
(* ready is backed by its files, also behind a death and a restart.        *)
(***************************************************************************)
EXTENDS Previews, TLAPS

\* The places of a service in its life, and of its perform.
Life == {"new", "claim", "takeover", "reopen", "load", "up", "stopping", "dead"}
Where == {"idle", "queue", "reserve", "admit", "count", "start", "work", "release",
          "check", "finish", "stuck"}
Budget == [day : Days, used : Nat]

\* Every variable that the results speak of has its type.
PTypeOK ==
  /\ proc \in [Services -> Life] /\ pc \in [Services -> Where]
  /\ active \in [Services -> 0..MaxJobs]
  /\ mem \in [Services -> [Jobs -> Statuses]] /\ jobFile \in [Jobs -> Statuses]
  /\ budget \in [Services -> Budget] /\ budgetFile \in Budget
  /\ stored \subseteq Jobs /\ lease \subseteq Jobs /\ rendering \subseteq Jobs
  /\ today \in Days /\ made \in 0..MaxJobs
  /\ renders \in [Days -> Nat]

\* The flag of an error on its way, apart: a Boolean.
FailedType == failed \in [Services -> BOOLEAN]

Up(s) == proc[s] \in {"up", "stopping"}

\* A service has a job exactly while its perform is under way (or stuck), and only
\* while it is up.
PlaceInv ==
  \A s \in Services : /\ pc[s] = "idle" <=> active[s] = NoJob
                      /\ ~Up(s) => pc[s] = "idle"
-----------------------------------------------------------------------------
(***************************************************************************)
(* Types and places.                                                       *)
(***************************************************************************)
LEMMA InitType == Init => PTypeOK /\ FailedType /\ PlaceInv
<1> SUFFICES ASSUME Init PROVE PTypeOK /\ FailedType /\ PlaceInv
  OBVIOUS
<1>1. 0 \in Days /\ 0 \in 0..MaxJobs /\ Unused \in Budget
  BY PreviewsAssumption DEF Days, Unused, Budget
<1>2. proc \in [Services -> Life] /\ pc \in [Services -> Where]
  BY DEF Init, Life, Where
<1>3. active \in [Services -> 0..MaxJobs]
  BY <1>1 DEF Init, NoJob
<1>4. NoJobs \in [Jobs -> Statuses]
  BY DEF NoJobs, Statuses
<1>5. mem \in [Services -> [Jobs -> Statuses]] /\ jobFile \in [Jobs -> Statuses]
  BY <1>4 DEF Init
<1>6. budget \in [Services -> Budget] /\ budgetFile \in Budget
  BY <1>1 DEF Init
<1>7. renders \in [Days -> Nat]
  BY DEF Init
<1>8. PTypeOK
  BY <1>1, <1>2, <1>3, <1>5, <1>6, <1>7 DEF PTypeOK, Init
<1>9. FailedType
  BY DEF Init, FailedType
<1>10. PlaceInv
  BY DEF Init, PlaceInv, Up
<1> QED BY <1>8, <1>9, <1>10

\* What an up service writes about its job is about a job.
LEMMA ActiveIsJob ==
  ASSUME PTypeOK, PlaceInv, NEW s \in Services, pc[s] # "idle"
  PROVE  active[s] \in Jobs /\ active[s] # NoJob /\ Up(s)
<1>1. active[s] \in 0..MaxJobs /\ active[s] # 0
  BY DEF PTypeOK, PlaceInv, NoJob
<1> QED BY <1>1, PreviewsAssumption DEF PlaceInv, Jobs, NoJob

LEMMA StatusType ==
  ASSUME PTypeOK, PlaceInv, NEW s \in Services, pc[s] # "idle",
         NEW status \in Statuses, SetStatus(s, status)
  PROVE  /\ mem' \in [Services -> [Jobs -> Statuses]]
         /\ \A t \in Services \ {s} : mem'[t] = mem[t]
         /\ mem'[s][active[s]] = status
         /\ \A j \in Jobs \ {active[s]} : mem'[s][j] = mem[s][j]
<1>1. active[s] \in Jobs
  BY ActiveIsJob
<1> QED BY <1>1 DEF PTypeOK, SetStatus

LEMMA CurrentType ==
  ASSUME PTypeOK, NEW s \in Services
  PROVE  /\ Current(s) \in Budget /\ Counted(Current(s)) \in Budget
         /\ Counted(Current(s)).day = Current(s).day
         /\ Counted(Current(s)).used = Current(s).used + 1
<1>1. budget[s] \in Budget /\ [day |-> today, used |-> 0] \in Budget
  BY DEF PTypeOK, Budget
<1>2. Current(s) \in Budget
  BY <1>1 DEF Current
<1> QED BY <1>2 DEF Counted, Budget

\* A step of the lock leaves everything else alone, and no service comes up or
\* goes by it.
LockStep(s) == OpenLock(s) \/ RemoveStale(s) \/ Reopen(s) \/ SignLock(s)

LEMMA LockSteps ==
  ASSUME PTypeOK, NEW s \in Services, LockStep(s)
  PROVE  /\ proc' \in [Services -> Life]
         /\ \A t \in Services : /\ Up(t)' <=> Up(t)
                                /\ proc'[t] = proc[t] \/ t = s
         /\ UNCHANGED <<pc, failed, active, mem, budget, files, lease, rendering, clock>>
<1>1. CASE OpenLock(s)
  BY <1>1 DEF OpenLock, PTypeOK, Life, Up
<1>2. CASE RemoveStale(s)
  BY <1>2 DEF RemoveStale, PTypeOK, Life, Up
<1>3. CASE Reopen(s)
  BY <1>3 DEF Reopen, PTypeOK, Life, Up
<1>4. CASE SignLock(s)
  BY <1>4 DEF SignLock, PTypeOK, Life, Up
<1> QED BY <1>1, <1>2, <1>3, <1>4 DEF LockStep

\* In which ways a step can be taken.
LEMMA NextCases ==
  ASSUME [Next]_pvars
  PROVE  \/ \E s \in Services : \/ LockStep(s) \/ Load(s) \/ Stop(s) \/ Die(s) \/ Post(s)
                                \/ SaveQueued(s) \/ Reserve(s) \/ Admit(s) \/ SaveBudget(s)
                                \/ Start(s) \/ Work(s) \/ Release(s) \/ Check(s) \/ Finish(s)
         \/ \E j \in Jobs : OrphanEnds(j) \/ Expire(j)
         \/ Midnight \/ UNCHANGED pvars
  BY Zenon DEF Next, Perform, LockStep, Done

\* Every step keeps types and places.
LEMMA TypeStep == PTypeOK /\ PlaceInv /\ [Next]_pvars => PTypeOK' /\ PlaceInv'
<1> SUFFICES ASSUME PTypeOK, PlaceInv, [Next]_pvars PROVE PTypeOK' /\ PlaceInv'
  OBVIOUS
<1>0. /\ proc \in [Services -> Life] /\ pc \in [Services -> Where]
      /\ active \in [Services -> 0..MaxJobs] /\ budget \in [Services -> Budget]
      /\ jobFile \in [Jobs -> Statuses] /\ mem \in [Services -> [Jobs -> Statuses]]
      /\ renders \in [Days -> Nat]
  BY DEF PTypeOK
<1> USE DEF Up, Life, Where
<1>1. ASSUME NEW s \in Services, LockStep(s) PROVE PTypeOK' /\ PlaceInv'
  <2>1. UNCHANGED <<pc, active, mem, budget, files, lease, rendering, clock>>
    BY <1>1, LockSteps
  <2>2. proc' \in [Services -> Life] /\ \A t \in Services : Up(t)' <=> Up(t)
    BY <1>1, LockSteps
  <2>3. PTypeOK'
    BY <2>1, <2>2, Zenon DEF PTypeOK, files, clock
  <2>4. PlaceInv'
    BY <2>1, <2>2 DEF PlaceInv
  <2> QED BY <2>3, <2>4
<1>2. ASSUME NEW s \in Services, Load(s) PROVE PTypeOK' /\ PlaceInv'
  <2>1. /\ proc' = [proc EXCEPT ![s] = "up"] /\ proc[s] = "load"
        /\ UNCHANGED <<pc, active, files, lease, rendering, today, made, renders>>
    BY <1>2, Zenon DEF Load, files
  <2>2. proc' \in [Services -> Life]
    BY <1>0, <2>1
  <2>3. [j \in Jobs |-> Loaded(jobFile[j])] \in [Jobs -> Statuses]
    BY <1>0 DEF Loaded, Statuses
  <2>4. mem' \in [Services -> [Jobs -> Statuses]] /\ budget' \in [Services -> Budget]
    BY <1>2, <2>3 DEF Load, LoadedBudget, PTypeOK
  <2>5. PTypeOK'
    BY <2>1, <2>2, <2>4, Zenon DEF PTypeOK, files
  <2>6. PlaceInv'
    BY <1>0, <2>1 DEF PlaceInv
  <2> QED BY <2>5, <2>6
<1>3. ASSUME NEW s \in Services, Stop(s) PROVE PTypeOK' /\ PlaceInv'
  <2>1. /\ proc' = [proc EXCEPT ![s] = "stopping"] /\ proc[s] = "up"
        /\ UNCHANGED <<pc, active, mem, budget, files, lease, rendering, clock>>
    BY <1>3, Zenon DEF Stop
  <2>2. proc' \in [Services -> Life]
    BY <1>0, <2>1
  <2>3. PTypeOK'
    BY <2>1, <2>2, Zenon DEF PTypeOK, files, clock
  <2>4. PlaceInv'
    BY <1>0, <2>1 DEF PlaceInv
  <2> QED BY <2>3, <2>4
<1>4. ASSUME NEW s \in Services, Die(s) PROVE PTypeOK' /\ PlaceInv'
  <2>1. /\ proc' = [proc EXCEPT ![s] = "dead"] /\ pc' = [pc EXCEPT ![s] = "idle"]
        /\ active' = [active EXCEPT ![s] = NoJob] /\ mem' = [mem EXCEPT ![s] = NoJobs]
        /\ budget' = [budget EXCEPT ![s] = Unused]
        /\ UNCHANGED <<files, lease, rendering, clock>>
    BY <1>4, Zenon DEF Die
  <2>2. NoJobs \in [Jobs -> Statuses] /\ Unused \in Budget /\ NoJob \in 0..MaxJobs
    BY PreviewsAssumption DEF NoJobs, Statuses, Unused, Budget, Days, NoJob
  <2>3. /\ proc' \in [Services -> Life] /\ pc' \in [Services -> Where]
        /\ active' \in [Services -> 0..MaxJobs]
        /\ mem' \in [Services -> [Jobs -> Statuses]] /\ budget' \in [Services -> Budget]
    BY <1>0, <2>1, <2>2
  <2>4. PTypeOK'
    BY <2>1, <2>3, Zenon DEF PTypeOK, files, clock
  <2>5. PlaceInv'
    BY <1>0, <2>1 DEF PlaceInv
  <2> QED BY <2>4, <2>5
<1>5. ASSUME NEW s \in Services, Post(s) PROVE PTypeOK' /\ PlaceInv'
  <2>1. /\ proc[s] = "up" /\ made < MaxJobs /\ made' = made + 1
        /\ active' = [active EXCEPT ![s] = made']
        /\ mem' = [mem EXCEPT ![s][made'] = "queued"] /\ pc' = [pc EXCEPT ![s] = "queue"]
        /\ UNCHANGED <<proc, budget, files, lease, rendering, today, renders>>
    BY <1>5, Zenon DEF Post, Goto, lockVars
  <2>2. made' \in 0..MaxJobs /\ made' \in Jobs /\ made' # NoJob
    BY <2>1, PreviewsAssumption DEF PTypeOK, Jobs, NoJob
  <2>3. pc' \in [Services -> Where] /\ active' \in [Services -> 0..MaxJobs]
    BY <1>0, <2>1, <2>2
  <2>4. mem' \in [Services -> [Jobs -> Statuses]]
    BY <1>0, <2>1, <2>2 DEF Statuses
  <2>5. PTypeOK'
    BY <2>1, <2>2, <2>3, <2>4, Zenon DEF PTypeOK, files
  <2>6. PlaceInv'
    BY <1>0, <2>1, <2>2 DEF PlaceInv
  <2> QED BY <2>5, <2>6
<1>6. ASSUME NEW s \in Services, SaveQueued(s) PROVE PTypeOK' /\ PlaceInv'
  <2>1. /\ UNCHANGED <<proc, active, today, made>>
        /\ UNCHANGED <<mem, budget, budgetFile, stored, lease, rendering, renders>>
        /\ pc[s] # "idle"
    BY <1>6, Zenon DEF SaveQueued, At, files, clock, lockVars
  <2>2. active[s] \in Jobs /\ active[s] # NoJob /\ Up(s)
    BY <2>1, ActiveIsJob
  <2>3. \E w \in Where \ {"idle"} : pc' = [pc EXCEPT ![s] = w]
    BY <1>6 DEF SaveQueued, Goto
  <2>4. jobFile' \in [Jobs -> Statuses]
    BY <1>0, <1>6, <2>2 DEF SaveQueued, Statuses
  <2>8. PTypeOK'
    <3>1. pc' \in [Services -> Where]
      BY <1>0, <2>3
    <3> QED BY <2>1, <2>4, <3>1, Zenon DEF PTypeOK, files, clock
  <2>9. PlaceInv'
    BY <1>0, <2>1, <2>2, <2>3 DEF PlaceInv
  <2> QED BY <2>8, <2>9
<1>7. ASSUME NEW s \in Services, Reserve(s) PROVE PTypeOK' /\ PlaceInv'
  <2>1. /\ UNCHANGED <<proc, active, today, made>>
        /\ UNCHANGED <<mem, budget, files, rendering, renders>>
        /\ pc[s] # "idle"
    BY <1>7, Zenon DEF Reserve, At, files, clock, lockVars
  <2>2. active[s] \in Jobs /\ active[s] # NoJob /\ Up(s)
    BY <2>1, ActiveIsJob
  <2>3. \E w \in Where \ {"idle"} : pc' = [pc EXCEPT ![s] = w]
    BY <1>7 DEF Reserve, Goto
  <2>4. lease' \subseteq Jobs
    BY <1>7, <2>2 DEF Reserve, PTypeOK
  <2>8. PTypeOK'
    <3>1. pc' \in [Services -> Where]
      BY <1>0, <2>3
    <3> QED BY <2>1, <2>4, <3>1, Zenon DEF PTypeOK, files, clock
  <2>9. PlaceInv'
    BY <1>0, <2>1, <2>2, <2>3 DEF PlaceInv
  <2> QED BY <2>8, <2>9
<1>8. ASSUME NEW s \in Services, Admit(s) PROVE PTypeOK' /\ PlaceInv'
  <2>1. /\ UNCHANGED <<proc, active, today, made>>
        /\ UNCHANGED <<mem, files, lease, rendering, renders>>
        /\ pc[s] # "idle"
    BY <1>8, Zenon DEF Admit, At, files, clock, lockVars
  <2>2. active[s] \in Jobs /\ active[s] # NoJob /\ Up(s)
    BY <2>1, ActiveIsJob
  <2>3. \E w \in Where \ {"idle"} : pc' = [pc EXCEPT ![s] = w]
    BY <1>8 DEF Admit, Goto
  <2>4. budget' \in [Services -> Budget]
    <3>1. Current(s) \in Budget /\ Counted(Current(s)) \in Budget
      BY CurrentType
    <3> QED BY <1>0, <1>8, <3>1 DEF Admit
  <2>8. PTypeOK'
    <3>1. pc' \in [Services -> Where]
      BY <1>0, <2>3
    <3> QED BY <2>1, <2>4, <3>1, Zenon DEF PTypeOK, files, clock
  <2>9. PlaceInv'
    BY <1>0, <2>1, <2>2, <2>3 DEF PlaceInv
  <2> QED BY <2>8, <2>9
<1>9. ASSUME NEW s \in Services, SaveBudget(s) PROVE PTypeOK' /\ PlaceInv'
  <2>1. /\ UNCHANGED <<proc, active, today, made>>
        /\ UNCHANGED <<mem, budget, jobFile, stored, lease, rendering, renders>>
        /\ pc[s] # "idle"
    BY <1>9, Zenon DEF SaveBudget, At, files, clock, lockVars
  <2>2. active[s] \in Jobs /\ active[s] # NoJob /\ Up(s)
    BY <2>1, ActiveIsJob
  <2>3. \E w \in Where \ {"idle"} : pc' = [pc EXCEPT ![s] = w]
    BY <1>9 DEF SaveBudget, Goto
  <2>4. budgetFile' \in Budget
    BY <1>0, <1>9 DEF SaveBudget, PTypeOK
  <2>8. PTypeOK'
    <3>1. pc' \in [Services -> Where]
      BY <1>0, <2>3
    <3> QED BY <2>1, <2>4, <3>1, Zenon DEF PTypeOK, files, clock
  <2>9. PlaceInv'
    BY <1>0, <2>1, <2>2, <2>3 DEF PlaceInv
  <2> QED BY <2>8, <2>9
<1>10. ASSUME NEW s \in Services, Start(s) PROVE PTypeOK' /\ PlaceInv'
  <2>1. /\ UNCHANGED <<proc, active, today, made>>
        /\ UNCHANGED <<budget, budgetFile, stored, lease>>
        /\ pc[s] # "idle"
    BY <1>10, Zenon DEF Start, At, files, clock, lockVars
  <2>2. active[s] \in Jobs /\ active[s] # NoJob /\ Up(s)
    BY <2>1, ActiveIsJob
  <2>3. \E w \in Where \ {"idle"} : pc' = [pc EXCEPT ![s] = w]
    BY <1>10 DEF Start, Goto
  <2>5. mem' \in [Services -> [Jobs -> Statuses]]
    <3>1. SetStatus(s, "running") /\ "running" \in Statuses
      BY <1>10 DEF Start, Statuses
    <3> QED BY <2>1, <3>1, StatusType
  <2>6. jobFile' \in [Jobs -> Statuses] /\ rendering' \subseteq Jobs
    BY <1>0, <1>10, <2>2 DEF Start, Statuses, PTypeOK
  <2>7. renders' \in [Days -> Nat]
    <3>1. budget[s].day \in Days
      BY <1>0 DEF Budget
    <3> QED BY <1>0, <1>10, <3>1 DEF Start
  <2>4. /\ mem' \in [Services -> [Jobs -> Statuses]] /\ jobFile' \in [Jobs -> Statuses]
        /\ rendering' \subseteq Jobs /\ renders' \in [Days -> Nat]
    BY <2>5, <2>6, <2>7
  <2>8. PTypeOK'
    <3>1. pc' \in [Services -> Where]
      BY <1>0, <2>3
    <3> QED BY <2>1, <2>4, <3>1, Zenon DEF PTypeOK, files, clock
  <2>9. PlaceInv'
    BY <1>0, <2>1, <2>2, <2>3 DEF PlaceInv
  <2> QED BY <2>8, <2>9
<1>11. ASSUME NEW s \in Services, Work(s) PROVE PTypeOK' /\ PlaceInv'
  <2>1. /\ UNCHANGED <<proc, active, today, made>>
        /\ UNCHANGED <<mem, budget, files, lease, renders>>
        /\ pc[s] # "idle"
    BY <1>11, Zenon DEF Work, At, files, clock, lockVars
  <2>2. active[s] \in Jobs /\ active[s] # NoJob /\ Up(s)
    BY <2>1, ActiveIsJob
  <2>3. \E w \in Where \ {"idle"} : pc' = [pc EXCEPT ![s] = w]
    BY <1>11 DEF Work, Goto
  <2>4. rendering' \subseteq Jobs
    BY <1>11 DEF Work, PTypeOK
  <2>8. PTypeOK'
    <3>1. pc' \in [Services -> Where]
      BY <1>0, <2>3
    <3> QED BY <2>1, <2>4, <3>1, Zenon DEF PTypeOK, files, clock
  <2>9. PlaceInv'
    BY <1>0, <2>1, <2>2, <2>3 DEF PlaceInv
  <2> QED BY <2>8, <2>9
<1>12. ASSUME NEW s \in Services, Release(s) PROVE PTypeOK' /\ PlaceInv'
  <2>1. /\ UNCHANGED <<proc, active, today, made>>
        /\ UNCHANGED <<mem, budget, files, rendering, renders>>
        /\ pc[s] # "idle"
    BY <1>12, Zenon DEF Release, At, files, clock, lockVars
  <2>2. active[s] \in Jobs /\ active[s] # NoJob /\ Up(s)
    BY <2>1, ActiveIsJob
  <2>3. \E w \in Where \ {"idle"} : pc' = [pc EXCEPT ![s] = w]
    BY <1>12 DEF Release, Goto
  <2>4. lease' \subseteq Jobs
    BY <1>12 DEF Release, PTypeOK
  <2>8. PTypeOK'
    <3>1. pc' \in [Services -> Where]
      BY <1>0, <2>3
    <3> QED BY <2>1, <2>4, <3>1, Zenon DEF PTypeOK, files, clock
  <2>9. PlaceInv'
    BY <1>0, <2>1, <2>2, <2>3 DEF PlaceInv
  <2> QED BY <2>8, <2>9
<1>13. ASSUME NEW s \in Services, Check(s) PROVE PTypeOK' /\ PlaceInv'
  <2>1. /\ UNCHANGED <<proc, active, today, made>>
        /\ UNCHANGED <<budget, budgetFile, jobFile, lease, rendering, renders>>
        /\ pc[s] # "idle"
    BY <1>13, Zenon DEF Check, At, files, clock, lockVars
  <2>2. active[s] \in Jobs /\ active[s] # NoJob /\ Up(s)
    BY <2>1, ActiveIsJob
  <2>3. \E w \in Where \ {"idle"} : pc' = [pc EXCEPT ![s] = w]
    BY <1>13 DEF Check, Goto
  <2>5. stored' \subseteq Jobs
    BY <1>13, <2>2 DEF Check, PTypeOK
  <2>4. mem' \in [Services -> [Jobs -> Statuses]] /\ stored' \subseteq Jobs
    <3>1. PICK status \in {"ready", "failed"} : SetStatus(s, status)
      BY <1>13 DEF Check
    <3> QED BY <2>1, <2>5, <3>1, StatusType DEF Statuses
  <2>8. PTypeOK'
    <3>1. pc' \in [Services -> Where]
      BY <1>0, <2>3
    <3> QED BY <2>1, <2>4, <3>1, Zenon DEF PTypeOK, files, clock
  <2>9. PlaceInv'
    BY <1>0, <2>1, <2>2, <2>3 DEF PlaceInv
  <2> QED BY <2>8, <2>9
<1>14. ASSUME NEW s \in Services, Finish(s) PROVE PTypeOK' /\ PlaceInv'
  <2>1. /\ UNCHANGED <<proc, mem, budget, budgetFile, stored, lease, rendering>>
        /\ UNCHANGED <<today, made, renders>> /\ pc[s] # "idle"
    BY <1>14, Zenon DEF Finish, At, clock, lockVars
  <2>2. active[s] \in Jobs /\ active[s] # NoJob /\ Up(s)
    BY <2>1, ActiveIsJob
  <2>3. CASE /\ jobFile' = [jobFile EXCEPT ![active[s]] = mem[s][active[s]]]
             /\ active' = [active EXCEPT ![s] = NoJob] /\ Goto(s, "idle")
    <3>1. jobFile' \in [Jobs -> Statuses]
      BY <1>0, <2>2, <2>3
    <3>2. /\ active' \in [Services -> 0..MaxJobs] /\ pc' \in [Services -> Where]
          /\ pc' = [pc EXCEPT ![s] = "idle"]
      BY <1>0, <2>3, PreviewsAssumption DEF Goto, NoJob
    <3>3. PTypeOK'
      BY <2>1, <3>1, <3>2, Zenon DEF PTypeOK
    <3>4. PlaceInv'
      BY <1>0, <2>1, <2>3, <3>2 DEF PlaceInv
    <3> QED BY <3>3, <3>4
  <2>4. CASE Goto(s, "stuck") /\ UNCHANGED <<jobFile, active>>
    <3>1. pc' \in [Services -> Where] /\ pc' = [pc EXCEPT ![s] = "stuck"]
      BY <1>0, <2>4 DEF Goto
    <3>2. PTypeOK'
      BY <2>1, <2>4, <3>1, Zenon DEF PTypeOK
    <3>3. PlaceInv'
      BY <1>0, <2>1, <2>2, <2>4, <3>1 DEF PlaceInv
    <3> QED BY <3>2, <3>3
  <2> QED BY <1>14, <2>3, <2>4 DEF Finish, Freed
<1>15. ASSUME NEW j \in Jobs, OrphanEnds(j) \/ Expire(j) PROVE PTypeOK' /\ PlaceInv'
  <2>1. /\ UNCHANGED <<proc, pc, active, mem, budget, files, clock>>
        /\ lease' \subseteq Jobs /\ rendering' \subseteq Jobs
    BY <1>15 DEF OrphanEnds, Expire, lockVars, PTypeOK
  <2> QED BY <2>1, Zenon DEF PTypeOK, PlaceInv, files, clock
<1>16. CASE Midnight
  <2>1. /\ UNCHANGED <<proc, pc, active, mem, budget, files, lease, rendering, made, renders>>
        /\ today < MaxDay /\ today' = today + 1
    BY <1>16, Zenon DEF Midnight, lockVars
  <2>2. today' \in Days
    BY <2>1, PreviewsAssumption DEF PTypeOK, Days
  <2> QED BY <2>1, <2>2, Zenon DEF PTypeOK, PlaceInv, files
<1>17. CASE UNCHANGED pvars
  BY <1>17, Zenon DEF pvars, PTypeOK, PlaceInv
<1> QED BY <1>1, <1>2, <1>3, <1>4, <1>5, <1>6, <1>7, <1>8, <1>9, <1>10, <1>11, <1>12,
           <1>13, <1>14, <1>15, <1>16, <1>17, NextCases, Zenon
-----------------------------------------------------------------------------
(***************************************************************************)
(* The budget.                                                             *)
(***************************************************************************)
\* What the file says of its day is what was rendered on it, or more; later days
\* have no rendering yet.
FileInv ==
  /\ budgetFile.day <= today /\ budgetFile.used <= MaxDaily
  /\ \A d \in Days : renders[d] <= MaxDaily /\ (d > budgetFile.day => renders[d] = 0)
  /\ renders[budgetFile.day] <= budgetFile.used

\* A service that is up is never behind the file, and one that is about to render
\* has counted the rendering in it.
Ahead(s) ==
  /\ budgetFile.day <= budget[s].day /\ budget[s].day <= today
  /\ budget[s].used <= MaxDaily
  /\ budget[s].day = budgetFile.day => budgetFile.used <= budget[s].used
  /\ pc[s] = "count" => budget[s].used > 0
  /\ pc[s] = "count" /\ budget[s].day = budgetFile.day => budgetFile.used < budget[s].used
  /\ pc[s] = "start" => budgetFile = budget[s] /\ renders[budgetFile.day] < budgetFile.used

\* One service is up at a time.
Single == \A s, t \in Services : Up(s) /\ Up(t) => s = t

Orderly == Single /\ FileInv /\ \A s \in Services : Up(s) => Ahead(s)
BudgetInv == ~overlapped => Orderly

LEMMA InitBudget == Init => BudgetInv
<1> SUFFICES ASSUME Init PROVE Orderly
  BY DEF BudgetInv
<1>1. budgetFile.day = 0 /\ budgetFile.used = 0 /\ today = 0
  BY DEF Init, Unused
<1>2. 0 \in Days /\ \A d \in Days : renders[d] = 0
  BY PreviewsAssumption DEF Init, Days
<1>3. \A s \in Services : ~Up(s)
  BY DEF Init, Up
<1>4. FileInv
  BY <1>1, <1>2, PreviewsAssumption DEF FileInv
<1> QED BY <1>3, <1>4 DEF Orderly, Single

\* The file and its history are as they were, and every service that is up is
\* where it was or at a place where nothing is asked of it.
LEMMA Undisturbed ==
  ASSUME PTypeOK, Orderly, UNCHANGED <<budgetFile, renders>>,
         today' = today \/ (today' \in Days /\ today' = today + 1),
         \A s, t \in Services : Up(s)' /\ Up(t)' => s = t,
         \A s \in Services : Up(s)' => /\ Up(s) /\ budget'[s] = budget[s]
                                      /\ pc'[s] \in {pc[s]} \cup (Where \ {"count", "start"})
  PROVE  Orderly'
<1>0. /\ today \in Int /\ budgetFile.day \in Int /\ budgetFile.used \in Int
      /\ today' \in Int
      /\ \A s \in Services : budget[s].day \in Int /\ budget[s].used \in Int
  BY PreviewsAssumption DEF PTypeOK, Budget, Days
<1>1. Single'
  BY DEF Single
<1>2. FileInv'
  BY <1>0 DEF Orderly, FileInv
<1>3. ASSUME NEW s \in Services, Up(s)' PROVE Ahead(s)'
  <2>1. Ahead(s) /\ budget'[s] = budget[s]
    BY <1>3 DEF Orderly
  <2>2. /\ pc'[s] = "count" => pc[s] = "count"
        /\ pc'[s] = "start" => pc[s] = "start"
    BY <1>3
  <2>3. budget'[s].day <= today'
    BY <1>0, <2>1 DEF Ahead
  <2> QED BY <2>1, <2>2, <2>3 DEF Ahead
<1> QED BY <1>1, <1>2, <1>3 DEF Orderly

LEMMA NextBudget ==
  PTypeOK /\ PTypeOK' /\ PlaceInv /\ BudgetInv /\ [Next]_pvars => BudgetInv'
<1> SUFFICES ASSUME PTypeOK, PTypeOK', PlaceInv, BudgetInv, [Next]_pvars, ~overlapped'
             PROVE  Orderly'
  BY DEF BudgetInv
<1>0. /\ proc \in [Services -> Life] /\ pc \in [Services -> Where]
      /\ budget \in [Services -> Budget] /\ renders \in [Days -> Nat]
      /\ budgetFile.day \in Days /\ budgetFile.used \in Nat /\ today \in Days
      /\ \A s \in Services : budget[s].day \in Days /\ budget[s].used \in Nat
  BY DEF PTypeOK, Budget
<1>a. \A d \in Days : d \in Int /\ renders[d] \in Nat
  BY <1>0, PreviewsAssumption DEF Days
<1>1. ASSUME NEW s \in Services, LockStep(s) PROVE Orderly'
  <2>1. UNCHANGED <<pc, budget, budgetFile, renders, today, overlapped>>
    BY <1>1, LockSteps DEF files, clock
  <2>2. \A t \in Services : Up(t)' <=> Up(t)
    BY <1>1, LockSteps
  <2>3. Orderly
    BY <2>1 DEF BudgetInv
  <2> QED BY <2>1, <2>2, <2>3, Undisturbed DEF Orderly, Single
<1>2. ASSUME NEW s \in Services, Load(s) PROVE Orderly'
  <2>1. /\ Orderly /\ proc[s] = "load"
        /\ \A t \in Services \ {s} : ~Up(t)
    BY <1>2, Zenon DEF Load, BudgetInv, Up
  <2>2. /\ budget' = [budget EXCEPT ![s] = budgetFile] /\ proc' = [proc EXCEPT ![s] = "up"]
        /\ UNCHANGED <<pc, budgetFile, renders, today>>
    BY <1>2, Zenon DEF Load, LoadedBudget, files
  <2>3. \A t \in Services : Up(t)' => t = s
    BY <1>0, <2>1, <2>2 DEF Up
  <2>4. budget'[s] = budgetFile' /\ pc'[s] = "idle"
    BY <1>0, <2>1, <2>2 DEF PlaceInv, Up
  <2>5. FileInv'
    BY <2>1, <2>2 DEF Orderly, FileInv
  <2>6. Ahead(s)'
    BY <1>0, <1>a, <2>2, <2>4, <2>5 DEF Ahead, FileInv
  <2> QED BY <2>3, <2>5, <2>6 DEF Orderly, Single
<1>3. ASSUME NEW s \in Services, Stop(s) PROVE Orderly'
  <2>1. /\ Orderly /\ proc[s] = "up" /\ proc' = [proc EXCEPT ![s] = "stopping"]
        /\ UNCHANGED <<pc, budget, budgetFile, renders, today>>
    BY <1>3, Zenon DEF Stop, BudgetInv, files, clock
  <2>2. \A t \in Services : Up(t)' <=> Up(t)
    BY <1>0, <2>1 DEF Up
  <2> QED BY <2>1, <2>2, Undisturbed DEF Orderly, Single
<1>4. ASSUME NEW s \in Services, Die(s) PROVE Orderly'
  <2>1. /\ Orderly /\ proc' = [proc EXCEPT ![s] = "dead"]
        /\ budget' = [budget EXCEPT ![s] = Unused] /\ pc' = [pc EXCEPT ![s] = "idle"]
        /\ UNCHANGED <<budgetFile, renders, today>>
    BY <1>4, Zenon DEF Die, BudgetInv, files, clock
  <2>2. \A t \in Services : Up(t)' => /\ Up(t) /\ budget'[t] = budget[t]
                                     /\ pc'[t] = pc[t]
    BY <1>0, <2>1 DEF Up
  <2> QED BY <2>1, <2>2, Undisturbed DEF Orderly, Single
<1>5. ASSUME NEW s \in Services,
             Post(s) \/ SaveQueued(s) \/ Reserve(s) \/ Work(s) \/ Release(s) \/ Check(s)
             \/ Finish(s)
      PROVE  Orderly'
  <2>1. /\ Orderly /\ UNCHANGED <<proc, budget, budgetFile, renders, today>>
    BY <1>5, Zenon DEF Post, SaveQueued, Reserve, Work, Release, Check, Finish, BudgetInv,
                       files, clock, lockVars
  <2>2. \E w \in Where \ {"count", "start"} : pc' = [pc EXCEPT ![s] = w]
    BY <1>5 DEF Post, SaveQueued, Reserve, Work, Release, Check, Finish, Goto, Where
  <2>3. \A t \in Services : pc'[t] \in {pc[t]} \cup (Where \ {"count", "start"})
    BY <1>0, <2>2
  <2>4. \A t \in Services : Up(t)' <=> Up(t)
    BY <2>1 DEF Up
  <2> QED BY <2>1, <2>3, <2>4, Undisturbed DEF Orderly, Single
<1>6. ASSUME NEW s \in Services, Admit(s) PROVE Orderly'
  <2>1. /\ Orderly /\ Up(s) /\ UNCHANGED <<proc, budgetFile, renders, today>>
        /\ pc[s] = "admit"
    BY <1>6, Zenon DEF Admit, At, BudgetInv, files, clock, lockVars, Up
  <2>2. \A t \in Services : (Up(t)' <=> Up(t)) /\ (Up(t)' => t = s)
    BY <2>1 DEF Up, Orderly, Single
  <2>3. /\ Current(s) \in Budget
        /\ Counted(Current(s)).day = Current(s).day
        /\ Counted(Current(s)).used = Current(s).used + 1
    BY CurrentType
  <2>4. /\ Current(s).day = today /\ Current(s).used <= MaxDaily
        /\ today = budgetFile.day => budgetFile.used <= Current(s).used
    <3>1. Ahead(s)
      BY <2>1 DEF Orderly
    <3>2. CASE budget[s].day # today
      <4>1. Current(s) = [day |-> today, used |-> 0]
        BY <3>2 DEF Current
      <4>2. today # budgetFile.day
        BY <1>0, <1>a, <3>1, <3>2 DEF Ahead
      <4> QED BY <4>1, <4>2, PreviewsAssumption
    <3>3. CASE budget[s].day = today
      BY <3>1, <3>3 DEF Current, Ahead
    <3> QED BY <3>2, <3>3
  <2>5. FileInv'
    BY <2>1 DEF Orderly, FileInv
  <2>6. budgetFile.day <= today
    BY <2>1 DEF Orderly, FileInv
  <2>7. CASE Current(s).used >= MaxDaily
    <3>1. budget'[s] = Current(s) /\ pc'[s] = "release"
      BY <1>0, <1>6, <2>7 DEF Admit, Goto
    <3>2. Ahead(s)'
      BY <1>0, <1>a, <2>1, <2>4, <2>6, <3>1 DEF Ahead
    <3> QED BY <2>2, <2>5, <3>2 DEF Orderly, Single
  <2>8. CASE ~(Current(s).used >= MaxDaily)
    <3>1. budget'[s] = Counted(Current(s)) /\ pc'[s] = "count"
      BY <1>0, <1>6, <2>8 DEF Admit, Goto
    <3>2. budget'[s].day = today /\ budget'[s].used = Current(s).used + 1
      BY <2>3, <2>4, <3>1
    <3>3. Current(s).used \in Nat
      BY <2>3 DEF Budget
    <3>4. /\ budget'[s].used <= MaxDaily /\ budget'[s].used > 0
          /\ today = budgetFile.day => budgetFile.used < budget'[s].used
      BY <1>0, <2>4, <2>8, <3>2, <3>3, PreviewsAssumption
    <3>5. Ahead(s)'
      <4>1. budgetFile' = budgetFile /\ today' = today /\ pc'[s] = "count"
        BY <2>1, <3>1
      <4>2. budgetFile.used \in Int /\ budget'[s].used \in Int /\ today \in Int
        BY <1>0, <1>a, <3>2, <3>3
      <4>3. budgetFile'.day <= budget'[s].day /\ budget'[s].day <= today'
        BY <2>6, <3>2, <4>1, <4>2
      <4>4. budget'[s].day = budgetFile'.day => budgetFile'.used < budget'[s].used
        BY <3>2, <3>4, <4>1
      <4> QED BY <3>4, <4>1, <4>2, <4>3, <4>4 DEF Ahead
    <3> QED BY <2>2, <2>5, <3>5 DEF Orderly, Single
  <2> QED BY <2>7, <2>8
<1>7. ASSUME NEW s \in Services, SaveBudget(s) PROVE Orderly'
  <2>1. /\ Orderly /\ Up(s) /\ UNCHANGED <<proc, budget, renders, today>>
        /\ pc[s] = "count"
    BY <1>7, Zenon DEF SaveBudget, At, BudgetInv, files, clock, lockVars, Up
  <2>2. \A t \in Services : (Up(t)' <=> Up(t)) /\ (Up(t)' => t = s)
    BY <2>1 DEF Up, Orderly, Single
  <2>3. CASE Goto(s, "start") /\ budgetFile' = budget[s]
    <3>1. Ahead(s) /\ FileInv
      BY <2>1 DEF Orderly
    <3>2. pc'[s] = "start" /\ budgetFile' = budget[s]
      BY <1>0, <2>3 DEF Goto
    <3>3. renders[budget[s].day] < budget[s].used
      <4>1. CASE budget[s].day = budgetFile.day
        BY <1>0, <1>a, <2>1, <3>1, <4>1 DEF Ahead, FileInv
      <4>2. CASE budget[s].day # budgetFile.day
        <5>1. budget[s].day > budgetFile.day
          BY <1>0, <1>a, <3>1, <4>2 DEF Ahead
        <5>2. renders[budget[s].day] = 0
          BY <1>0, <3>1, <5>1 DEF FileInv
        <5> QED BY <2>1, <3>1, <5>2 DEF Ahead
      <4> QED BY <4>1, <4>2
    <3>4. FileInv'
      <4>1. \A d \in Days : d > budget[s].day => renders[d] = 0
        BY <1>0, <1>a, <3>1 DEF Ahead, FileInv
      <4> QED BY <1>0, <1>a, <2>1, <3>1, <3>2, <3>3, <4>1 DEF FileInv, Ahead
    <3>5. Ahead(s)'
      BY <1>0, <1>a, <2>1, <3>1, <3>2, <3>3 DEF Ahead
    <3> QED BY <2>2, <3>4, <3>5 DEF Orderly, Single
  <2>4. CASE Goto(s, "release") /\ UNCHANGED budgetFile
    <3>1. \A t \in Services : pc'[t] \in {pc[t]} \cup (Where \ {"count", "start"})
      BY <1>0, <2>4 DEF Goto, Where
    <3> QED BY <2>1, <2>2, <2>4, <3>1, Undisturbed DEF Orderly, Single
  <2> QED BY <1>7, <2>3, <2>4 DEF SaveBudget
<1>8. ASSUME NEW s \in Services, Start(s) PROVE Orderly'
  <2>1. /\ Orderly /\ Up(s) /\ UNCHANGED <<proc, budget, budgetFile, today>>
        /\ pc[s] = "start"
    BY <1>8, Zenon DEF Start, At, BudgetInv, files, clock, lockVars, Up
  <2>2. \A t \in Services : (Up(t)' <=> Up(t)) /\ (Up(t)' => t = s)
    BY <2>1 DEF Up, Orderly, Single
  <2>3. CASE renders' = [renders EXCEPT ![budget[s].day] = @ + 1] /\ Goto(s, "work")
    <3>1. Ahead(s) /\ FileInv /\ budgetFile = budget[s]
      BY <2>1 DEF Orderly, Ahead
    <3>2. /\ renders'[budgetFile.day] = renders[budgetFile.day] + 1
          /\ \A d \in Days : d # budgetFile.day => renders'[d] = renders[d]
      BY <1>0, <2>3, <3>1
    <3>3. renders'[budgetFile.day] <= budgetFile.used
      BY <1>0, <1>a, <2>1, <3>1, <3>2 DEF Ahead
    <3>4. \A d \in Days : /\ renders'[d] <= MaxDaily
                          /\ d > budgetFile.day => renders'[d] = 0
      <4> SUFFICES ASSUME NEW d \in Days
                   PROVE  renders'[d] <= MaxDaily /\ (d > budgetFile.day => renders'[d] = 0)
        OBVIOUS
      <4>1. CASE d = budgetFile.day
        <5>1. renders'[d] \in Int /\ d \in Int /\ MaxDaily \in Int
          BY <1>0, <1>a, <3>2, <4>1, PreviewsAssumption
        <5> QED BY <1>0, <3>1, <3>3, <4>1, <5>1 DEF FileInv
      <4>2. CASE d # budgetFile.day
        BY <3>1, <3>2, <4>2 DEF FileInv
      <4> QED BY <4>1, <4>2
    <3>5. FileInv'
      BY <2>1, <3>1, <3>3, <3>4 DEF FileInv
    <3>6. pc'[s] = "work"
      BY <1>0, <2>3 DEF Goto
    <3>7. Ahead(s)'
      BY <2>1, <3>1, <3>6 DEF Ahead
    <3> QED BY <2>2, <3>5, <3>7 DEF Orderly, Single
  <2>4. CASE Goto(s, "release") /\ UNCHANGED renders
    <3>1. \A t \in Services : pc'[t] \in {pc[t]} \cup (Where \ {"count", "start"})
      BY <1>0, <2>4 DEF Goto, Where
    <3> QED BY <2>1, <2>2, <2>4, <3>1, Undisturbed DEF Orderly, Single
  <2> QED BY <1>8, <2>3, <2>4 DEF Start
<1>9. CASE (\E j \in Jobs : OrphanEnds(j) \/ Expire(j)) \/ UNCHANGED pvars
  <2>1. /\ Orderly /\ UNCHANGED <<proc, pc, budget, budgetFile, renders, today>>
    BY <1>9, Zenon DEF OrphanEnds, Expire, BudgetInv, files, clock, lockVars, pvars
  <2> QED BY <2>1, Undisturbed DEF Orderly, Single, Up
<1>10. CASE Midnight
  <2>1. /\ Orderly /\ UNCHANGED <<proc, pc, budget, budgetFile, renders>>
        /\ today' = today + 1
    BY <1>10, Zenon DEF Midnight, BudgetInv, files, lockVars
  <2>2. today' \in Days
    BY Zenon DEF PTypeOK
  <2> QED BY <2>1, <2>2, Undisturbed DEF Orderly, Single, Up
<1> QED BY <1>1, <1>2, <1>3, <1>4, <1>5, <1>6, <1>7, <1>8, <1>9, <1>10, NextCases, Zenon
-----------------------------------------------------------------------------
(***************************************************************************)
(* What is shown as ready.                                                 *)
(***************************************************************************)
\* A job has one service at most, and a number that was given out.
Owned ==
  /\ \A s \in Services : active[s] <= made
  /\ \A s, t \in Services : active[s] = active[t] /\ active[s] # NoJob => s = t

\* A status "ready" on disk is final: nobody works on the job any more.
Settled(j) ==
  jobFile[j] = "ready" => /\ j <= made /\ j \in stored /\ j \notin lease
                          /\ \A s \in Services : active[s] # j

\* A rendering without an error had its reservation released.
Released(s) == pc[s] = "check" /\ ~failed[s] => active[s] \notin lease

Backed(s) ==
  \A j \in Jobs : mem[s][j] = "ready" =>
    /\ j <= made /\ j \in stored /\ j \notin lease
    /\ active[s] = j => pc[s] \in {"finish", "stuck"}
    /\ active[s] # j => jobFile[j] = "ready"

ReadyInv == /\ Owned /\ \A j \in Jobs : Settled(j)
            /\ \A s \in Services : Released(s) /\ Backed(s)

LEMMA InitReady == Init => ReadyInv
<1> SUFFICES ASSUME Init PROVE ReadyInv
  OBVIOUS
<1>1. \A s \in Services : active[s] = 0 /\ pc[s] = "idle"
  BY DEF Init, NoJob
<1>2. \A s \in Services, j \in Jobs : mem[s][j] # "ready" /\ jobFile[j] # "ready"
  BY DEF Init, NoJobs
<1>3. Owned
  BY <1>1 DEF Owned, NoJob, Init
<1>4. \A j \in Jobs : Settled(j)
  BY DEF Settled, Init, NoJobs
<1> QED BY <1>1, <1>2, <1>3, <1>4 DEF ReadyInv, Released, Backed

\* A step of perform: it touches the files and the status of its own job only.
LEMMA OwnStep ==
  ASSUME PTypeOK, PlaceInv, ReadyInv, NEW s \in Services, pc[s] # "idle",
         UNCHANGED <<active, made>>,
         \A t \in Services \ {s} : /\ mem'[t] = mem[t] /\ pc'[t] = pc[t]
                                  /\ (failed'[t] <=> failed[t]),
         \A j \in Jobs \ {active[s]} : mem'[s][j] = mem[s][j] /\ jobFile'[j] = jobFile[j],
         jobFile'[active[s]] # "ready",
         stored \subseteq stored', lease' \subseteq lease \cup {active[s]},
         mem'[s][active[s]] = "ready" =>
           /\ active[s] \in stored' /\ active[s] \notin lease'
           /\ pc'[s] \in {"finish", "stuck"},
         Released(s)'
  PROVE  ReadyInv'
<1>0. active[s] \in Jobs /\ active[s] # NoJob
  BY ActiveIsJob
<1>1. Owned'
  BY DEF Owned, ReadyInv
<1>2. ASSUME NEW j \in Jobs PROVE Settled(j)'
  <2>1. CASE j = active[s]
    BY <2>1 DEF Settled
  <2>2. CASE j # active[s]
    BY <2>2 DEF Settled, ReadyInv
  <2> QED BY <2>1, <2>2
<1>3. ASSUME NEW t \in Services, t # s PROVE Released(t)' /\ Backed(t)'
  <2>1. active[t] # active[s]
    BY <1>0, <1>3 DEF ReadyInv, Owned
  <2>2. Released(t)'
    BY <1>3, <2>1 DEF ReadyInv, Released
  <2>3. ASSUME NEW j \in Jobs, mem'[t][j] = "ready"
        PROVE  /\ j <= made' /\ j \in stored' /\ j \notin lease'
               /\ active'[t] = j => pc'[t] \in {"finish", "stuck"}
               /\ active'[t] # j => jobFile'[j] = "ready"
    <3>1. /\ mem[t][j] = "ready" /\ Backed(t) /\ Settled(j)
      BY <1>3, <2>3 DEF ReadyInv
    <3>2. j # active[s]
      BY <2>1, <3>1 DEF Backed, Settled
    <3> QED BY <1>3, <3>1, <3>2 DEF Backed
  <2> QED BY <2>2, <2>3 DEF Backed
<1>4. Backed(s)'
  <2> SUFFICES ASSUME NEW j \in Jobs, mem'[s][j] = "ready"
               PROVE  /\ j <= made' /\ j \in stored' /\ j \notin lease'
                      /\ active'[s] = j => pc'[s] \in {"finish", "stuck"}
                      /\ active'[s] # j => jobFile'[j] = "ready"
    BY DEF Backed
  <2>1. CASE j = active[s]
    BY <2>1 DEF ReadyInv, Owned
  <2>2. CASE j # active[s]
    BY <2>2 DEF ReadyInv, Backed
  <2> QED BY <2>1, <2>2
<1> QED BY <1>1, <1>2, <1>3, <1>4 DEF ReadyInv

\* The job of a service is not ready, in memory or on disk, before its check.
LEMMA NotYet ==
  ASSUME PTypeOK, PlaceInv, ReadyInv, NEW s \in Services, pc[s] # "idle"
  PROVE  /\ jobFile[active[s]] # "ready"
         /\ mem[s][active[s]] = "ready" => pc[s] \in {"finish", "stuck"}
<1>1. active[s] \in Jobs
  BY ActiveIsJob
<1> QED BY <1>1 DEF ReadyInv, Settled, Backed

\* Every step keeps what is shown as ready backed.
LEMMA NextReady ==
  PTypeOK /\ FailedType /\ PlaceInv /\ ReadyInv /\ [Next]_pvars => ReadyInv'
<1> SUFFICES ASSUME PTypeOK, FailedType, PlaceInv, ReadyInv, [Next]_pvars PROVE ReadyInv'
  OBVIOUS
<1>0. /\ pc \in [Services -> Where] /\ active \in [Services -> 0..MaxJobs]
      /\ mem \in [Services -> [Jobs -> Statuses]] /\ jobFile \in [Jobs -> Statuses]
      /\ made \in Nat /\ failed \in [Services -> BOOLEAN]
  BY DEF PTypeOK, FailedType
<1>1. ASSUME NEW s \in Services, LockStep(s) PROVE ReadyInv'
  <2>1. UNCHANGED <<pc, failed, active, mem, files, lease, made>>
    BY <1>1, LockSteps DEF clock
  <2> QED BY <2>1, Zenon DEF ReadyInv, Owned, Settled, Released, Backed, files
<1>2. ASSUME NEW s \in Services, Load(s) PROVE ReadyInv'
  <2>1. /\ UNCHANGED <<pc, failed, active, jobFile, stored, lease, made>>
        /\ mem' = [mem EXCEPT ![s] = [j \in Jobs |-> Loaded(jobFile[j])]]
        /\ proc[s] = "load"
    BY <1>2, Zenon DEF Load, files
  <2>2. active[s] = NoJob
    BY <2>1 DEF PlaceInv, Up
  <2>3. \A j \in Jobs : mem'[s][j] = "ready" => jobFile[j] = "ready"
    BY <1>0, <2>1 DEF Loaded
  <2>4. \A j \in Jobs : active[s] # j
    BY <2>2, PreviewsAssumption DEF Jobs, NoJob
  <2>5. Backed(s)'
    BY <2>1, <2>3, <2>4 DEF Backed, ReadyInv, Settled
  <2>6. ASSUME NEW t \in Services \ {s} PROVE Backed(t)'
    <3>1. mem'[t] = mem[t] /\ Backed(t)
      BY <1>0, <2>1 DEF ReadyInv
    <3> QED BY <2>1, <3>1 DEF Backed
  <2>7. Owned' /\ (\A j \in Jobs : Settled(j)') /\ \A t \in Services : Released(t)'
    BY <2>1, Zenon DEF ReadyInv, Owned, Settled, Released
  <2> QED BY <2>5, <2>6, <2>7 DEF ReadyInv
<1>3. ASSUME NEW s \in Services, Stop(s) PROVE ReadyInv'
  BY <1>3, Zenon DEF Stop, ReadyInv, Owned, Settled, Released, Backed, files, clock
<1>4. ASSUME NEW s \in Services, Die(s) PROVE ReadyInv'
  <2>1. /\ pc' = [pc EXCEPT ![s] = "idle"] /\ active' = [active EXCEPT ![s] = NoJob]
        /\ mem' = [mem EXCEPT ![s] = NoJobs] /\ failed' = [failed EXCEPT ![s] = FALSE]
        /\ UNCHANGED <<jobFile, stored, lease, made>>
    BY <1>4, Zenon DEF Die, files, clock
  <2>2. /\ active'[s] = NoJob /\ pc'[s] = "idle"
        /\ \A j \in Jobs : mem'[s][j] # "ready"
    BY <1>0, <2>1 DEF NoJobs
  <2>3. \A t \in Services \ {s} : /\ active'[t] = active[t] /\ pc'[t] = pc[t]
                                 /\ mem'[t] = mem[t] /\ (failed'[t] <=> failed[t])
    BY <1>0, <2>1
  <2>4. Owned'
    BY <1>0, <2>1, <2>2, <2>3 DEF Owned, ReadyInv, NoJob
  <2>5. ASSUME NEW j \in Jobs PROVE Settled(j)'
    <3>1. j # NoJob
      BY PreviewsAssumption DEF Jobs, NoJob
    <3> QED BY <2>1, <2>2, <2>3, <3>1 DEF ReadyInv, Settled
  <2>6. ASSUME NEW t \in Services PROVE Released(t)' /\ Backed(t)'
    <3>1. CASE t = s
      BY <2>2, <3>1 DEF Released, Backed
    <3>2. CASE t # s
      BY <2>1, <2>3, <3>2 DEF ReadyInv, Released, Backed
    <3> QED BY <3>1, <3>2
  <2> QED BY <2>4, <2>5, <2>6 DEF ReadyInv
<1>5. ASSUME NEW s \in Services, Post(s) PROVE ReadyInv'
  <2>1. /\ made' = made + 1 /\ made < MaxJobs /\ pc[s] = "idle"
        /\ active' = [active EXCEPT ![s] = made'] /\ pc' = [pc EXCEPT ![s] = "queue"]
        /\ mem' = [mem EXCEPT ![s][made'] = "queued"]
        /\ UNCHANGED <<failed, jobFile, stored, lease>>
    BY <1>5, Zenon DEF Post, At, Goto, files
  <2>2. made' \in Jobs /\ made' # NoJob /\ made' > made /\ active[s] = NoJob
    BY <1>0, <2>1, PreviewsAssumption DEF Jobs, NoJob, PlaceInv
  <2>3. /\ active'[s] = made' /\ pc'[s] = "queue" /\ mem'[s][made'] = "queued"
        /\ \A j \in Jobs \ {made'} : mem'[s][j] = mem[s][j]
    BY <1>0, <2>1, <2>2
  <2>4. \A t \in Services \ {s} : /\ active'[t] = active[t] /\ pc'[t] = pc[t]
                                 /\ mem'[t] = mem[t]
    BY <1>0, <2>1
  <2>5. \A t \in Services : active[t] <= made /\ active[t] # made'
    BY <1>0, <2>1 DEF ReadyInv, Owned
  <2>6. Owned'
    BY <1>0, <2>1, <2>3, <2>4, <2>5 DEF Owned, ReadyInv
  <2>7. ASSUME NEW j \in Jobs PROVE Settled(j)'
    <3>1. SUFFICES ASSUME jobFile[j] = "ready"
                   PROVE  j <= made' /\ j \in stored /\ j \notin lease
                          /\ \A t \in Services : active'[t] # j
      BY <2>1 DEF Settled
    <3>2. j <= made /\ j \in stored /\ j \notin lease /\ \A t \in Services : active[t] # j
      BY <3>1 DEF ReadyInv, Settled
    <3>3. j <= made' /\ j # made'
      BY <1>0, <2>1, <3>2, PreviewsAssumption DEF Jobs
    <3> QED BY <2>3, <2>4, <3>2, <3>3
  <2>8. ASSUME NEW t \in Services PROVE Released(t)'
    BY <2>1, <2>3, <2>4 DEF ReadyInv, Released
  <2>9. ASSUME NEW t \in Services PROVE Backed(t)'
    <3> SUFFICES ASSUME NEW j \in Jobs, mem'[t][j] = "ready"
                 PROVE  /\ j <= made' /\ j \in stored' /\ j \notin lease'
                        /\ active'[t] = j => pc'[t] \in {"finish", "stuck"}
                        /\ active'[t] # j => jobFile'[j] = "ready"
      BY DEF Backed
    <3>1. mem[t][j] = "ready"
      BY <2>3, <2>4
    <3>2. /\ j <= made /\ j \in stored /\ j \notin lease
          /\ active[t] = j => pc[t] \in {"finish", "stuck"}
          /\ active[t] # j => jobFile[j] = "ready"
      BY <3>1 DEF ReadyInv, Backed
    <3>3. j <= made' /\ j # made' /\ j # NoJob
      BY <1>0, <2>1, <3>2, PreviewsAssumption DEF Jobs, NoJob
    <3> QED BY <2>1, <2>2, <2>3, <2>4, <3>2, <3>3
  <2> QED BY <2>6, <2>7, <2>8, <2>9 DEF ReadyInv
<1>6. ASSUME NEW s \in Services, SaveQueued(s) PROVE ReadyInv'
  <2>1. pc[s] = "queue" /\ UNCHANGED <<active, made, mem, failed, stored, lease>>
    BY <1>6, Zenon DEF SaveQueued, At, files, clock, lockVars
  <2>2. active[s] \in Jobs /\ jobFile[active[s]] # "ready" /\ mem[s][active[s]] # "ready"
    BY <2>1, ActiveIsJob, NotYet
  <2>3. \A t \in Services \ {s} : /\ mem'[t] = mem[t] /\ pc'[t] = pc[t]
                                 /\ (failed'[t] <=> failed[t])
    BY <1>0, <1>6, <2>1 DEF SaveQueued, Goto, Fail
  <2>4. Released(s)'
    BY <1>0, <1>6 DEF SaveQueued, Goto, Released
  <2>5. /\ jobFile'[active[s]] # "ready" /\ mem'[s] = mem[s]
        /\ \A j \in Jobs \ {active[s]} : jobFile'[j] = jobFile[j]
    BY <1>0, <1>6, <2>1, <2>2 DEF SaveQueued
  <2> QED BY <2>1, <2>2, <2>3, <2>4, <2>5, OwnStep
<1>7. ASSUME NEW s \in Services, Reserve(s) PROVE ReadyInv'
  <2>1. pc[s] = "reserve" /\ UNCHANGED <<active, made, mem, jobFile, stored>>
    BY <1>7, Zenon DEF Reserve, At, files, clock, lockVars
  <2>2. active[s] \in Jobs /\ jobFile[active[s]] # "ready" /\ mem[s][active[s]] # "ready"
    BY <2>1, ActiveIsJob, NotYet
  <2>3. \A t \in Services \ {s} : /\ mem'[t] = mem[t] /\ pc'[t] = pc[t]
                                 /\ (failed'[t] <=> failed[t])
    BY <1>0, <1>7, <2>1 DEF Reserve, Goto, Fail
  <2>4. Released(s)'
    BY <1>0, <1>7 DEF Reserve, Goto, Fail, Released
  <2>5. lease' \subseteq lease \cup {active[s]}
    BY <1>7 DEF Reserve
  <2> QED BY <2>1, <2>2, <2>3, <2>4, <2>5, OwnStep
<1>8. ASSUME NEW s \in Services, Admit(s) PROVE ReadyInv'
  <2>1. pc[s] = "admit" /\ UNCHANGED <<active, made, mem, jobFile, stored, lease>>
    BY <1>8, Zenon DEF Admit, At, files, clock, lockVars
  <2>2. active[s] \in Jobs /\ jobFile[active[s]] # "ready" /\ mem[s][active[s]] # "ready"
    BY <2>1, ActiveIsJob, NotYet
  <2>3. \A t \in Services \ {s} : /\ mem'[t] = mem[t] /\ pc'[t] = pc[t]
                                 /\ (failed'[t] <=> failed[t])
    BY <1>0, <1>8, <2>1 DEF Admit, Goto, Fail
  <2>4. Released(s)'
    BY <1>0, <1>8 DEF Admit, Goto, Released
  <2>5. lease' \subseteq lease \cup {active[s]}
    BY <2>1
  <2> QED BY <2>1, <2>2, <2>3, <2>4, <2>5, OwnStep
<1>9. ASSUME NEW s \in Services, SaveBudget(s) PROVE ReadyInv'
  <2>1. pc[s] = "count" /\ UNCHANGED <<active, made, mem, jobFile, stored, lease>>
    BY <1>9, Zenon DEF SaveBudget, At, files, clock, lockVars
  <2>2. active[s] \in Jobs /\ jobFile[active[s]] # "ready" /\ mem[s][active[s]] # "ready"
    BY <2>1, ActiveIsJob, NotYet
  <2>3. \A t \in Services \ {s} : /\ mem'[t] = mem[t] /\ pc'[t] = pc[t]
                                 /\ (failed'[t] <=> failed[t])
    BY <1>0, <1>9, <2>1 DEF SaveBudget, Goto, Fail
  <2>4. Released(s)'
    BY <1>0, <1>9 DEF SaveBudget, Goto, Released
  <2>5. lease' \subseteq lease \cup {active[s]}
    BY <2>1
  <2> QED BY <2>1, <2>2, <2>3, <2>4, <2>5, OwnStep
<1>10. ASSUME NEW s \in Services, Start(s) PROVE ReadyInv'
  <2>1. pc[s] = "start" /\ UNCHANGED <<active, made, stored, lease>>
    BY <1>10, Zenon DEF Start, At, files, clock, lockVars
  <2>2. active[s] \in Jobs /\ jobFile[active[s]] # "ready" /\ mem[s][active[s]] # "ready"
    BY <2>1, ActiveIsJob, NotYet
  <2>6. /\ \A t \in Services \ {s} : mem'[t] = mem[t]
        /\ mem'[s][active[s]] = "running"
        /\ \A j \in Jobs \ {active[s]} : mem'[s][j] = mem[s][j]
    <3>1. SetStatus(s, "running") /\ "running" \in Statuses
      BY <1>10 DEF Start, Statuses
    <3> QED BY <2>1, <3>1, StatusType
  <2>3. \A t \in Services \ {s} : /\ mem'[t] = mem[t] /\ pc'[t] = pc[t]
                                 /\ (failed'[t] <=> failed[t])
    BY <1>0, <1>10, <2>6 DEF Start, Goto, Fail
  <2>4. Released(s)'
    BY <1>0, <1>10 DEF Start, Goto, Released
  <2>5. /\ jobFile'[active[s]] # "ready" /\ mem'[s][active[s]] # "ready"
        /\ \A j \in Jobs \ {active[s]} : jobFile'[j] = jobFile[j] /\ mem'[s][j] = mem[s][j]
    BY <1>0, <1>10, <2>2, <2>6 DEF Start
  <2> QED BY <2>1, <2>2, <2>3, <2>4, <2>5, OwnStep
<1>11. ASSUME NEW s \in Services, Work(s) PROVE ReadyInv'
  <2>1. pc[s] = "work" /\ UNCHANGED <<active, made, mem, jobFile, stored, lease>>
    BY <1>11, Zenon DEF Work, At, files, clock, lockVars
  <2>2. active[s] \in Jobs /\ jobFile[active[s]] # "ready" /\ mem[s][active[s]] # "ready"
    BY <2>1, ActiveIsJob, NotYet
  <2>3. \A t \in Services \ {s} : /\ mem'[t] = mem[t] /\ pc'[t] = pc[t]
                                 /\ (failed'[t] <=> failed[t])
    BY <1>0, <1>11, <2>1 DEF Work, Goto, Fail
  <2>4. Released(s)'
    BY <1>0, <1>11 DEF Work, Goto, Released
  <2>5. lease' \subseteq lease \cup {active[s]}
    BY <2>1
  <2> QED BY <2>1, <2>2, <2>3, <2>4, <2>5, OwnStep
<1>12. ASSUME NEW s \in Services, Release(s) PROVE ReadyInv'
  <2>1. pc[s] = "release" /\ UNCHANGED <<active, made, mem, jobFile, stored>>
    BY <1>12, Zenon DEF Release, At, files, clock, lockVars
  <2>2. active[s] \in Jobs /\ jobFile[active[s]] # "ready" /\ mem[s][active[s]] # "ready"
    BY <2>1, ActiveIsJob, NotYet
  <2>3. \A t \in Services \ {s} : /\ mem'[t] = mem[t] /\ pc'[t] = pc[t]
                                 /\ (failed'[t] <=> failed[t])
    BY <1>0, <1>12, <2>1 DEF Release, Goto, Unconfirmed, Fail
  <2>4. Released(s)'
    BY <1>0, <1>12, <2>1 DEF Release, Unconfirmed, Fail, Released
  <2>5. lease' \subseteq lease \cup {active[s]}
    BY <1>12 DEF Release
  <2> QED BY <2>1, <2>2, <2>3, <2>4, <2>5, OwnStep
<1>13. ASSUME NEW s \in Services, Check(s) PROVE ReadyInv'
  <2>1. pc[s] = "check" /\ UNCHANGED <<active, made, jobFile, lease>>
        /\ pc' = [pc EXCEPT ![s] = "finish"] /\ failed' = [failed EXCEPT ![s] = FALSE]
    BY <1>13, Zenon DEF Check, At, Goto, clock, lockVars
  <2>2. active[s] \in Jobs /\ jobFile[active[s]] # "ready"
    BY <2>1, ActiveIsJob, NotYet
  <2>3. PICK status \in {"ready", "failed"} : SetStatus(s, status)
    BY <1>13 DEF Check
  <2>4. /\ \A t \in Services \ {s} : mem'[t] = mem[t]
        /\ mem'[s][active[s]] = status
        /\ \A j \in Jobs \ {active[s]} : mem'[s][j] = mem[s][j]
    BY <2>1, <2>3, StatusType DEF Statuses
  <2>5. /\ \A t \in Services \ {s} : pc'[t] = pc[t] /\ (failed'[t] <=> failed[t])
        /\ pc'[s] = "finish"
    BY <1>0, <2>1
  <2>6. stored \subseteq stored'
    BY <1>13 DEF Check
  <2>7. status = "ready" => active[s] \in stored' /\ active[s] \notin lease'
    <3>1. CASE ~failed[s] /\ stored' = stored \cup {active[s]}
      BY <2>1, <3>1 DEF ReadyInv, Released
    <3>2. CASE SetStatus(s, "failed")
      <4>1. mem'[s][active[s]] = "failed"
        BY <2>1, <3>2, StatusType DEF Statuses
      <4> QED BY <2>4, <4>1
    <3> QED BY <1>13, <3>1, <3>2 DEF Check
  <2>8. Released(s)'
    BY <2>5 DEF Released
  <2> QED BY <2>1, <2>2, <2>4, <2>5, <2>6, <2>7, <2>8, OwnStep
<1>14. ASSUME NEW s \in Services, Finish(s) PROVE ReadyInv'
  <2>1. pc[s] = "finish" /\ UNCHANGED <<failed, mem, stored, lease, made>>
    BY <1>14, Zenon DEF Finish, At, clock, lockVars
  <2>2. /\ active[s] \in Jobs /\ active[s] # NoJob /\ jobFile[active[s]] # "ready"
        /\ active[s] <= made
    BY <2>1, ActiveIsJob, NotYet DEF ReadyInv, Owned
  <2>3. mem[s][active[s]] = "ready" => active[s] \in stored /\ active[s] \notin lease
    BY <2>2 DEF ReadyInv, Backed
  <2>4. CASE Goto(s, "stuck") /\ UNCHANGED <<jobFile, active>>
    <3>1. pc'[s] = "stuck" /\ \A t \in Services \ {s} : pc'[t] = pc[t]
      BY <1>0, <2>4 DEF Goto
    <3>2. Released(s)'
      BY <3>1 DEF Released
    <3> QED BY <2>1, <2>2, <2>3, <2>4, <3>1, <3>2, OwnStep
  <2>5. CASE /\ jobFile' = [jobFile EXCEPT ![active[s]] = mem[s][active[s]]]
             /\ active' = [active EXCEPT ![s] = NoJob] /\ Goto(s, "idle")
    <3>1. /\ active'[s] = NoJob /\ pc'[s] = "idle"
          /\ \A t \in Services \ {s} : active'[t] = active[t] /\ pc'[t] = pc[t]
      BY <1>0, <2>5 DEF Goto
    <3>2. /\ jobFile'[active[s]] = mem[s][active[s]]
          /\ \A j \in Jobs \ {active[s]} : jobFile'[j] = jobFile[j]
      BY <1>0, <2>2, <2>5
    <3>3. Owned'
      <4>1. ASSUME NEW t \in Services PROVE active'[t] <= made' /\ made' = made
        <5>1. CASE t = s
          BY <1>0, <2>1, <3>1, <5>1 DEF NoJob
        <5>2. CASE t # s
          BY <2>1, <3>1, <5>2 DEF ReadyInv, Owned
        <5> QED BY <5>1, <5>2
      <4>2. ASSUME NEW t \in Services, NEW u \in Services,
                   active'[t] = active'[u], active'[t] # NoJob
            PROVE  t = u
        BY <3>1, <4>2 DEF ReadyInv, Owned
      <4> QED BY <4>1, <4>2 DEF Owned
    <3>4. \A t \in Services \ {s} : active[t] # active[s]
      BY <2>2 DEF ReadyInv, Owned
    <3>5. ASSUME NEW j \in Jobs PROVE Settled(j)'
      <4>0. j # NoJob
        BY PreviewsAssumption DEF Jobs, NoJob
      <4>1. CASE j = active[s]
        BY <2>1, <2>2, <2>3, <3>1, <3>2, <3>4, <4>0, <4>1 DEF Settled
      <4>2. CASE j # active[s]
        BY <2>1, <3>1, <3>2, <4>0, <4>2 DEF Settled, ReadyInv
      <4> QED BY <4>1, <4>2
    <3>6. ASSUME NEW t \in Services PROVE Released(t)' /\ Backed(t)'
      <4>1. CASE t = s
        <5>1. \A j \in Jobs : j # NoJob
          BY PreviewsAssumption DEF Jobs, NoJob
        <5> QED BY <2>1, <2>2, <3>1, <3>2, <4>1, <5>1 DEF ReadyInv, Released, Backed
      <4>2. CASE t # s
        <5>1. Released(t)'
          BY <2>1, <3>1, <4>2 DEF ReadyInv, Released
        <5>2. ASSUME NEW j \in Jobs, mem[t][j] = "ready", active[t] # j
              PROVE  jobFile'[j] = "ready"
          <6>1. jobFile[j] = "ready"
            BY <5>2 DEF ReadyInv, Backed
          <6> QED BY <2>2, <3>2, <6>1
        <5> QED BY <2>1, <3>1, <4>2, <5>1, <5>2 DEF ReadyInv, Backed
      <4> QED BY <4>1, <4>2
    <3> QED BY <3>3, <3>5, <3>6 DEF ReadyInv
  <2> QED BY <1>14, <2>4, <2>5 DEF Finish, Freed
<1>15. ASSUME NEW j \in Jobs, OrphanEnds(j) \/ Expire(j) PROVE ReadyInv'
  <2>1. /\ UNCHANGED <<pc, failed, active, mem, jobFile, stored, made>>
        /\ lease' \subseteq lease
    BY <1>15 DEF OrphanEnds, Expire, files, clock, lockVars
  <2>2. Owned' /\ \A i \in Jobs : Settled(i)'
    BY <2>1 DEF ReadyInv, Owned, Settled
  <2>3. \A s \in Services : Released(s)' /\ Backed(s)'
    BY <2>1 DEF ReadyInv, Released, Backed
  <2> QED BY <2>2, <2>3 DEF ReadyInv
<1>16. CASE Midnight \/ UNCHANGED pvars
  <2>1. UNCHANGED <<pc, failed, active, mem, jobFile, stored, lease, made>>
    BY <1>16, Zenon DEF Midnight, pvars, files
  <2> QED BY <2>1, Zenon DEF ReadyInv, Owned, Settled, Released, Backed
<1> QED BY <1>1, <1>2, <1>3, <1>4, <1>5, <1>6, <1>7, <1>8, <1>9, <1>10, <1>11, <1>12,
           <1>13, <1>14, <1>15, <1>16, NextCases, Zenon

LEMMA FailedStep == FailedType /\ [Next]_pvars => FailedType'
<1> SUFFICES ASSUME FailedType, [Next]_pvars PROVE FailedType'
  OBVIOUS
<1>1. \/ failed' = failed
      \/ \E s \in Services, b \in BOOLEAN : failed' = [failed EXCEPT ![s] = b]
  <2>1. ASSUME NEW s \in Services, LockStep(s) \/ Load(s) \/ Stop(s) \/ Post(s)
                                  \/ SaveQueued(s) \/ Finish(s)
        PROVE  failed' = failed
    BY <2>1, Zenon DEF LockStep, OpenLock, RemoveStale, Reopen, SignLock, Load, Stop, Post,
                       SaveQueued, Finish
  <2>2. ASSUME NEW s \in Services,
               \/ Die(s) \/ Reserve(s) \/ Admit(s) \/ SaveBudget(s) \/ Start(s) \/ Work(s)
               \/ Release(s) \/ Check(s)
        PROVE  \/ failed' = failed \/ failed' = [failed EXCEPT ![s] = TRUE]
               \/ failed' = [failed EXCEPT ![s] = FALSE]
    BY <2>2 DEF Die, Reserve, Admit, SaveBudget, Start, Work, Release, Check, Fail,
                Unconfirmed
  <2>3. ASSUME NEW j \in Jobs, OrphanEnds(j) \/ Expire(j) PROVE failed' = failed
    BY <2>3, Zenon DEF OrphanEnds, Expire
  <2>4. CASE Midnight \/ UNCHANGED pvars
    BY <2>4, Zenon DEF Midnight, pvars
  <2> QED BY <2>1, <2>2, <2>3, <2>4, NextCases, Zenon
<1>2. CASE failed' = failed
  BY <1>2, Zenon DEF FailedType
<1>3. ASSUME NEW s \in Services, NEW b \in BOOLEAN, failed' = [failed EXCEPT ![s] = b]
      PROVE  FailedType'
  BY <1>3, Zenon DEF FailedType
<1> QED BY <1>1, <1>2, <1>3, Zenon
-----------------------------------------------------------------------------
(***************************************************************************)
(* The results.                                                            *)
(***************************************************************************)
\* The inductive invariant.
IInv == PTypeOK /\ FailedType /\ PlaceInv /\ BudgetInv /\ ReadyInv

LEMMA Invariant == Spec => []IInv
<1>1. Init => IInv
  BY InitType, InitBudget, InitReady DEF IInv
<1>2. IInv /\ [Next]_pvars => IInv'
  BY TypeStep, FailedStep, NextBudget, NextReady DEF IInv
<1> QED BY <1>1, <1>2, PTL DEF Spec

\* However often the service dies, is stopped and started again, and whatever write
\* or call fails: while no two services are up at once, no day has more renderings
\* than the budget allows.
THEOREM BudgetIsKept == Spec => []BudgetKept
<1>1. IInv => BudgetKept
  BY DEF IInv, BudgetInv, Orderly, FileInv, BudgetKept, DailyLimit
<1> QED BY Invariant, <1>1, PTL

\* What any service shows as ready has its audio stored and its reservation gone,
\* and is recorded as ready unless its last write is still due.
THEOREM ReadyHasItsFiles == Spec => []ReadyIsBacked
<1>1. IInv => ReadyIsBacked
  BY DEF IInv, ReadyInv, Backed, ReadyIsBacked
<1> QED BY Invariant, <1>1, PTL
=============================================================================
