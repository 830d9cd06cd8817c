-------------------------- MODULE WorkerJobsInvariant --------------------------
(***************************************************************************)
(* The invariant IInv of WorkerJobs is inductive.  The lemmas come in three *)
(* layers: what the helpers do to the functions they update (...View), what a *)
(* step of a child may touch at all, and one step per action for each part *)
(* of the invariant (AttemptsStep, OrdersStep, ForceStep, LeaseStep,       *)
(* CancelStep, and ManagerQuiet with ChildKeeps for what children and jobs *)
(* rely on).                                                               *)
(***************************************************************************)
EXTENDS WorkerJobsTypes

\* What the helpers of the actions do to the functions they update.
LEMMA BecomeView ==
    ASSUME StoreType, NEW j \in Jobs, NEW s, NEW p, Become(j, s, p)
    PROVE  /\ man'[j].state = s /\ man'[j].pid = p
           /\ man'[j].blocked = man[j].blocked
           /\ man'[j].attempts = man[j].attempts
           /\ \A k \in Jobs \ {j} : man'[k] = man[k]
BY DEF StoreType, Become, Manifest

LEMMA SaveView ==
    ASSUME StoreType, NEW j \in Jobs, NEW o, SaveIntent(j, o)
    PROVE  /\ intent'[j].override = o
           /\ \A k \in Jobs \ {j} : intent'[k] = intent[k]
BY DEF StoreType, SaveIntent, Intent

LEMMA FinishView ==
    ASSUME StoreType, NEW j \in Jobs, FinishIntent(j)
    PROVE  \A k \in Jobs : /\ intent'[k].override = intent[k].override
                           /\ intent'[k].pending => intent[k].pending
BY DEF StoreType, FinishIntent, Intent

LEMMA GoView ==
    ASSUME ChildType, NEW p \in Pids, NEW pc, Go(p, pc)
    PROVE  /\ proc'[p].pc = pc /\ JobOf(p)' = JobOf(p)
           /\ proc'[p].override = proc[p].override /\ proc'[p].seen = proc[p].seen
           /\ \A q \in Pids \ {p} : proc'[q] = proc[q]
BY DEF ChildType, Go, Child, JobOf

LEMMA DiesView ==
    ASSUME ChildType, NEW p \in Pids, Dies(p)
    PROVE  /\ proc'[p] = NoChild /\ ~proc'[p].override /\ ~proc'[p].seen.override
           /\ \A q \in Pids \ {p} : proc'[q] = proc[q]
           /\ \A k \in Jobs : lease'[k] = IF lease[k] = p THEN None ELSE lease[k]
BY DEF ChildType, Dies, NoChild, NoIntent

\* A child that is done leaves, with or without finishing its request.
LEMMA LeaveView ==
    ASSUME ChildType, NEW p \in Pids, Leave(p)
    PROVE  \/ Go(p, "finread") /\ UNCHANGED lease
           \/ Dies(p)
BY DEF Leave, Exit

\* The lease makes a working child the only one of its job.
LEMMA Alone ==
    ASSUME LeaseHeld, NEW p \in Pids, proc[p].pc \notin {"dead", "lease"}
    PROVE  \A q \in Pids \ {p} : JobOf(q) = JobOf(p) => proc[q].pc \in {"dead", "lease"}
BY DEF LeaseHeld

\* What a step of a child changes besides its own program counter: at most
\* the job it works for, and of that job neither orders nor executions.
Touches(p, j) ==
    /\ \A q \in Pids \ {p} : proc'[q] = proc[q]
    /\ proc'[p] = NoChild \/ JobOf(p)' = j
    /\ proc'[p].override => proc[p].override
    /\ \A k \in Jobs \ {j} : man'[k] = man[k] /\ tree'[k] = tree[k] /\ origin'[k] = origin[k]
    /\ man'[j].attempts = man[j].attempts
    /\ man'[j].state \in {"absent", "queued"} => man[j].state = man'[j].state
    /\ man'[j].state = "publishing" => man[j].state = "publishing" \/ j \in AutoJobs
    /\ \A k \in Jobs : /\ order'[k].asked = order[k].asked
                       /\ order'[k].forced = order[k].forced
    /\ UNCHANGED loop

LEMMA ChildTouches ==
    ASSUME StoreType, WorldType, ChildType, GhostType, NEW p \in Pids, ChildStep(p) \/ Crash(p),
           NEW j \in Jobs, JobOf(p) = j
    PROVE  Touches(p, j)
<1> USE DEF Touches, world, child, ghosts
<1>1. CASE TakeLease(p)
  BY <1>1, GoView DEF TakeLease
<1>2. CASE ChildClaim(p)
  BY <1>2, BecomeView, GoView DEF ChildClaim, Claimable
<1>3. CASE PrepareTree(p)
  BY <1>3, GoView DEF PrepareTree, WorldType
<1>4. CASE NoteTree(p)
  BY <1>4, GoView DEF NoteTree, StoreType, Manifest
<1>5. CASE CodexEdits(p)
  BY <1>5 DEF CodexEdits, WorldType, JobOf
<1>6. CASE CodexEnds(p)
  BY <1>6, GoView DEF CodexEnds
<1>7. CASE RecordResult(p)
  <2>1. (\E pc : Go(p, pc)) /\ UNCHANGED <<intent, world, lease, loop, ghosts>>
    BY <1>7 DEF RecordResult
  <2>2. CASE \E b \in BOOLEAN :
               man' = [man EXCEPT ![j].state = "prepared", ![j].blocked = b,
                                  ![j].pid = IF j \in AutoJobs THEN p ELSE None]
    <3>1. /\ \A k \in Jobs \ {j} : man'[k] = man[k]
          /\ man'[j].attempts = man[j].attempts /\ man'[j].state = "prepared"
      BY <2>2 DEF StoreType, Manifest
    <3>2. QED
      BY <2>1, <3>1, GoView
  <2>3. CASE Become(j, "failed", None)
    BY <2>1, <2>3, GoView, BecomeView
  <2>4. CASE man' = man
    BY <2>1, <2>4, GoView
  <2>5. \/ \E b \in BOOLEAN :
               man' = [man EXCEPT ![JobOf(p)].state = "prepared", ![JobOf(p)].blocked = b,
                                  ![JobOf(p)].pid = IF JobOf(p) \in AutoJobs THEN p ELSE None]
        \/ Become(JobOf(p), "failed", None)
        \/ man' = man
    BY <1>7 DEF RecordResult
  <2>6. QED
    BY <2>2, <2>3, <2>4, <2>5
<1>8. CASE RecordFailure(p)
  BY <1>8, BecomeView, GoView DEF RecordFailure
<1>9. CASE AutoPublish(p)
  <2>1. (\E pc : Go(p, pc)) \/ Dies(p)
    BY <1>9 DEF AutoPublish, Exit
  <2>2. UNCHANGED man \/ (j \in AutoJobs /\ Become(j, "publishing", p))
    BY <1>9 DEF AutoPublish
  <2>3. QED
    BY <1>9, <2>1, <2>2, GoView, DiesView, BecomeView DEF AutoPublish
<1>10. CASE PublishClaimed(p)
  <2>1. (\E pc : Go(p, pc)) \/ Dies(p)
    BY <1>10, LeaveView DEF PublishClaimed
  <2>2. UNCHANGED man \/ (man[j].state = "publishing" /\ Become(j, "publishing", p))
    BY <1>10 DEF PublishClaimed, Publishable
  <2>3. QED
    BY <1>10, <2>1, <2>2, GoView, DiesView, BecomeView DEF PublishClaimed
<1>11. CASE CheckGate(p)
  BY <1>11, GoView DEF CheckGate, StoreType, Manifest
<1>12. CASE Commit(p)
  BY <1>12, GoView DEF Commit, WorldType
<1>13. CASE Push(p)
  BY <1>13, GoView DEF Push, WorldType
<1>14. CASE OpenPr(p)
  BY <1>14, GoView DEF OpenPr, WorldType
<1>15. CASE Succeed(p)
  <2>1. (\E pc : Go(p, pc)) \/ Dies(p)
    BY <1>15, LeaveView DEF Succeed
  <2>2. UNCHANGED man \/ Become(j, "succeeded", None)
    BY <1>15 DEF Succeed
  <2>3. QED
    BY <1>15, <2>1, <2>2, GoView, DiesView, BecomeView DEF Succeed
<1>16. CASE PublishRaises(p)
  BY <1>16, GoView DEF PublishRaises
<1>17. CASE PublishFails(p)
  <2>1. (\E pc : Go(p, pc)) \/ Dies(p)
    BY <1>17, LeaveView DEF PublishFails
  <2>2. UNCHANGED man \/ Become(j, "prepared", None)
    BY <1>17 DEF PublishFails
  <2>3. \A k \in Jobs : order'[k].asked = order[k].asked /\ order'[k].forced = order[k].forced
    BY <1>17 DEF PublishFails, GhostType, Order
  <2>4. QED
    BY <1>17, <2>1, <2>2, <2>3, GoView, DiesView, BecomeView DEF PublishFails
<1>18. CASE FinishRead(p)
  <2>1. CASE Dies(p)
    BY <1>18, <2>1, DiesView DEF FinishRead
  <2>2. CASE proc' = [proc EXCEPT ![p].pc = "finwrite", ![p].seen = intent[JobOf(p)]]
    BY <1>18, <2>2 DEF FinishRead, ChildType, Child, JobOf
  <2>3. QED
    BY <1>18, <2>1, <2>2 DEF FinishRead, Exit
<1>19. CASE FinishWrite(p)
  BY <1>19, DiesView DEF FinishWrite, Exit
<1>20. CASE Crash(p)
  BY <1>20, DiesView DEF Crash
<1> QED
  BY <1>1, <1>2, <1>3, <1>4, <1>5, <1>6, <1>7, <1>8, <1>9, <1>10, <1>11, <1>12, <1>13,
     <1>14, <1>15, <1>16, <1>17, <1>18, <1>19, <1>20 DEF ChildStep

\* The first update of _launch: RUNNING, one more execution.
LEMMA StartView ==
    ASSUME StoreType, NEW j \in Jobs,
           man' = [man EXCEPT ![j].state = "running", ![j].pid = None, ![j].attempts = @ + 1]
    PROVE  /\ man'[j].attempts = man[j].attempts + 1
           /\ man'[j].state = "running" /\ man'[j].pid = None
           /\ \A k \in Jobs \ {j} : man'[k] = man[k]
BY DEF StoreType, Manifest

\* A child that takes a step works for a job.
LEMMA ChildJob ==
    ASSUME ChildType, NEW p \in Pids, ChildStep(p) \/ Crash(p)
    PROVE  JobOf(p) \in Jobs
<1>1. proc[p].pc # "dead"
  BY DEF ChildStep, Crash, TakeLease, ChildClaim, PrepareTree, NoteTree, CodexEdits,
     CodexEnds, RecordResult, RecordFailure, AutoPublish, PublishClaimed, CheckGate,
     Commit, Push, OpenPr, Succeed, PublishRaises, PublishFails, FinishRead,
     FinishWrite, At, PublishPc
<1>2. QED
  BY <1>1, JobType

\* The dispatcher between two jobs.
LEMMA IdleView == Scanning.pc = "scan" /\ ~Scanning.override
BY DEF Scanning

\* What the choice of the next job leaves in the coroutine.
LEMMA ChooseView ==
    ASSUME Choose
    PROVE  \/ disp' = Scanning
           \/ disp'.pc = "start" /\ ~disp'.override
           \/ /\ disp'.pc = "claim" /\ disp'.job \in Pending
              /\ disp'.override = intent[disp'.job].override
<1>1. ASSUME NEW j \in Jobs, First(j, Pending),
             disp' = [Scanning EXCEPT !.pc = "claim", !.job = j, !.override = intent[j].override]
      PROVE  /\ disp'.pc = "claim" /\ disp'.job \in Pending
             /\ disp'.override = intent[disp'.job].override
  BY <1>1 DEF Scanning, First
<1>2. ASSUME NEW j, disp' = [Scanning EXCEPT !.pc = "start", !.job = j]
      PROVE  disp'.pc = "start" /\ ~disp'.override
  BY <1>2 DEF Scanning
<1>3. QED
  BY <1>1, <1>2 DEF Choose

\* A resumed hand-off saves a request without override.
LEMMA HandoffView ==
    ASSUME DecideHandoff
    PROVE  \/ disp' = Scanning /\ UNCHANGED intent
           \/ /\ disp'.pc = "handoff" /\ disp'.job = disp.job /\ ~disp'.override
              /\ SaveIntent(disp.job, FALSE) /\ IsHandoff(disp.job, disp.latest)
BY DEF Scanning, DecideHandoff

\* A resumed publication takes the durable override, or an automatic one.
LEMMA PublishingView ==
    ASSUME DecidePublishing
    PROVE  /\ \/ disp' = Scanning
              \/ /\ disp'.pc = "own" /\ disp'.job = disp.job
                 /\ disp'.override = intent[disp.job].override
              \/ disp'.pc = "lost" /\ ~disp'.override
           /\ \/ UNCHANGED intent
              \/ SaveIntent(disp.job, FALSE) /\ disp.job \in AutoJobs
<1>1. disp' = [Scanning EXCEPT !.pc = "own", !.job = disp.job,
                               !.override = intent[disp.job].override]
      => /\ disp'.pc = "own" /\ disp'.job = disp.job
         /\ disp'.override = intent[disp.job].override
  BY DEF Scanning
<1>2. disp' = [Scanning EXCEPT !.pc = "lost", !.job = disp.job]
      => disp'.pc = "lost" /\ ~disp'.override
  BY DEF Scanning
<1>3. QED
  BY <1>1, <1>2 DEF DecidePublishing

\* An interrupted execution is only requeued while one is left.
LEMMA RunningView ==
    ASSUME DecideRunning
    PROVE  /\ disp'.pc \in {"giveup", "requeue", "unsafe"} /\ ~disp'.override
           /\ disp'.pc = "requeue" => disp'.job = disp.job /\ MayRetry(disp.latest)
BY DEF Scanning, DecideRunning

\* A lost race starts over, a won one goes on to spawn with the same override.
LEMMA UpdateView ==
    ASSUME DispType, DispatchUpdate \/ DispatchStart
    PROVE  /\ disp.job \in Jobs
           /\ \/ disp' = Scanning
              \/ disp'.pc = "spawn" /\ disp'.job = disp.job /\ disp'.override = disp.override
<1>1. disp.job \in Jobs
  BY DEF DispatchUpdate, DispatchStart, DispType, From
<1>2. CASE disp' # Scanning
  BY <1>1, <1>2 DEF DispatchUpdate, DispatchStart, DispType, Dispatcher
<1>3. QED
  BY <1>1, <1>2

\* No step makes a third execution: QUEUED always leaves one to spend, and the
\* decision to requeue was taken over the number of attempts that still holds.
LEMMA AttemptsStep ==
    ASSUME TypeOK, AttemptsOK, [Next]_vars
    PROVE  AttemptsOK'
<1>t. StoreType /\ WorldType /\ ChildType /\ DispType /\ HandlerType /\ GhostType
  BY DEF TypeOK
<1>1. CASE ScanOrphan
  BY <1>1, <1>t DEF ScanOrphan, AttemptsOK, DispType, world, child, ghosts
<1>2. CASE ScanRetention
  BY <1>2, <1>t DEF ScanRetention, AttemptsOK, DispType, world, child, ghosts
<1>3. CASE Choose
  <2>1. disp'.pc \notin {"requeue", "decide", "cleanup"}
    BY <1>3, ChooseView, IdleView
  <2>2. QED
    BY <1>3, <2>1 DEF Choose, AttemptsOK
<1>4. CASE Reread
  BY <1>4, <1>t DEF Reread, AttemptsOK, DispType, world, child, ghosts
<1>5. CASE DecideHandoff
  <2>1. disp'.pc \notin {"requeue", "decide", "cleanup"}
    BY <1>5, HandoffView, IdleView
  <2>2. QED
    BY <1>5, <2>1 DEF DecideHandoff, AttemptsOK
<1>6. CASE DecidePublishing
  <2>1. disp'.pc \notin {"requeue", "decide", "cleanup"}
    BY <1>6, PublishingView, IdleView
  <2>2. QED
    BY <1>6, <2>1 DEF DecidePublishing, AttemptsOK
<1>7. CASE DecideRunning
  <2>1. disp'.pc = "requeue" => disp'.job = disp.job /\ man[disp.job].attempts <= 1
    BY <1>7, <1>t, RunningView DEF DecideRunning, AttemptsOK, Deciding, MayRetry,
       DispType, StoreType, Manifest
  <2>2. QED
    BY <1>7, <2>1, RunningView DEF DecideRunning, AttemptsOK
<1>8. CASE DecideNothing
  BY <1>8, IdleView DEF DecideNothing, AttemptsOK
<1>9. CASE DispatchUpdate
  <2>1. disp'.pc \in {"scan", "spawn"} /\ disp.job \in Jobs
    BY <1>9, <1>t, UpdateView, IdleView
  <2>2. CASE UNCHANGED man
    BY <2>1, <2>2 DEF AttemptsOK
  <2>3. CASE Become(disp.job, To[disp.pc], None)
    <3>1. To[disp.pc] \in {"absent", "queued"} => disp.pc = "requeue"
      BY <1>9, Tables DEF DispatchUpdate
    <3>2. QED
      BY <2>1, <2>3, <3>1, <1>t, BecomeView DEF AttemptsOK
  <2>4. QED
    BY <1>9, <2>2, <2>3 DEF DispatchUpdate
<1>10. CASE DispatchStart
  <2>1. disp'.pc \in {"scan", "spawn"} /\ disp.job \in Jobs
    BY <1>10, <1>t, UpdateView, IdleView
  <2>2. CASE UNCHANGED man
    BY <2>1, <2>2 DEF AttemptsOK
  <2>3. CASE man[disp.job].state = "queued"
    <3>1. /\ man'[disp.job].attempts = man[disp.job].attempts + 1
          /\ man'[disp.job].state = "running"
          /\ \A k \in Jobs \ {disp.job} : man'[k] = man[k]
      BY <1>10, <1>t, <2>1, <2>3, StartView DEF DispatchStart
    <3>2. man[disp.job].attempts \in Nat /\ man[disp.job].attempts <= 1
      BY <1>t, <2>1, <2>3 DEF StoreType, Manifest, AttemptsOK
    <3>3. QED
      BY <2>1, <3>1, <3>2 DEF AttemptsOK
  <2>4. QED
    BY <1>10, <2>2, <2>3 DEF DispatchStart
<1>11. CASE Spawn
  BY <1>11, <1>t DEF Spawn, AttemptsOK, DispType, world, child, ghosts
<1>12. CASE SpawnFails
  BY <1>12, <1>t, BecomeView DEF SpawnFails, AttemptsOK, DispType, HandlerType,
     Scanning, Launched, LoopFree
<1>13. CASE DispatchFinish
  BY <1>13, IdleView DEF DispatchFinish, AttemptsOK
<1>14. CASE RecordPid
  BY <1>14, <1>t, BecomeView DEF RecordPid, AttemptsOK, DispType, HandlerType, Scanning,
     Launched, LoopFree
<1>15. CASE CancelClose
  BY <1>15, <1>t, BecomeView DEF CancelClose, AttemptsOK, DispType, HandlerType,
     Scanning, Launched, LoopFree
<1>16. CASE CancelKill
  BY <1>16, <1>t DEF CancelKill, AttemptsOK, DispType, world, child, ghosts
<1>17. CASE CancelStop
  BY <1>17, <1>t DEF CancelStop, AttemptsOK, DispType, world, child, ghosts
<1>18. CASE CancelSettle
  BY <1>18, <1>t DEF CancelSettle, AttemptsOK, DispType, world, child, ghosts
<1>19. CASE CancelRelease
  BY <1>19, <1>t, BecomeView DEF CancelRelease, AttemptsOK, DispType, HandlerType,
     Scanning, Launched, LoopFree
<1>20. CASE CancelFinish
  BY <1>20, <1>t DEF CancelFinish, AttemptsOK, DispType, world, child, ghosts
<1>21. CASE PublishClaim
  BY <1>21, <1>t, BecomeView DEF PublishClaim, AttemptsOK, DispType, HandlerType,
     Scanning, Launched, LoopFree
<1>22. ASSUME NEW j \in Jobs, Create(j) PROVE AttemptsOK'
  <2>1. /\ man'[j].attempts = man[j].attempts /\ man[j].state = "absent"
        /\ \A k \in Jobs \ {j} : man'[k] = man[k]
    BY <1>22, <1>t DEF Create, StoreType, Manifest
  <2>2. disp.pc # "requeue" /\ disp' = disp
    BY <1>22 DEF Create, LoopFree, loop
  <2>3. \A k \in Jobs : man'[k].attempts = man[k].attempts
    BY <2>1
  <2>4. QED
    BY <1>22, <1>t, <2>1, <2>2, <2>3 DEF AttemptsOK, DispType
<1>23. ASSUME NEW j \in Jobs, CancelRead(j) PROVE AttemptsOK'
  BY <1>23, <1>t DEF CancelRead, AttemptsOK, DispType, world, child, ghosts
<1>24. ASSUME NEW j \in Jobs, NEW o \in BOOLEAN, PublishRead(j, o) PROVE AttemptsOK'
  BY <1>24, <1>t DEF PublishRead, AttemptsOK, DispType, world, child, ghosts
<1>25. CASE ManagerRestart
  BY <1>25, IdleView DEF ManagerRestart, AttemptsOK
<1>26. ASSUME NEW p \in Pids, ChildStep(p) \/ Crash(p) PROVE AttemptsOK'
  <2> DEFINE j == JobOf(p)
  <2>1. j \in Jobs
    BY <1>26, <1>t, ChildJob
  <2>2. Touches(p, j)
    BY <1>26, <1>t, <2>1, ChildTouches
  <2>3. \A k \in Jobs : /\ man'[k].attempts = man[k].attempts
                        /\ man'[k].state \in {"absent", "queued"} => man[k].state = man'[k].state
    BY <2>1, <2>2 DEF Touches
  <2>4. disp' = disp
    BY <2>2 DEF Touches, loop
  <2>5. \A k \in Jobs : /\ man'[k].attempts <= 2
                        /\ man'[k].state \in {"absent", "queued"} => man'[k].attempts <= 1
    BY <2>3 DEF AttemptsOK
  <2>6. disp.pc \in {"requeue", "decide", "cleanup"} => disp.job \in Jobs
    BY <1>t DEF DispType
  <2>7. QED
    BY <2>3, <2>4, <2>5, <2>6 DEF AttemptsOK
<1>27. CASE UNCHANGED vars
  BY <1>27 DEF vars, AttemptsOK
<1>28. QED
  BY <1>1, <1>2, <1>3, <1>4, <1>5, <1>6, <1>7, <1>8, <1>9, <1>10, <1>11, <1>12, <1>13,
     <1>14, <1>15, <1>16, <1>17, <1>18, <1>19, <1>20, <1>21, <1>22, <1>23, <1>24, <1>25,
     <1>26, <1>27 DEF Next, Dispatch, Handlers

\* What a step of a child does to the sidecars and to the one it read.
LEMMA ChildIntent ==
    ASSUME StoreType, ChildType, NEW p \in Pids, ChildStep(p) \/ Crash(p)
    PROVE  \/ UNCHANGED intent
           \/ /\ intent'[JobOf(p)].override = proc[p].seen.override
              /\ ~intent'[JobOf(p)].pending
              /\ \A k \in Jobs \ {JobOf(p)} : intent'[k] = intent[k]
<1>1. CASE FinishWrite(p)
  <2>1. JobOf(p) \in Jobs /\ proc[p].seen \in Intent
    BY <1>1, JobType DEF FinishWrite, At, ChildType, Child
  <2>2. intent' = [intent EXCEPT ![JobOf(p)] = [proc[p].seen EXCEPT !.pending = FALSE]]
    BY <1>1 DEF FinishWrite
  <2>3. QED
    BY <2>1, <2>2 DEF StoreType, Intent
<1>2. CASE ~FinishWrite(p)
  BY <1>2 DEF ChildStep, Crash, TakeLease, ChildClaim, PrepareTree, NoteTree,
     CodexEdits, CodexEnds, RecordResult, RecordFailure, AutoPublish, PublishClaimed,
     CheckGate, Commit, Push, OpenPr, Succeed, PublishRaises, PublishFails, FinishRead
<1>3. QED
  BY <1>1, <1>2

\* A sidecar that a child has read was in the store.
LEMMA ChildSeen ==
    ASSUME ChildType, NEW p \in Pids, ChildStep(p) \/ Crash(p), proc'[p].seen.override
    PROVE  proc[p].seen.override \/ intent[JobOf(p)].override
<1>1. CASE FinishRead(p)
  <2>1. CASE Dies(p)
    BY <2>1, DiesView
  <2>2. CASE proc' = [proc EXCEPT ![p].pc = "finwrite", ![p].seen = intent[JobOf(p)]]
    BY <2>2 DEF ChildType, Child
  <2>3. QED
    BY <1>1, <2>1, <2>2 DEF FinishRead, Exit
<1>2. CASE ~FinishRead(p)
  <2>1. (\E pc : Go(p, pc)) \/ Dies(p) \/ UNCHANGED proc
    BY <1>2, LeaveView DEF ChildStep, Crash, TakeLease, ChildClaim, PrepareTree,
       NoteTree, CodexEdits, CodexEnds, RecordResult, RecordFailure, AutoPublish,
       PublishClaimed, CheckGate, Commit, Push, OpenPr, Succeed, PublishRaises,
       PublishFails, FinishWrite, Exit, child
  <2>2. QED
    BY <2>1, GoView, DiesView
<1>3. QED
  BY <1>1, <1>2

\* Only a child of a job carries an override.
LEMMA JobIfOverride ==
    ASSUME ChildType, NEW p \in Pids, proc[p].override \/ proc[p].seen.override
    PROVE  JobOf(p) \in Jobs
BY DEF ChildType, NoChild, NoIntent, JobOf

\* Whoever claims a publication was authorised, by the request or by an order,
\* however long the request waited in publication.json.
LEMMA OrdersStep ==
    ASSUME TypeOK, OrdersOK, [Next]_vars
    PROVE  OrdersOK'
<1>t. StoreType /\ WorldType /\ ChildType /\ DispType /\ HandlerType /\ GhostType
  BY DEF TypeOK
<1>1. CASE ScanOrphan
  BY <1>1, <1>t DEF ScanOrphan, OrdersOK, Authorised, ghosts
<1>2. CASE ScanRetention
  BY <1>2, <1>t DEF ScanRetention, OrdersOK, Authorised, ghosts
<1>3. CASE Choose
  BY <1>3, ChooseView, IdleView DEF Choose, OrdersOK, Authorised, ghosts, Pending
<1>4. CASE Reread
  BY <1>4, <1>t DEF Reread, OrdersOK, Authorised, ghosts
<1>5. CASE DecideHandoff
  BY <1>5, <1>t, HandoffView, SaveView, IdleView DEF DecideHandoff, OrdersOK,
     Authorised, ghosts, IsHandoff, DispType, Deciding
<1>6. CASE DecidePublishing
  BY <1>6, <1>t, PublishingView, SaveView, IdleView DEF DecidePublishing, OrdersOK,
     Authorised, ghosts, DispType, Deciding
<1>7. CASE DecideRunning
  BY <1>7, RunningView DEF DecideRunning, OrdersOK, Authorised, ghosts
<1>8. CASE DecideNothing
  BY <1>8, IdleView DEF DecideNothing, OrdersOK, Authorised, ghosts, NoPublish
<1>9. CASE DispatchUpdate
  <2>1. disp'.pc \in {"scan", "spawn"} /\ disp.job \in Jobs
    BY <1>9, <1>t, UpdateView, IdleView
  <2>2. \A k \in Jobs : man'[k].state = "publishing" => man[k].state = "publishing" \/ Authorised(k)
    <3>1. CASE Become(disp.job, To[disp.pc], None) /\ man[disp.job].state = From[disp.pc]
      <4>1. To[disp.pc] = "publishing" => disp.pc \in {"handoff", "claim"} \/ From[disp.pc] = "publishing"
        BY <1>9, Tables DEF DispatchUpdate
      <4>2. QED
        BY <1>t, <2>1, <3>1, <4>1, BecomeView DEF OrdersOK
    <3>2. QED
      BY <1>9, <3>1 DEF DispatchUpdate
  <2>3. QED
    BY <1>9, <2>1, <2>2 DEF DispatchUpdate, OrdersOK, Authorised, ghosts
<1>10. CASE DispatchStart
  <2>1. disp'.pc \in {"scan", "spawn"} /\ disp.job \in Jobs
    BY <1>10, <1>t, UpdateView, IdleView
  <2>2. \A k \in Jobs : man'[k].state = "publishing" => man[k].state = "publishing"
    BY <1>10, <1>t, <2>1, StartView DEF DispatchStart
  <2>3. QED
    BY <1>10, <2>1, <2>2 DEF DispatchStart, OrdersOK, Authorised, ghosts
<1>11. CASE Spawn
  BY <1>11, <1>t DEF Spawn, OrdersOK, Authorised, ghosts
<1>12. CASE SpawnFails
  <2>1. \A k \in Jobs : order'[k].asked = order[k].asked
    BY <1>12, <1>t DEF SpawnFails, GhostType, Order
  <2>2. disp'.pc \in {"scan", "finish"} /\ disp.job \in Jobs
    BY <1>12, <1>t, IdleView DEF SpawnFails, DispType, Dispatcher
  <2>3. UNCHANGED man \/ Become(disp.job, IF disp.task = "codex" THEN "failed" ELSE "prepared", None)
    BY <1>12 DEF SpawnFails
  <2>4. UNCHANGED <<intent, publish>>
    BY <1>12 DEF SpawnFails
  <2>5. QED
    BY <1>t, <2>1, <2>2, <2>3, <2>4, BecomeView DEF OrdersOK, Authorised, HandlerType
<1>13. CASE DispatchFinish
  BY <1>13, <1>t, FinishView, IdleView DEF DispatchFinish, OrdersOK, Authorised, ghosts,
     DispType, HandlerType
<1>14. CASE RecordPid
  BY <1>14, <1>t, BecomeView, IdleView DEF RecordPid, OrdersOK, Authorised, ghosts,
     DispType, HandlerType, NoPublish
<1>15. CASE CancelClose
  BY <1>15, <1>t, BecomeView, IdleView DEF CancelClose, OrdersOK, Authorised, ghosts,
     DispType, HandlerType, NoPublish
<1>16. CASE CancelKill
  BY <1>16, <1>t, FinishView, IdleView DEF CancelKill, OrdersOK, Authorised, ghosts,
     DispType, HandlerType
<1>17. CASE CancelStop
  BY <1>17, <1>t DEF CancelStop, OrdersOK, Authorised, ghosts
<1>18. CASE CancelSettle
  BY <1>18, <1>t, FinishView, IdleView DEF CancelSettle, OrdersOK, Authorised, ghosts,
     DispType, HandlerType
<1>19. CASE CancelRelease
  <2>1. \A k \in Jobs : order'[k].asked = order[k].asked
    BY <1>19, <1>t DEF CancelRelease, GhostType, Order
  <2>2. UNCHANGED man \/ Become(cancel.job, "prepared", None)
    BY <1>19 DEF CancelRelease
  <2>3. UNCHANGED <<intent, disp, publish>> /\ cancel.job \in Jobs
    BY <1>19, <1>t DEF CancelRelease, HandlerType
  <2>4. QED
    BY <1>t, <2>1, <2>2, <2>3, BecomeView DEF OrdersOK, Authorised, HandlerType,
       DispType
<1>20. CASE CancelFinish
  BY <1>20, <1>t, FinishView, IdleView DEF CancelFinish, OrdersOK, Authorised, ghosts,
     DispType, HandlerType
<1>21. CASE PublishClaim
  BY <1>21, <1>t, BecomeView, IdleView DEF PublishClaim, OrdersOK, Authorised, ghosts,
     DispType, HandlerType, NoPublish
<1>22. ASSUME NEW j \in Jobs, Create(j) PROVE OrdersOK'
  <2>1. \A k \in Jobs : man'[k].state = "publishing" => man[k].state = "publishing"
    BY <1>22, <1>t DEF Create, StoreType, Manifest
  <2>2. QED
    BY <1>22, <2>1 DEF Create, OrdersOK, Authorised, ghosts, loop
<1>23. ASSUME NEW j \in Jobs, CancelRead(j) PROVE OrdersOK'
  BY <1>23, <1>t DEF CancelRead, OrdersOK, Authorised, ghosts
<1>24. ASSUME NEW j \in Jobs, NEW o \in BOOLEAN, PublishRead(j, o) PROVE OrdersOK'
  <2>1. /\ order'[j].asked
        /\ \A k \in Jobs : order[k].asked => order'[k].asked
    BY <1>24, <1>t DEF PublishRead, GhostType, Order
  <2>2. disp'=disp /\ publish'.job = j /\ man' = man
    BY <1>24 DEF PublishRead
  <2>3. QED
    BY <1>24, <1>t, <2>1, <2>2, SaveView DEF PublishRead, OrdersOK, Authorised, DispType
<1>25. CASE ManagerRestart
  BY <1>25, IdleView DEF ManagerRestart, OrdersOK, Authorised, ghosts, NoPublish
<1>26. ASSUME NEW p \in Pids, ChildStep(p) \/ Crash(p) PROVE OrdersOK'
  <2>1. JobOf(p) \in Jobs /\ Touches(p, JobOf(p))
    BY <1>26, <1>t, ChildJob, ChildTouches
  <2>2. \A k \in Jobs : man'[k].state = "publishing" => man[k].state = "publishing" \/ k \in AutoJobs
    BY <2>1 DEF Touches
  <2>3. \A k \in Jobs : intent'[k].pending => intent[k].pending
    BY <1>26, <1>t, ChildIntent
  <2>4. disp' = disp /\ publish' = publish /\ \A k \in Jobs : order'[k].asked = order[k].asked
    BY <2>1 DEF Touches, loop
  <2>5. QED
    BY <1>t, <2>2, <2>3, <2>4 DEF OrdersOK, Authorised, DispType, HandlerType
<1>27. CASE UNCHANGED vars
  BY <1>27 DEF vars, OrdersOK, Authorised
<1>28. QED
  BY <1>1, <1>2, <1>3, <1>4, <1>5, <1>6, <1>7, <1>8, <1>9, <1>10, <1>11, <1>12, <1>13,
     <1>14, <1>15, <1>16, <1>17, <1>18, <1>19, <1>20, <1>21, <1>22, <1>23, <1>24, <1>25,
     <1>26, <1>27 DEF Next, Dispatch, Handlers

\* An override that reaches the dispatcher, the sidecar or a child was ordered:
\* a child that writes back the request it read cannot invent one.
LEMMA ForceStep ==
    ASSUME TypeOK, ForceOK, [Next]_vars
    PROVE  ForceOK'
<1>t. StoreType /\ WorldType /\ ChildType /\ DispType /\ HandlerType /\ GhostType
  BY DEF TypeOK
<1>1. CASE ScanOrphan
  BY <1>1, <1>t, IdleView DEF ScanOrphan, ForceOK, ghosts, child, JobOf, DispType,
     Dispatcher
<1>2. CASE ScanRetention
  BY <1>2, <1>t, IdleView DEF ScanRetention, ForceOK, ghosts, child, JobOf, DispType,
     Dispatcher
<1>3. CASE Choose
  BY <1>3, ChooseView, IdleView DEF Choose, ForceOK, ghosts, child, JobOf, Pending
<1>4. CASE Reread
  BY <1>4, <1>t, IdleView DEF Reread, ForceOK, ghosts, child, JobOf, DispType,
     Dispatcher
<1>5. CASE DecideHandoff
  BY <1>5, <1>t, HandoffView, SaveView, IdleView DEF DecideHandoff, ForceOK, ghosts,
     child, JobOf, DispType, Deciding
<1>6. CASE DecidePublishing
  BY <1>6, <1>t, PublishingView, SaveView, IdleView DEF DecidePublishing, ForceOK,
     ghosts, child, JobOf, DispType, Deciding
<1>7. CASE DecideRunning
  BY <1>7, RunningView DEF DecideRunning, ForceOK, ghosts, child, JobOf
<1>8. CASE DecideNothing
  BY <1>8, <1>t, IdleView DEF DecideNothing, ForceOK, ghosts, child, JobOf, DispType,
     Dispatcher
<1>9. CASE DispatchUpdate
  BY <1>9, <1>t, UpdateView, IdleView DEF DispatchUpdate, ForceOK, ghosts, child, JobOf
<1>10. CASE DispatchStart
  BY <1>10, <1>t, UpdateView, IdleView DEF DispatchStart, ForceOK, ghosts, child, JobOf
<1>11. CASE Spawn
  <2>1. PICK q \in Pids :
          proc' = [proc EXCEPT ![q] = [job |-> disp.job, task |-> disp.task, pc |-> "lease",
                                       override |-> disp.override, seen |-> NoIntent]]
    BY <1>11 DEF Spawn
  <2>2. /\ JobOf(q)' = disp.job /\ proc'[q].override = disp.override /\ ~proc'[q].seen.override
        /\ \A p \in Pids \ {q} : proc'[p] = proc[p]
    BY <1>t, <2>1 DEF ChildType, JobOf, NoIntent
  <2>3. disp'.override = disp.override /\ disp'.job = disp.job
    BY <1>11, <1>t DEF Spawn, DispType, Dispatcher
  <2>4. QED
    BY <1>11, <2>2, <2>3 DEF Spawn, ForceOK, ghosts, JobOf
<1>12. CASE SpawnFails
  <2>1. \A k \in Jobs : order'[k].forced = order[k].forced
    BY <1>12, <1>t DEF SpawnFails, GhostType, Order
  <2>2. disp' = Scanning \/ (disp'.override = disp.override /\ disp'.job = disp.job)
    BY <1>12, <1>t DEF SpawnFails, DispType, Dispatcher
  <2>3. QED
    BY <1>12, <1>t, <2>1, <2>2, IdleView, JobIfOverride DEF SpawnFails, ForceOK, child,
       JobOf
<1>13. CASE DispatchFinish
  BY <1>13, <1>t, FinishView, IdleView DEF DispatchFinish, ForceOK, ghosts, child,
     JobOf, DispType, HandlerType
<1>14. CASE RecordPid
  BY <1>14, IdleView DEF RecordPid, ForceOK, ghosts, child, loop, JobOf
<1>15. CASE CancelClose
  BY <1>15, IdleView DEF CancelClose, ForceOK, ghosts, child, loop, JobOf
<1>16. CASE CancelKill
  <2>1. \A q \in Pids : proc'[q] = proc[q] \/ (~proc'[q].override /\ ~proc'[q].seen.override)
    BY <1>16, <1>t, DiesView DEF CancelKill, TerminateGroup, Live, child
  <2>2. \A k \in Jobs : intent'[k].override = intent[k].override
    BY <1>16, <1>t, FinishView DEF CancelKill, HandlerType
  <2>3. QED
    BY <1>16, <2>1, <2>2 DEF CancelKill, ForceOK, ghosts, JobOf
<1>17. CASE CancelStop
  <2>1. \A q \in Pids : proc'[q] = proc[q] \/ (~proc'[q].override /\ ~proc'[q].seen.override)
    BY <1>17, <1>t, DiesView DEF CancelStop, TerminateGroup, Live, child
  <2>2. QED
    BY <1>17, <2>1 DEF CancelStop, ForceOK, ghosts, JobOf
<1>18. CASE CancelSettle
  BY <1>18, <1>t, FinishView, IdleView DEF CancelSettle, ForceOK, ghosts, child, JobOf,
     DispType, HandlerType
<1>19. CASE CancelRelease
  <2>1. \A k \in Jobs : order'[k].forced = order[k].forced
    BY <1>19, <1>t DEF CancelRelease, GhostType, Order
  <2>2. UNCHANGED <<intent, disp, proc>>
    BY <1>19 DEF CancelRelease, child
  <2>3. QED
    BY <1>t, <2>1, <2>2, JobIfOverride DEF ForceOK, JobOf, DispType
<1>20. CASE CancelFinish
  BY <1>20, <1>t, FinishView, IdleView DEF CancelFinish, ForceOK, ghosts, child, JobOf,
     DispType, HandlerType
<1>21. CASE PublishClaim
  BY <1>21, IdleView DEF PublishClaim, ForceOK, ghosts, child, loop, JobOf
<1>22. ASSUME NEW j \in Jobs, Create(j) PROVE ForceOK'
  BY <1>22, IdleView DEF Create, ForceOK, ghosts, child, loop, JobOf
<1>23. ASSUME NEW j \in Jobs, CancelRead(j) PROVE ForceOK'
  BY <1>23, IdleView DEF CancelRead, ForceOK, ghosts, child, loop, JobOf
<1>24. ASSUME NEW j \in Jobs, NEW o \in BOOLEAN, PublishRead(j, o) PROVE ForceOK'
  <2>1. /\ o => order'[j].forced
        /\ \A k \in Jobs : order[k].forced => order'[k].forced
    BY <1>24, <1>t DEF PublishRead, GhostType, Order
  <2>2. /\ intent'[j].override = o
        /\ \A k \in Jobs \ {j} : intent'[k] = intent[k]
    BY <1>24, <1>t, SaveView DEF PublishRead
  <2>3. QED
    BY <1>24, <1>t, <2>1, <2>2, JobIfOverride DEF PublishRead, ForceOK, child, JobOf
<1>25. CASE ManagerRestart
  BY <1>25, <1>t, IdleView DEF ManagerRestart, ForceOK, ghosts, child, JobOf, DispType,
     Dispatcher
<1>26. ASSUME NEW p \in Pids, ChildStep(p) \/ Crash(p) PROVE ForceOK'
  <2>1. JobOf(p) \in Jobs /\ Touches(p, JobOf(p))
    BY <1>26, <1>t, ChildJob, ChildTouches
  <2>2. \A k \in Jobs : order'[k].forced = order[k].forced
    BY <2>1 DEF Touches
  <2>3. \A k \in Jobs : intent'[k].override => order'[k].forced
    BY <1>26, <1>t, <2>1, <2>2, ChildIntent DEF ForceOK
  <2>4. disp'.override => disp'.pc \notin {"scan", "rescan"} /\ order'[disp'.job].forced
    BY <1>t, <2>1, <2>2 DEF Touches, loop, ForceOK, DispType
  <2>5. \A q \in Pids : proc'[q].override \/ proc'[q].seen.override => order'[JobOf(q)'].forced
    <3>1. \A q \in Pids \ {p} : proc'[q] = proc[q] /\ JobOf(q)' = JobOf(q)
      BY <2>1 DEF Touches, JobOf
    <3>2. proc'[p] = NoChild \/ JobOf(p)' = JobOf(p)
      BY <2>1 DEF Touches
    <3>3. proc'[p].override \/ proc'[p].seen.override => order'[JobOf(p)'].forced
      BY <1>26, <1>t, <2>1, <2>2, <3>2, ChildSeen DEF Touches, ForceOK, NoChild,
         NoIntent
    <3>4. QED
      BY <1>t, <2>2, <3>1, <3>3, JobIfOverride DEF ForceOK
  <2>6. QED
    BY <2>3, <2>4, <2>5 DEF ForceOK
<1>27. CASE UNCHANGED vars
  BY <1>27 DEF vars, ForceOK, JobOf
<1>28. QED
  BY <1>1, <1>2, <1>3, <1>4, <1>5, <1>6, <1>7, <1>8, <1>9, <1>10, <1>11, <1>12, <1>13,
     <1>14, <1>15, <1>16, <1>17, <1>18, <1>19, <1>20, <1>21, <1>22, <1>23, <1>24, <1>25,
     <1>26, <1>27 DEF Next, Dispatch, Handlers

\* The steps of a child take the lease, keep it or give it back.
LEMMA ChildLease ==
    ASSUME ChildType, NEW p \in Pids, ChildStep(p) \/ Crash(p)
    PROVE  \/ TakeLease(p)
           \/ /\ proc[p].pc \notin {"dead", "lease"}
              /\ JobOf(p)' = JobOf(p)
              /\ \A q \in Pids \ {p} : proc'[q] = proc[q]
              /\ UNCHANGED lease
           \/ Dies(p)
<1>1. CASE FinishRead(p)
  BY <1>1 DEF FinishRead, Exit, At, ChildType, Child, JobOf
<1>2. CASE ~FinishRead(p) /\ ~TakeLease(p) /\ ~Crash(p)
  <2>1. proc[p].pc \notin {"dead", "lease"}
    BY <1>2 DEF ChildStep, ChildClaim, PrepareTree, NoteTree, CodexEdits, CodexEnds,
       RecordResult, RecordFailure, AutoPublish, PublishClaimed, CheckGate, Commit,
       Push, OpenPr, Succeed, PublishRaises, PublishFails, FinishWrite, At, PublishPc
  <2>2. ((\E pc : Go(p, pc)) /\ UNCHANGED lease) \/ Dies(p) \/ UNCHANGED child
    BY <1>2, LeaveView DEF ChildStep, ChildClaim, PrepareTree, NoteTree, CodexEdits,
       CodexEnds, RecordResult, RecordFailure, AutoPublish, PublishClaimed, CheckGate,
       Commit, Push, OpenPr, Succeed, PublishRaises, PublishFails, FinishWrite, Exit,
       child
  <2>3. QED
    BY <2>1, <2>2, GoView DEF child, JobOf
<1>3. QED
  BY <1>1, <1>2 DEF Crash

\* job_lease: a child past the lease holds it until it dies, whoever kills it.
LEMMA LeaseStep ==
    ASSUME TypeOK, LeaseHeld, [Next]_vars
    PROVE  LeaseHeld'
<1>t. ChildType /\ DispType /\ HandlerType
  BY DEF TypeOK
<1>1. ASSUME NEW p \in Pids, Dies(p) PROVE LeaseHeld'
  BY <1>1, <1>t, DiesView, JobType DEF LeaseHeld, JobOf, NoChild
<1>2. CASE UNCHANGED child
  BY <1>2 DEF child, LeaseHeld, JobOf
<1>3. CASE Spawn
  <2>1. PICK q \in Pids :
          /\ proc[q].pc = "dead"
          /\ proc' = [proc EXCEPT ![q] = [job |-> disp.job, task |-> disp.task, pc |-> "lease",
                                          override |-> disp.override, seen |-> NoIntent]]
    BY <1>3 DEF Spawn
  <2>2. proc'[q].pc = "lease" /\ \A p \in Pids \ {q} : proc'[p] = proc[p]
    BY <1>t, <2>1 DEF ChildType
  <2>3. QED
    BY <1>3, <2>2 DEF Spawn, LeaseHeld, JobOf
<1>4. CASE CancelKill \/ CancelStop
  BY <1>1, <1>2, <1>4 DEF CancelKill, CancelStop, TerminateGroup, Live
<1>5. ASSUME NEW p \in Pids, ChildStep(p) \/ Crash(p) PROVE LeaseHeld'
  <2>1. CASE TakeLease(p)
    <3>1. /\ JobOf(p)' = JobOf(p) /\ JobOf(p) \in Jobs
          /\ \A q \in Pids \ {p} : proc'[q] = proc[q]
      BY <1>t, <2>1, GoView, JobType DEF TakeLease, At
    <3>2. lease[JobOf(p)] = None /\ lease' = [lease EXCEPT ![JobOf(p)] = p]
      BY <2>1 DEF TakeLease, LeaseFree
    <3>3. \A q \in Pids \ {p} : proc[q].pc \notin {"dead", "lease"} => JobOf(q) # JobOf(p)
      BY <3>2, NoneAssumption DEF LeaseHeld
    <3>4. QED
      BY <1>t, <3>1, <3>2, <3>3, JobType DEF LeaseHeld, ChildType, JobOf
  <2>2. CASE ~TakeLease(p) /\ ~Dies(p)
    BY <1>5, <1>t, <2>2, ChildLease DEF LeaseHeld, JobOf
  <2>3. QED
    BY <1>1, <2>1, <2>2
<1>6. CASE UNCHANGED vars
  BY <1>2, <1>6 DEF vars, child
<1>7. Next => \/ Spawn \/ CancelKill \/ CancelStop \/ UNCHANGED child
              \/ \E p \in Pids : ChildStep(p) \/ Crash(p)
  BY DEF Next, Dispatch, Handlers, ScanOrphan, ScanRetention, Choose, Reread,
     DecideHandoff, DecidePublishing, DecideRunning, DecideNothing, DispatchUpdate,
     DispatchStart, SpawnFails, DispatchFinish, RecordPid, CancelClose, CancelSettle,
     CancelRelease, CancelFinish, PublishClaim, Create, CancelRead, PublishRead,
     ManagerRestart
<1>8. QED
  BY <1>2, <1>3, <1>4, <1>5, <1>6, <1>7

\* A child is only found publishing over a claim it just checked, or as before.
LEMMA ChildPublishes ==
    ASSUME StoreType, ChildType, NEW p \in Pids, ChildStep(p) \/ Crash(p), proc'[p].pc \in PublishPc
    PROVE  \/ man'[JobOf(p)].state = "publishing"
           \/ proc[p].pc \in PublishPc /\ UNCHANGED man
<1>0. JobOf(p) \in Jobs
  BY ChildJob
<1>1. CASE PublishClaimed(p) /\ Publishable(p)
  BY <1>0, <1>1, BecomeView DEF PublishClaimed
<1>2. CASE CheckGate(p)
  BY <1>0, <1>2 DEF CheckGate, StoreType, Manifest
<1>3. CASE Commit(p) \/ Push(p) \/ OpenPr(p)
  BY <1>3 DEF Commit, Push, OpenPr, At, PublishPc
<1>4. ~(\E pc : Go(p, pc) /\ pc \notin PublishPc) /\ ~Dies(p)
  BY GoView, DiesView DEF PublishPc, NoChild
<1>5. ~Leave(p)
  BY <1>4, LeaveView DEF PublishPc
<1>6. ~UNCHANGED child \/ ~CodexEdits(p)
  BY DEF child, CodexEdits, At, PublishPc
<1>7. ~FinishRead(p)
  BY <1>4 DEF FinishRead, Exit, ChildType, Child, PublishPc
<1>8. Go(p, "claim") \/ Go(p, "pubclaim") \/ Go(p, "prepare") \/ Go(p, "after") \/ Go(p, "note")
      \/ Go(p, "fail") \/ Go(p, "editing") \/ Go(p, "result") \/ Go(p, "pubfail") => FALSE
  BY <1>4 DEF PublishPc
<1>9. QED
  BY <1>1, <1>2, <1>3, <1>4, <1>5, <1>6, <1>7, <1>8 DEF ChildStep, Crash, TakeLease,
     ChildClaim, PrepareTree, NoteTree, CodexEdits, CodexEnds, RecordResult,
     RecordFailure, AutoPublish, PublishClaimed, Succeed, PublishRaises, PublishFails,
     FinishWrite, Exit, child

\* Between the read and the update of a cancelled hand-off the event loop runs
\* nothing else, and a child can only have claimed the publication.
LEMMA CancelStep ==
    ASSUME TypeOK, LeaseHeld, JobsOK, CancelOK, [Next]_vars
    PROVE  CancelOK'
<1>t. StoreType /\ WorldType /\ ChildType /\ DispType /\ HandlerType /\ GhostType
  BY DEF TypeOK
<1>1. SUFFICES ASSUME cancel'.pc = "handoff" PROVE CancelOK'
  BY DEF CancelOK
<1>2. CASE cancel.pc # "handoff"
  <2>1. PICK j \in Jobs : CancelRead(j)
    <3>1. ~UNCHANGED cancel /\ cancel' # NoCancel
      BY <1>1, <1>2 DEF NoCancel
    <3>2. ~Dispatch
      BY <3>1 DEF Dispatch, ScanOrphan, ScanRetention, Choose, Reread, DecideHandoff,
         DecidePublishing, DecideRunning, DecideNothing, DispatchUpdate, DispatchStart,
         Spawn, SpawnFails, DispatchFinish, RecordPid
    <3>3. ~CancelStop /\ ~CancelClose /\ ~CancelRelease /\ ~CancelSettle
      BY <1>1, <1>t, <3>1 DEF CancelStop, CancelClose, CancelRelease, CancelSettle,
         HandlerType, Canceller
    <3>4. ~Handlers
      BY <3>1, <3>3 DEF Handlers, CancelKill, CancelFinish, PublishClaim
    <3>5. ASSUME NEW p \in Pids, ChildStep(p) \/ Crash(p) PROVE FALSE
      BY <1>t, <3>1, <3>5, ChildJob, ChildTouches DEF Touches, loop
    <3>6. QED
      BY <3>1, <3>2, <3>4, <3>5 DEF Next, vars, Create, PublishRead, ManagerRestart,
         loop
  <2>2. cancel'.job = j /\ UNCHANGED <<man, child, disp, publish>> /\ LoopFree
    BY <2>1 DEF CancelRead
  <2>3. man[j].state = "prepared" /\ IsHandoff(j, man[j])
    BY <1>1, <1>t, <2>1 DEF CancelRead, StoreType, Manifest, States, IsHandoff
  <2>4. \A p \in Pids : JobOf(p) = j => proc[p].pc \notin PublishPc
    BY <2>3 DEF JobsOK, JobOK, IsHandoff
  <2>5. QED
    BY <2>2, <2>3, <2>4 DEF CancelOK, LoopFree, IsHandoff, child, JobOf
<1>3. CASE cancel.pc = "handoff"
  <2>1. /\ disp.pc \in {"scan", "rescan", "reread", "cleanup"} /\ publish.pc = "idle"
        /\ cancel.job \in AutoJobs /\ cancel.job \in Jobs /\ ~LoopFree
    BY <1>3, <1>t, JobsAssumption DEF CancelOK, LoopFree
  <2>2. CASE UNCHANGED <<man, proc, loop>>
    BY <1>3, <2>2 DEF CancelOK, loop, JobOf
  <2>3. CASE \E p \in Pids : ChildStep(p) \/ Crash(p)
    <3>1. PICK p \in Pids : ChildStep(p) \/ Crash(p)
      BY <2>3
    <3>2. JobOf(p) \in Jobs /\ Touches(p, JobOf(p))
      BY <3>1, <1>t, ChildJob, ChildTouches
    <3>3. ASSUME NEW q \in Pids, JobOf(q)' = cancel.job, proc'[q].pc \in PublishPc
          PROVE  man'[cancel.job].state = "publishing"
      <4>1. CASE q = p
        <5>1. JobOf(p) = cancel.job
          BY <3>2, <3>3, <4>1 DEF Touches, NoChild, PublishPc
        <5>2. QED
          BY <1>3, <1>t, <3>1, <3>3, <4>1, <5>1, ChildPublishes DEF CancelOK
      <4>2. CASE q # p
        <5>1. proc'[q] = proc[q] /\ JobOf(q) = cancel.job
          BY <3>2, <3>3, <4>2 DEF Touches, JobOf
        <5>2. man[cancel.job].state = "publishing"
          BY <1>3, <3>3, <5>1 DEF CancelOK
        <5>3. JobOf(p) = cancel.job => UNCHANGED man
          <6>1. proc[q].pc \notin {"dead", "lease"}
            BY <3>3, <5>1 DEF PublishPc
          <6>2. JobOf(p) = cancel.job => proc[p].pc \in {"dead", "lease"}
            BY <4>2, <5>1, <6>1, Alone
          <6>3. QED
            BY <3>1, <6>2 DEF ChildStep, ChildClaim, PrepareTree, NoteTree, CodexEdits,
               CodexEnds, RecordResult, RecordFailure, AutoPublish, PublishClaimed,
               CheckGate, Commit, Push, OpenPr, Succeed, PublishRaises, PublishFails,
               FinishWrite, FinishRead, At, PublishPc, TakeLease, Crash
        <5>4. QED
          BY <2>1, <3>2, <5>2, <5>3 DEF Touches
      <4>3. QED
        BY <4>1, <4>2
    <3>4. QED
      BY <1>3, <2>1, <3>2, <3>3 DEF CancelOK, Touches, loop
  <2>4. Next => \E p \in Pids : ChildStep(p) \/ Crash(p)
    <3>1. ~Dispatch
      BY <2>1 DEF Dispatch, ScanOrphan, ScanRetention, Choose, Reread, DecideHandoff,
         DecidePublishing, DecideRunning, DecideNothing, Deciding, DispatchUpdate,
         DispatchStart, Spawn, SpawnFails, DispatchFinish, RecordPid, From
    <3>2. ~CancelClose
      BY <1>1, <1>3, <1>t DEF CancelClose, HandlerType, Canceller, NoCancel
    <3>3. ~Handlers
      BY <1>3, <2>1, <3>2 DEF Handlers, CancelKill, CancelStop, CancelSettle,
         CancelRelease, CancelFinish, PublishClaim
    <3>4. ~ManagerRestart
      BY <1>1 DEF ManagerRestart, NoCancel
    <3>5. QED
      BY <2>1, <3>1, <3>3, <3>4 DEF Next, Create, CancelRead, PublishRead
  <2>5. QED
    BY <2>2, <2>3, <2>4 DEF vars, loop
<1>4. QED
  BY <1>2, <1>3

\* The ways a manifest moves while the children of its job go on.
Edit(k) ==
    /\ man'[k].blocked = man[k].blocked
    /\ \/ man'[k].state = man[k].state /\ man'[k].pid = man[k].pid
       \/ /\ man[k].state \in {"absent", "queued", "running"}
          /\ man'[k].state \in {"queued", "running", "failed", "cancelled"}
       \/ man[k].state \in {"prepared", "publishing"} /\ man'[k].state = "publishing"
       \/ man[k].state = "publishing" /\ man'[k].state = "prepared" /\ man'[k].pid = None
       \/ /\ man[k].state = "prepared" /\ man'[k].state = "cancelled" /\ k \in AutoJobs
          /\ \A q \in Pids : JobOf(q) = k => proc[q].pc \notin PublishPc

\* A step that neither moves a working child nor what such a child relies on.
Quiet ==
    /\ UNCHANGED world
    /\ \A k \in Jobs : Edit(k)
    /\ \A k \in Jobs : Authorised(k) => Authorised(k)'
    /\ \A k \in Jobs : order[k].forced => order'[k].forced
    /\ \A q \in Pids : proc'[q] = proc[q] \/ ~Working(q)'

\* A quiet step keeps what every child and every job relies on.
LEMMA QuietKeeps ==
    ASSUME ChildType, ChildrenOK, JobsOK, Quiet
    PROVE  ChildrenOK' /\ JobsOK'
<1> USE DEF Quiet
<1>1. ASSUME NEW q \in Pids PROVE ChildOK(q)'
  <2>1. CASE ~Working(q)'
    BY <2>1 DEF Working, ChildOK
  <2>2. CASE proc'[q] = proc[q] /\ proc[q].pc \in CodexPc
    <3>1. JobOf(q) \in Jobs /\ JobOf(q)' = JobOf(q)
      BY <2>2, JobType DEF CodexPc, JobOf
    <3>2. CodexChild(q)
      BY <2>2 DEF ChildrenOK, ChildOK
    <3>3. CodexChild(q)'
      BY <2>2, <3>1, <3>2 DEF CodexChild, Edit, world
    <3>4. QED
      BY <2>2, <3>3 DEF ChildOK, CodexPc, PublishPc
  <2>3. CASE proc'[q] = proc[q] /\ proc[q].pc \in PublishPc
    <3>1. JobOf(q) \in Jobs /\ JobOf(q)' = JobOf(q)
      BY <2>3, JobType DEF PublishPc, JobOf
    <3>2. PublishChild(q)
      BY <2>3 DEF ChildrenOK, ChildOK
    <3>3. PublishChild(q)'
      BY <2>3, <3>1, <3>2 DEF PublishChild, Edit, world, GateOpen
    <3>4. QED
      BY <2>3, <3>3 DEF ChildOK, CodexPc, PublishPc
  <2>4. QED
    BY <2>1, <2>2, <2>3 DEF Working
<1>2. ASSUME NEW k \in Jobs PROVE JobOK(k)'
  <2>1. JobOK(k) /\ Edit(k) /\ (Authorised(k) => Authorised(k)')
    BY DEF JobsOK
  <2>2. \A q \in Pids : JobOf(q)' = k /\ proc'[q].pc \in PublishPc
                        => JobOf(q) = k /\ proc[q].pc \in PublishPc
    BY DEF JobOf, Working
  <2>3. QED
    BY <2>1, <2>2 DEF JobOK, Edit, world
<1>3. QED
  BY <1>1, <1>2 DEF ChildrenOK, JobsOK

\* What the next steps of the other children may rely on is not disturbed by a
\* child that holds the lease of its own job.
LEMMA OthersKeep ==
    ASSUME ChildType, LeaseHeld, ChildrenOK, JobsOK, NEW p \in Pids, NEW j \in Jobs,
           JobOf(p) = j, proc[p].pc \notin {"dead", "lease"}, Touches(p, j),
           ChildOK(p)', JobOK(j)'
    PROVE  ChildrenOK' /\ JobsOK'
<1>1. \A q \in Pids \ {p} : proc'[q] = proc[q] /\ JobOf(q)' = JobOf(q)
  BY DEF Touches, JobOf
<1>2. \A k \in Jobs : Authorised(k)' = Authorised(k) /\ order'[k].forced = order[k].forced
  BY DEF Touches, Authorised
<1>3. ASSUME NEW q \in Pids \ {p} PROVE ChildOK(q)'
  <2>1. CASE ~Working(q)
    BY <1>1, <2>1 DEF Working, ChildOK
  <2>2. CASE Working(q)
    <3>1. JobOf(q) \in Jobs \ {j}
      BY <2>2, JobType, Alone DEF Working, CodexPc, PublishPc
    <3>2. ChildOK(q) /\ JobOf(q)' = JobOf(q) /\ proc'[q] = proc[q]
      BY <1>1 DEF ChildrenOK
    <3>3. QED
      BY <1>2, <3>1, <3>2 DEF ChildOK, CodexChild, PublishChild, Touches
  <2>3. QED
    BY <2>1, <2>2
<1>4. ASSUME NEW k \in Jobs \ {j} PROVE JobOK(k)'
  <2>1. \A q \in Pids : JobOf(q)' = k => JobOf(q) = k /\ proc'[q] = proc[q]
    BY <1>1, NoneAssumption DEF Touches, NoChild, JobOf
  <2>2. JobOK(k)
    BY DEF JobsOK
  <2>3. QED
    BY <1>2, <2>1, <2>2 DEF JobOK, Touches
<1>5. QED
  BY <1>3, <1>4 DEF ChildrenOK, JobsOK

\* The legal updates of one manifest are edits.
LEMMA BecomeEdits ==
    ASSUME StoreType, NEW j \in Jobs, NEW s, NEW p, Become(j, s, p),
           \/ /\ man[j].state \in {"absent", "queued", "running"}
              /\ s \in {"queued", "running", "failed", "cancelled"}
           \/ man[j].state \in {"prepared", "publishing"} /\ s = "publishing"
           \/ man[j].state = "publishing" /\ s = "prepared" /\ p = None
    PROVE  \A k \in Jobs : Edit(k)
BY BecomeView DEF Edit

\* So is none at all.
LEMMA SameEdits ==
    ASSUME UNCHANGED man PROVE \A k \in Jobs : Edit(k)
BY DEF Edit

\* The manager never pulls a job from under a working child: its updates expect
\* a state that such a child does not need, or leave the child what it needs.
LEMMA ManagerQuiet ==
    ASSUME TypeOK, LeaseHeld, OrdersOK, CancelOK,
           Dispatch \/ Handlers \/ ManagerRestart
             \/ (\E j \in Jobs : Create(j) \/ CancelRead(j))
             \/ (\E j \in Jobs, o \in BOOLEAN : PublishRead(j, o))
    PROVE  Quiet
<1>t. StoreType /\ WorldType /\ ChildType /\ DispType /\ HandlerType /\ GhostType
  BY DEF TypeOK
<1>0. CASE UNCHANGED <<man, world, child, order>>
  BY <1>0, SameEdits DEF Quiet, child, Authorised
<1>1. CASE ScanOrphan \/ ScanRetention \/ Choose \/ Reread
  BY <1>0, <1>1 DEF ScanOrphan, ScanRetention, Choose, Reread, ghosts
<1>2. CASE DecideHandoff \/ DecidePublishing \/ DecideRunning \/ DecideNothing
  BY <1>0, <1>2 DEF DecideHandoff, DecidePublishing, DecideRunning, DecideNothing,
     ghosts
<1>3. CASE DispatchUpdate
  <2>1. UNCHANGED <<world, child, order>> /\ disp.job \in Jobs
    BY <1>3, <1>t, UpdateView DEF DispatchUpdate, ghosts
  <2>2. CASE man[disp.job].state = From[disp.pc] /\ Become(disp.job, To[disp.pc], None)
    <3>1. \/ From[disp.pc] = "running" /\ To[disp.pc] \in {"queued", "failed"}
          \/ From[disp.pc] \in {"prepared", "publishing"} /\ To[disp.pc] = "publishing"
          \/ From[disp.pc] = "publishing" /\ To[disp.pc] = "prepared"
      BY <1>3, Tables DEF DispatchUpdate
    <3>2. \A k \in Jobs : Edit(k)
      BY <1>t, <2>1, <2>2, <3>1, BecomeEdits
    <3>3. QED
      BY <2>1, <3>2 DEF Quiet, child, Authorised
  <2>3. QED
    BY <1>0, <1>3, <2>1, <2>2 DEF DispatchUpdate
<1>4. CASE DispatchStart
  <2>1. UNCHANGED <<world, child, order>> /\ disp.job \in Jobs
    BY <1>4, <1>t, UpdateView DEF DispatchStart, ghosts
  <2>2. CASE man[disp.job].state = "queued"
    <3>1. man'[disp.job].state = "running" /\ man'[disp.job].blocked = man[disp.job].blocked
      BY <1>4, <1>t, <2>1, <2>2 DEF DispatchStart, StoreType, Manifest
    <3>2. \A k \in Jobs \ {disp.job} : man'[k] = man[k]
      BY <1>4, <1>t, <2>1, <2>2, StartView DEF DispatchStart
    <3>3. \A k \in Jobs : Edit(k)
      BY <2>2, <3>1, <3>2 DEF Edit
    <3>4. QED
      BY <2>1, <3>3 DEF Quiet, child, Authorised
  <2>3. QED
    BY <1>0, <1>4, <2>1, <2>2 DEF DispatchStart
<1>5. CASE Spawn
  <2>1. PICK q \in Pids :
          proc' = [proc EXCEPT ![q] = [job |-> disp.job, task |-> disp.task, pc |-> "lease",
                                       override |-> disp.override, seen |-> NoIntent]]
    BY <1>5 DEF Spawn
  <2>2. proc'[q].pc = "lease" /\ \A p \in Pids \ {q} : proc'[p] = proc[p]
    BY <1>t, <2>1 DEF ChildType
  <2>3. \A p \in Pids : proc'[p] = proc[p] \/ ~Working(p)'
    BY <2>2 DEF Working, CodexPc, PublishPc
  <2>4. UNCHANGED <<man, world, order>>
    BY <1>5 DEF Spawn, ghosts
  <2>5. QED
    BY <2>3, <2>4, SameEdits DEF Quiet, Authorised
<1>6. CASE SpawnFails
  <2>1. disp.job \in Jobs /\ UNCHANGED <<world, child>>
    BY <1>6, <1>t DEF SpawnFails, DispType
  <2>2. \A k \in Jobs : order'[k].asked = order[k].asked /\ order'[k].forced = order[k].forced
    BY <1>6, <1>t DEF SpawnFails, GhostType, Order
  <2>3. \/ UNCHANGED man
        \/ man[disp.job].state = "running" /\ Become(disp.job, "failed", None)
        \/ man[disp.job].state = "publishing" /\ Become(disp.job, "prepared", None)
    BY <1>6 DEF SpawnFails, Launched
  <2>4. \A k \in Jobs : Edit(k)
    BY <1>t, <2>1, <2>3, BecomeEdits, SameEdits
  <2>5. QED
    BY <2>1, <2>2, <2>4 DEF Quiet, child, Authorised
<1>7. CASE DispatchFinish
  BY <1>0, <1>7 DEF DispatchFinish, ghosts
<1>8. CASE RecordPid
  <2>1. disp.job \in Jobs /\ UNCHANGED <<world, child, order>>
    BY <1>8, <1>t DEF RecordPid, DispType, ghosts
  <2>2. \/ UNCHANGED man
        \/ man[disp.job].state = "running" /\ Become(disp.job, "running", disp.pid)
        \/ man[disp.job].state = "publishing" /\ Become(disp.job, "publishing", disp.pid)
    BY <1>8 DEF RecordPid, Launched
  <2>3. \A k \in Jobs : Edit(k)
    BY <1>t, <2>1, <2>2, BecomeEdits, SameEdits
  <2>4. QED
    BY <2>1, <2>3 DEF Quiet, child, Authorised
<1>9. CASE CancelClose
  <2>1. cancel.job \in Jobs /\ UNCHANGED <<world, child, order>>
    BY <1>9, <1>t DEF CancelClose, HandlerType, ghosts
  <2>2. CASE man[cancel.job].state \in {"queued", "running"} /\ Become(cancel.job, "cancelled", None)
    <3>1. \A k \in Jobs : Edit(k)
      BY <1>t, <2>1, <2>2, BecomeEdits
    <3>2. QED
      BY <2>1, <3>1 DEF Quiet, child, Authorised
  <2>3. CASE /\ cancel.pc = "handoff" /\ man[cancel.job].state = "prepared"
             /\ Become(cancel.job, "cancelled", None)
    <3>1. /\ cancel.job \in AutoJobs
          /\ \A q \in Pids : JobOf(q) = cancel.job => proc[q].pc \notin PublishPc
      BY <2>3 DEF CancelOK
    <3>2. \A k \in Jobs : Edit(k)
      BY <1>t, <2>1, <2>3, <3>1, BecomeView DEF Edit
    <3>3. QED
      BY <2>1, <3>2 DEF Quiet, child, Authorised
  <2>4. QED
    BY <1>0, <1>9, <2>1, <2>2, <2>3 DEF CancelClose
<1>10. CASE CancelKill \/ CancelStop
  <2>1. UNCHANGED <<man, world, order>>
    BY <1>10 DEF CancelKill, CancelStop, ghosts
  <2>2. \A q \in Pids : proc'[q] = proc[q] \/ ~Working(q)'
    BY <1>10, <1>t, DiesView DEF CancelKill, CancelStop, TerminateGroup, Live, child,
       Working, NoChild, CodexPc, PublishPc
  <2>3. QED
    BY <2>1, <2>2, SameEdits DEF Quiet, Authorised
<1>11. CASE CancelSettle \/ CancelFinish
  BY <1>0, <1>11 DEF CancelSettle, CancelFinish, ghosts
<1>12. CASE CancelRelease
  <2>1. cancel.job \in Jobs /\ UNCHANGED <<world, child>>
    BY <1>12, <1>t DEF CancelRelease, HandlerType
  <2>2. \A k \in Jobs : order'[k].asked = order[k].asked /\ order'[k].forced = order[k].forced
    BY <1>12, <1>t DEF CancelRelease, GhostType, Order
  <2>3. \/ UNCHANGED man
        \/ man[cancel.job].state = "publishing" /\ Become(cancel.job, "prepared", None)
    BY <1>12 DEF CancelRelease
  <2>4. \A k \in Jobs : Edit(k)
    BY <1>t, <2>1, <2>3, BecomeEdits, SameEdits
  <2>5. QED
    BY <2>1, <2>2, <2>4 DEF Quiet, child, Authorised
<1>13. CASE PublishClaim
  <2>1. publish.job \in Jobs /\ UNCHANGED <<world, child, order>>
    BY <1>13, <1>t DEF PublishClaim, HandlerType, ghosts
  <2>2. \A k \in Jobs : Edit(k)
    BY <1>13, <1>t, <2>1, BecomeEdits, SameEdits DEF PublishClaim
  <2>3. QED
    BY <2>1, <2>2 DEF Quiet, child, Authorised
<1>14. CASE ManagerRestart
  BY <1>0, <1>14 DEF ManagerRestart
<1>15. ASSUME NEW j \in Jobs, Create(j) PROVE Quiet
  <2>1. UNCHANGED <<world, child, order>>
    BY <1>15 DEF Create, ghosts
  <2>2. \A k \in Jobs : Edit(k)
    BY <1>15, <1>t DEF Create, Edit, StoreType, Manifest
  <2>3. QED
    BY <2>1, <2>2 DEF Quiet, child, Authorised
<1>16. ASSUME NEW j \in Jobs, CancelRead(j) PROVE Quiet
  BY <1>0, <1>16 DEF CancelRead, ghosts
<1>17. ASSUME NEW j \in Jobs, NEW o \in BOOLEAN, PublishRead(j, o) PROVE Quiet
  <2>1. UNCHANGED <<man, world, child>>
    BY <1>17 DEF PublishRead
  <2>2. \A k \in Jobs : /\ order[k].asked => order'[k].asked
                        /\ order[k].forced => order'[k].forced
    BY <1>17, <1>t DEF PublishRead, GhostType, Order
  <2>3. \A k \in Jobs : Authorised(k) => Authorised(k)'
    BY <2>2 DEF Authorised
  <2>4. QED
    BY <2>1, <2>2, <2>3, SameEdits DEF Quiet, child
<1>18. QED
  BY <1>1, <1>2, <1>3, <1>4, <1>5, <1>6, <1>7, <1>8, <1>9, <1>10, <1>11, <1>12, <1>13,
     <1>14, <1>15, <1>16, <1>17 DEF Dispatch, Handlers

\* A child that stops working, or does not work yet, may only edit the manifest.
LEMMA RestQuiet ==
    ASSUME ChildType, NEW p \in Pids, NEW j \in Jobs, Touches(p, j), UNCHANGED world,
           \A k \in Jobs : Edit(k), ~Working(p)'
    PROVE  Quiet
BY DEF Touches, Quiet, Authorised

LEMMA Elsewhere ==
    ASSUME NEW p \in Pids, NEW pc \in {"claim", "pubclaim", "after", "fail", "pubfail", "finread"},
           ChildType, Go(p, pc) \/ Dies(p)
    PROVE  ~Working(p)'
BY GoView, DiesView DEF Working, CodexPc, PublishPc, NoChild

\* A step of a child keeps what it and the other children rely on.
LEMMA ChildKeeps ==
    ASSUME TypeOK, LeaseHeld, ChildrenOK, JobsOK, OrdersOK, ForceOK,
           NEW p \in Pids, ChildStep(p) \/ Crash(p)
    PROVE  ChildrenOK' /\ JobsOK'
<1>t. StoreType /\ WorldType /\ ChildType /\ DispType /\ HandlerType /\ GhostType
  BY DEF TypeOK
<1> SUFFICES ASSUME NEW j \in Jobs, j = JobOf(p) PROVE ChildrenOK' /\ JobsOK'
  BY <1>t, ChildJob
<1>j. j \in Jobs /\ Touches(p, j)
  BY <1>t, ChildTouches
<1>o. JobOK(j) /\ ChildOK(p)
  BY <1>j DEF JobsOK, ChildrenOK
<1>a. Authorised(j)' = Authorised(j) /\ order'[j].forced = order[j].forced
  BY <1>j DEF Touches, Authorised
<1>q. ASSUME UNCHANGED world, \A k \in Jobs : Edit(k), ~Working(p)'
      PROVE  ChildrenOK' /\ JobsOK'
  BY <1>q, <1>j, <1>t, RestQuiet, QuietKeeps
<1>w. ASSUME proc[p].pc \notin {"dead", "lease"}, ChildOK(p)', JobOK(j)'
      PROVE  ChildrenOK' /\ JobsOK'
  BY <1>w, <1>j, <1>t, OthersKeep
\* The other children of the job do not publish.
<1>n. ASSUME proc[p].pc \notin {"dead", "lease"}, proc'[p].pc \notin PublishPc
      PROVE  \A q \in Pids : JobOf(q)' = j => proc'[q].pc \notin PublishPc
  <2>1. \A q \in Pids \ {p} : proc'[q] = proc[q] /\ JobOf(q)' = JobOf(q)
    BY <1>j DEF Touches, JobOf
  <2>2. \A q \in Pids \ {p} : JobOf(q) = j => proc[q].pc \in {"dead", "lease"}
    BY <1>n, Alone
  <2>3. QED
    BY <1>n, <2>1, <2>2 DEF PublishPc
<1>1. CASE TakeLease(p) \/ PublishRaises(p)
  <2>1. UNCHANGED <<man, world>> /\ ~Working(p)'
    BY <1>1, <1>t, Elsewhere DEF TakeLease, PublishRaises
  <2>2. QED
    BY <1>q, <2>1, SameEdits
<1>2. CASE ChildClaim(p)
  <2>1. CASE ~Claimable(p)
    BY <1>2, <1>t, <1>q, <2>1, Elsewhere, SameEdits DEF ChildClaim
  <2>2. CASE Claimable(p)
    <3>1. /\ man'[j].state = "running" /\ proc'[p].pc = "prepare" /\ JobOf(p)' = j
          /\ man[j].state \in {"queued", "running"} /\ UNCHANGED world
      BY <1>2, <1>t, <1>j, <2>2, BecomeView, GoView DEF ChildClaim, Claimable
    <3>2. origin[j] = "none"
      BY <1>o, <3>1 DEF JobOK
    <3>3. ChildOK(p)'
      BY <3>1, <3>2 DEF ChildOK, CodexChild, PublishPc, world
    <3>4. JobOK(j)'
      BY <3>1, <3>2 DEF JobOK, world
    <3>5. QED
      BY <1>2, <1>w, <3>3, <3>4 DEF ChildClaim, At
  <2>3. QED
    BY <2>1, <2>2
<1>3. CASE PrepareTree(p)
  <2>1. CodexChild(p)
    BY <1>3, <1>o DEF PrepareTree, At, CodexPc, ChildOK
  <2>2. /\ UNCHANGED <<man, origin>> /\ JobOf(p)' = j
        /\ \/ proc'[p].pc = "fail"
           \/ proc'[p].pc = "note" /\ tree'[j] = "clean"
    BY <1>3, <1>t, <1>j, GoView DEF PrepareTree, Resumable, WorldType
  <2>3. ChildOK(p)'
    BY <2>1, <2>2 DEF ChildOK, CodexChild, CodexPc, PublishPc
  <2>4. \A q \in Pids : JobOf(q)' = j => proc'[q].pc \notin PublishPc
    BY <1>3, <1>n, <2>2 DEF PrepareTree, At, PublishPc
  <2>5. JobOK(j)'
    BY <1>o, <2>1, <2>2, <2>4 DEF JobOK, CodexChild
  <2>6. QED
    BY <1>3, <1>w, <2>3, <2>5 DEF PrepareTree, At
<1>4. CASE NoteTree(p)
  <2>1. CodexChild(p)
    BY <1>4, <1>o DEF NoteTree, At, CodexPc, ChildOK
  <2>2. /\ UNCHANGED world /\ JobOf(p)' = j
        /\ man'[j].state = man[j].state /\ man'[j].pid = man[j].pid
        /\ proc'[p].pc \in {"editing", "after"}
    BY <1>4, <1>t, <1>j, GoView DEF NoteTree, StoreType, Manifest
  <2>3. ChildOK(p)'
    BY <2>1, <2>2 DEF ChildOK, CodexChild, CodexPc, PublishPc, world
  <2>4. JobOK(j)'
    BY <2>1, <2>2 DEF JobOK, CodexChild, world
  <2>5. QED
    BY <1>4, <1>w, <2>3, <2>4 DEF NoteTree, At
<1>5. CASE CodexEdits(p) \/ CodexEnds(p)
  <2>1. CodexChild(p) /\ proc[p].pc = "editing"
    BY <1>5, <1>o DEF CodexEdits, CodexEnds, At, CodexPc, ChildOK
  <2>2. UNCHANGED <<man, origin>> /\ JobOf(p)' = j /\ proc'[p].pc \in {"editing", "result", "fail"}
    BY <1>5, <1>t, <1>j, <2>1, GoView DEF CodexEdits, CodexEnds, child, JobOf, world
  <2>3. ChildOK(p)'
    BY <2>1, <2>2 DEF ChildOK, CodexChild, CodexPc, PublishPc
  <2>4. JobOK(j)'
    BY <2>1, <2>2 DEF JobOK, CodexChild
  <2>5. QED
    BY <1>w, <2>1, <2>3, <2>4
<1>6. CASE RecordResult(p)
  <2>1. CodexChild(p) /\ proc[p].pc = "result"
    BY <1>6, <1>o DEF RecordResult, At, CodexPc, ChildOK
  <2>2. proc'[p].pc = "after" /\ UNCHANGED world
    BY <1>6, <1>t, GoView DEF RecordResult
  <2>3. ChildOK(p)'
    BY <2>2 DEF ChildOK, CodexPc, PublishPc
  <2>4. \/ man'[j].state = "prepared" /\ (man'[j].pid # None => j \in AutoJobs)
        \/ man'[j].state = "failed"
        \/ man'[j].state = man[j].state
    <3>1. CASE \E b \in BOOLEAN :
                 man' = [man EXCEPT ![j].state = "prepared", ![j].blocked = b,
                                    ![j].pid = IF j \in AutoJobs THEN p ELSE None]
      BY <1>t, <1>j, <3>1 DEF StoreType, Manifest
    <3>2. CASE Become(j, "failed", None)
      BY <1>t, <1>j, <3>2, BecomeView
    <3>3. QED
      BY <1>6, <3>1, <3>2 DEF RecordResult
  <2>5. \A q \in Pids : JobOf(q)' = j => proc'[q].pc \notin PublishPc
    BY <1>n, <2>1, <2>2 DEF PublishPc
  <2>6. JobOK(j)'
    BY <2>1, <2>2, <2>4, <2>5 DEF JobOK, CodexChild, world
  <2>7. QED
    BY <1>w, <2>1, <2>3, <2>6
<1>7. CASE RecordFailure(p)
  <2>1. UNCHANGED world /\ ~Working(p)'
    BY <1>7, <1>t, Elsewhere DEF RecordFailure
  <2>2. \A k \in Jobs : Edit(k)
    BY <1>7, <1>t, <1>j, BecomeEdits, SameEdits DEF RecordFailure, Failable
  <2>3. QED
    BY <1>q, <2>1, <2>2
<1>8. CASE AutoPublish(p)
  <2>1. UNCHANGED world /\ ~Working(p)'
    BY <1>8, <1>t, Elsewhere DEF AutoPublish, Exit
  <2>2. \A k \in Jobs : Edit(k)
    BY <1>8, <1>t, <1>j, BecomeEdits, SameEdits DEF AutoPublish
  <2>3. QED
    BY <1>q, <2>1, <2>2
<1>9. CASE PublishClaimed(p)
  <2>1. CASE ~Publishable(p)
    <3>1. UNCHANGED <<man, world>> /\ ~Working(p)'
      BY <1>9, <1>t, <2>1, LeaveView, Elsewhere DEF PublishClaimed
    <3>2. QED
      BY <1>q, <3>1, SameEdits
  <2>2. CASE Publishable(p)
    <3>1. /\ man[j].state = "publishing" /\ man'[j].state = "publishing"
          /\ proc'[p].pc = "gate" /\ JobOf(p)' = j /\ UNCHANGED world
      BY <1>9, <1>t, <1>j, <2>2, BecomeView, GoView DEF PublishClaimed, Publishable
    <3>2. Authorised(j)
      BY <1>j, <3>1 DEF OrdersOK
    <3>3. ChildOK(p)'
      BY <1>a, <3>1, <3>2 DEF ChildOK, PublishChild, CodexPc
    <3>4. JobOK(j)'
      BY <1>o, <1>a, <3>1, <3>2 DEF JobOK, world
    <3>5. QED
      BY <1>9, <1>w, <3>3, <3>4 DEF PublishClaimed, At
  <2>3. QED
    BY <2>1, <2>2
<1>10. CASE CheckGate(p)
  <2>1. PublishChild(p) /\ proc[p].pc = "gate" /\ man[j].state = "publishing"
    BY <1>10, <1>o DEF CheckGate, At, PublishPc, ChildOK
  <2>2. PICK b \in BOOLEAN :
          /\ man' = [man EXCEPT ![j].blocked = b]
          /\ Go(p, IF GateOpen(b, proc[p].override) THEN "commit" ELSE "pubfail")
    BY <1>10 DEF CheckGate
  <2>3. man'[j].state = "publishing" /\ man'[j].blocked = b /\ UNCHANGED world
    BY <1>10, <1>t, <1>j, <2>1, <2>2 DEF CheckGate, StoreType, Manifest
  <2>4. /\ JobOf(p)' = j
        /\ \/ proc'[p].pc = "commit" /\ GateOpen(b, proc[p].override)
           \/ proc'[p].pc = "pubfail"
    BY <1>t, <2>2, GoView
  <2>5. GateOpen(b, proc[p].override) => GateOpen(b, order[j].forced)
    BY DEF ForceOK, GateOpen
  <2>6. ChildOK(p)'
    BY <1>a, <2>1, <2>3, <2>4, <2>5 DEF ChildOK, PublishChild, CodexPc, PublishPc
  <2>7. JobOK(j)'
    BY <1>o, <1>a, <2>1, <2>3 DEF JobOK, PublishChild, world
  <2>8. QED
    BY <1>w, <2>1, <2>6, <2>7
<1>11. CASE Commit(p)
  <2>1. PublishChild(p) /\ proc[p].pc = "commit"
    BY <1>11, <1>o DEF Commit, At, PublishPc, ChildOK
  <2>2. /\ UNCHANGED <<man, origin>> /\ tree'[j] = "committed"
        /\ JobOf(p)' = j /\ proc'[p].pc = "push"
    BY <1>11, <1>t, <1>j, GoView DEF Commit, WorldType
  <2>3. ChildOK(p)'
    BY <1>a, <2>1, <2>2 DEF ChildOK, PublishChild, CodexPc
  <2>4. JobOK(j)'
    BY <1>o, <1>a, <2>1, <2>2 DEF JobOK, PublishChild
  <2>5. QED
    BY <1>w, <2>1, <2>3, <2>4
<1>12. CASE Push(p) \/ OpenPr(p)
  <2>1. PublishChild(p) /\ proc[p].pc \in {"push", "pr"} /\ tree[j] = "committed"
    BY <1>12, <1>o DEF Push, OpenPr, At, PublishPc, ChildOK, PublishChild
  <2>2. /\ UNCHANGED <<man, tree>> /\ JobOf(p)' = j
        /\ \/ proc'[p].pc = "pr" /\ origin'[j] # "none" /\ proc[p].pc = "push"
           \/ proc'[p].pc = "succeed" /\ origin'[j] = "pr"
    BY <1>12, <1>t, <1>j, GoView DEF Push, OpenPr, WorldType, At
  <2>3. ChildOK(p)'
    BY <1>a, <2>1, <2>2 DEF ChildOK, PublishChild, CodexPc
  <2>4. JobOK(j)'
    BY <1>a, <2>1, <2>2 DEF JobOK, PublishChild
  <2>5. QED
    BY <1>w, <2>1, <2>3, <2>4
<1>13. CASE Succeed(p)
  <2>1. PublishChild(p) /\ proc[p].pc = "succeed" /\ UNCHANGED world
    BY <1>13, <1>o DEF Succeed, At, PublishPc, ChildOK
  <2>2. proc'[p].pc \notin CodexPc \cup PublishPc
    <3>1. ~Working(p)'
      BY <1>13, <1>t, LeaveView, Elsewhere DEF Succeed
    <3>2. QED
      BY <3>1 DEF Working
  <2>3. ChildOK(p)'
    BY <2>2 DEF ChildOK
  <2>4. UNCHANGED man \/ man'[j].state = "succeeded"
    BY <1>13, <1>t, <1>j, BecomeView DEF Succeed
  <2>5. \A q \in Pids : JobOf(q)' = j => proc'[q].pc \notin PublishPc
    BY <1>n, <2>1, <2>2
  <2>6. JobOK(j)'
    BY <1>o, <1>a, <2>1, <2>4, <2>5 DEF JobOK, PublishChild, world
  <2>7. QED
    BY <1>w, <2>1, <2>3, <2>6
<1>14. CASE PublishFails(p)
  <2>1. UNCHANGED world /\ ~Working(p)'
    BY <1>14, <1>t, LeaveView, Elsewhere DEF PublishFails
  <2>2. \A k \in Jobs : Edit(k)
    BY <1>14, <1>t, <1>j, BecomeEdits, SameEdits DEF PublishFails
  <2>3. QED
    BY <1>q, <2>1, <2>2
<1>15. CASE FinishRead(p) \/ FinishWrite(p) \/ Crash(p)
  <2>1. UNCHANGED <<man, world>>
    BY <1>15 DEF FinishRead, FinishWrite, Crash
  <2>2. ~Working(p)'
    <3>1. CASE Dies(p)
      BY <1>t, <3>1, Elsewhere
    <3>2. CASE proc' = [proc EXCEPT ![p].pc = "finwrite", ![p].seen = intent[JobOf(p)]]
      BY <1>t, <3>2 DEF ChildType, Child, Working, CodexPc, PublishPc
    <3>3. QED
      BY <1>15, <3>1, <3>2 DEF FinishRead, FinishWrite, Crash, Exit
  <2>3. QED
    BY <1>q, <2>1, <2>2, SameEdits
<1>16. QED
  BY <1>1, <1>2, <1>3, <1>4, <1>5, <1>6, <1>7, <1>8, <1>9, <1>10, <1>11, <1>12, <1>13,
     <1>14, <1>15 DEF ChildStep

\* The invariant is inductive ...
LEMMA IInvStep ==
    ASSUME IInv, [Next]_vars
    PROVE  IInv'
<1>1. ASSUME NEW p \in Pids, ChildStep(p) \/ Crash(p) PROVE ChildrenOK' /\ JobsOK'
  BY <1>1, ChildKeeps DEF IInv
<1>t. TypeOK /\ ChildType /\ LeaseHeld /\ ChildrenOK /\ JobsOK /\ OrdersOK /\ CancelOK
  BY DEF IInv, TypeOK
<1>2. ASSUME Quiet PROVE ChildrenOK' /\ JobsOK'
  BY <1>2, <1>t, QuietKeeps
<1>3. ASSUME UNCHANGED vars PROVE Quiet
  BY <1>3, SameEdits DEF vars, Quiet, world, Authorised
<1>4. ChildrenOK' /\ JobsOK'
  BY <1>1, <1>2, <1>3, <1>t, ManagerQuiet DEF Next
<1>5. QED
  BY <1>4, TypeStep, LeaseStep, OrdersStep, CancelStep, ForceStep, AttemptsStep DEF IInv

\* ... and holds when the worker is installed.
LEMMA IInvInit ==
    ASSUME Init PROVE IInv
BY InitType DEF Init, IInv, LeaseHeld, ChildrenOK, ChildOK, JobsOK, JobOK, OrdersOK,
   CancelOK, ForceOK, AttemptsOK, NoChild, Absent, NoIntent, NoOrder, Scanning,
   NoCancel, NoPublish, CodexPc, PublishPc, JobOf

\* Whatever the interleaving of the dispatcher, the handlers, the children, the
\* crashes and the restarts, and for any number of jobs and processes: a child
\* that works holds its lease and finds its job as its program expects, every
\* claim was ordered, every override was asked for and no execution is a third.
THEOREM InductiveInvariant == Spec => []IInv
BY IInvInit, IInvStep, PTL DEF Spec
=============================================================================
