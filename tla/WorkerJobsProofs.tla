--------------------------- MODULE WorkerJobsProofs ----------------------------
(***************************************************************************)
(* What follows from the inductive invariant for every number of jobs,     *)
(* processes, orders, crashes and restarts: the safety properties of       *)
(* WorkerJobs and that it implements JobLifecycle.  The second half proves *)
(* that one child works at a time while nothing comes between the manager  *)
(* and its children, from the invariant TurnInv.                           *)
(***************************************************************************)
EXTENDS WorkerJobsInvariant

\* The dispatcher's test run_attempts < 2: no crash, restart or lost pid makes a job
\* run a third time.
THEOREM AtMostTwoRunsEver == Spec => []AtMostTwoRuns
<1>1. IInv => AtMostTwoRuns
  BY DEF IInv, AttemptsOK, AtMostTwoRuns
<1>2. QED
  BY <1>1, InductiveInvariant, PTL

\* Codex never runs in the worktree of a job whose result is recorded, under
\* review or being pushed.
THEOREM EditsStayAway == Spec => []EditsOnlyUnprepared
<1>1. IInv => EditsOnlyUnprepared
  BY DEF IInv, ChildrenOK, ChildOK, CodexChild, EditsOnlyUnprepared
<1>2. QED
  BY <1>1, InductiveInvariant, PTL

\* Codex only starts over a worktree without changes of an earlier attempt.
THEOREM CleanStart == Spec => []CodexStartsClean
<1>1. IInv => CodexStartsClean
  BY DEF IInv, ChildrenOK, ChildOK, CodexChild, CodexStartsClean, CodexPc
<1>2. QED
  BY <1>1, InductiveInvariant, PTL

\* Once a branch is at GitHub the worktree holds exactly the commit that was
\* pushed: no late child commits or edits again.
THEOREM FrozenOncePublished == Spec => []PublishedTreeIsFrozen
<1>1. IInv => PublishedTreeIsFrozen
  BY DEF IInv, JobsOK, JobOK, PublishedTreeIsFrozen
<1>2. QED
  BY <1>1, InductiveInvariant, PTL

\* Nothing of a job without a result reaches GitHub, nor of one cancelled when
\* only an explicit order could publish it.
THEOREM RefusedNeverPublished == Spec => []RefusedStaysPrivate
<1>1. IInv => RefusedStaysPrivate
  BY DEF IInv, JobsOK, JobOK, RefusedStaysPrivate
<1>2. QED
  BY <1>1, InductiveInvariant, PTL

\* Only the pull request step makes a pull request.
LEMMA PrStep ==
    ASSUME TypeOK, LeaseHeld, OrdersOK, CancelOK, Next, NEW j \in Jobs, origin[j] # "pr", origin'[j] = "pr"
    PROVE  \E p \in Pids : OpenPr(p) /\ JobOf(p) = j
<1>1. WorldType
  BY DEF TypeOK
<1>2. ~(Dispatch \/ Handlers \/ ManagerRestart
             \/ (\E k \in Jobs : Create(k) \/ CancelRead(k))
             \/ (\E k \in Jobs, o \in BOOLEAN : PublishRead(k, o)))
  BY ManagerQuiet DEF Quiet, world
<1>3. PICK p \in Pids : ChildStep(p) \/ Crash(p)
  BY <1>2 DEF Next
<1>4. ~Push(p)
  BY <1>1 DEF Push, WorldType
<1>5. OpenPr(p)
  BY <1>3, <1>4 DEF ChildStep, Crash, TakeLease, ChildClaim, PrepareTree, NoteTree,
     CodexEdits, CodexEnds, RecordResult, RecordFailure, AutoPublish, PublishClaimed,
     CheckGate, Commit, Succeed, PublishRaises, PublishFails, FinishRead, FinishWrite,
     world
<1>6. JobOf(p) = j
  BY <1>1, <1>5 DEF OpenPr, WorldType
<1>7. QED
  BY <1>5, <1>6

\* _check_gate over processes and restarts: a pull request over a failed
\* validation or an exceeded budget was forced by an accepted order.
THEOREM BlockedIsForced == Spec => BlockedNeedsForce
<1>1. IInv /\ [Next]_vars =>
        [\A j \in Jobs : origin[j] # "pr" /\ origin'[j] = "pr" => ~man[j].blocked \/ order[j].forced]_vars
  <2> SUFFICES ASSUME IInv, Next, NEW j \in Jobs, origin[j] # "pr", origin'[j] = "pr"
               PROVE  ~man[j].blocked \/ order[j].forced
    OBVIOUS
  <2>1. PICK p \in Pids : OpenPr(p) /\ JobOf(p) = j
    BY PrStep DEF IInv
  <2>2. PublishChild(p) /\ proc[p].pc = "pr"
    BY <2>1 DEF IInv, ChildrenOK, ChildOK, OpenPr, At, PublishPc
  <2>3. QED
    BY <2>1, <2>2 DEF PublishChild, GateOpen
<1>2. QED
  BY <1>1, InductiveInvariant, PTL DEF Spec, BlockedNeedsForce

-----------------------------------------------------------------------------
\* A step is invisible when no state, no exposure and no order moves.
LEMMA SameLife ==
    ASSUME \A k \in Jobs : man'[k].state = man[k].state, UNCHANGED origin,
           \A k \in Jobs : order'[k].asked = order[k].asked
    PROVE  UNCHANGED LC!lifecycle
BY DEF LC!lifecycle

\* One promised transition of one job ...
LEMMA MoveLife ==
    ASSUME NEW j \in Jobs, NEW from, NEW to, man[j].state \in from, man'[j].state = to,
           \A k \in Jobs \ {j} : man'[k].state = man[k].state, UNCHANGED origin,
           \A k \in Jobs : order'[k].asked = order[k].asked
    PROVE  LC!Move(j, from, to)
BY DEF LC!Move

\* ... which an update of its manifest makes.
LEMMA BecomeLife ==
    ASSUME StoreType, NEW j \in Jobs, NEW from, NEW s, NEW p, Become(j, s, p), man[j].state \in from,
           UNCHANGED origin, \A k \in Jobs : order'[k].asked = order[k].asked
    PROVE  LC!Move(j, from, s)
BY BecomeView, MoveLife

\* What the decisions of the dispatcher make of a job.
LEMMA LifeOfUpdate ==
    ASSUME TypeOK, OrdersOK, DispatchUpdate
    PROVE  LC!Next \/ UNCHANGED LC!lifecycle
<1>t. StoreType /\ DispType /\ disp.job \in Jobs
  BY UpdateView DEF TypeOK
<1>1. UNCHANGED origin /\ \A k \in Jobs : order'[k].asked = order[k].asked
  BY DEF DispatchUpdate, world, ghosts
<1>2. CASE man[disp.job].state # From[disp.pc]
  BY <1>1, <1>2, SameLife DEF DispatchUpdate
<1>3. CASE man[disp.job].state = From[disp.pc]
  <2> DEFINE j == disp.job
  <2>1. Become(j, To[disp.pc], None) /\ disp.pc \in DOMAIN From
    BY <1>3 DEF DispatchUpdate
  <2>2. CASE disp.pc = "lost"
    <3>1. LC!Move(j, {"publishing"}, "prepared")
      BY <1>t, <1>1, <1>3, <2>1, <2>2, BecomeLife, Tables
    <3>2. QED
      BY <1>t, <3>1 DEF LC!Next, LC!Release
  <2>3. CASE disp.pc \in {"unsafe", "giveup"}
    <3>1. LC!Move(j, {"queued", "running"}, "failed")
      BY <1>t, <1>1, <1>3, <2>1, <2>3, BecomeLife, Tables
    <3>2. QED
      BY <1>t, <3>1 DEF LC!Next, LC!Fail
  <2>4. CASE disp.pc = "requeue"
    <3>1. LC!Move(j, {"running"}, "queued")
      BY <1>t, <1>1, <1>3, <2>1, <2>4, BecomeLife, Tables
    <3>2. QED
      BY <1>t, <3>1 DEF LC!Next, LC!Retry
  <2>5. CASE disp.pc \in {"handoff", "claim"}
    <3>1. LC!Move(j, {"prepared"}, "publishing")
      BY <1>t, <1>1, <1>3, <2>1, <2>5, BecomeLife, Tables
    <3>2. Authorised(j)
      BY <2>5 DEF OrdersOK
    <3>3. QED
      BY <1>t, <3>1, <3>2 DEF LC!Next, LC!Claim, LC!Authorised, Authorised
  <2>6. CASE disp.pc = "own"
    <3>1. \A k \in Jobs : man'[k].state = man[k].state
      BY <1>t, <1>3, <2>1, <2>6, BecomeView, Tables
    <3>2. QED
      BY <1>1, <3>1, SameLife
  <2>7. QED
    BY <2>1, <2>2, <2>3, <2>4, <2>5, <2>6 DEF From
<1>4. QED
  BY <1>2, <1>3

\* Every step of the manager is a promised transition or invisible.
LEMMA LifeOfManager ==
    ASSUME TypeOK, OrdersOK, CancelOK,
           Dispatch \/ Handlers \/ ManagerRestart
             \/ (\E j \in Jobs : Create(j) \/ CancelRead(j))
             \/ (\E j \in Jobs, o \in BOOLEAN : PublishRead(j, o))
    PROVE  LC!Next \/ UNCHANGED LC!lifecycle
<1>t. StoreType /\ WorldType /\ ChildType /\ DispType /\ HandlerType /\ GhostType
  BY DEF TypeOK
<1>0. CASE UNCHANGED <<man, world, order>>
  BY <1>0, SameLife DEF world
<1>1. CASE ScanOrphan \/ ScanRetention \/ Choose \/ Reread
  BY <1>0, <1>1 DEF ScanOrphan, ScanRetention, Choose, Reread, ghosts
<1>2. CASE DecideHandoff \/ DecidePublishing \/ DecideRunning \/ DecideNothing
  BY <1>0, <1>2 DEF DecideHandoff, DecidePublishing, DecideRunning, DecideNothing,
     ghosts
<1>3. CASE DispatchUpdate
  BY <1>3, LifeOfUpdate
<1>4. CASE DispatchStart
  <2>1. UNCHANGED <<world, order>> /\ disp.job \in Jobs
    BY <1>4, <1>t, UpdateView DEF DispatchStart, ghosts
  <2>2. CASE man[disp.job].state = "queued"
    <3>1. /\ man'[disp.job].state = "running"
          /\ \A k \in Jobs \ {disp.job} : man'[k].state = man[k].state
      BY <1>4, <1>t, <2>1, <2>2, StartView DEF DispatchStart
    <3>2. LC!Move(disp.job, {"queued"}, "running")
      BY <2>1, <2>2, <3>1, MoveLife DEF world
    <3>3. QED
      BY <2>1, <3>2 DEF LC!Next, LC!Start
  <2>3. QED
    BY <1>0, <1>4, <2>1, <2>2 DEF DispatchStart
<1>5. CASE Spawn \/ DispatchFinish
  BY <1>0, <1>5 DEF Spawn, DispatchFinish, ghosts
<1>6. CASE SpawnFails
  <2>1. disp.job \in Jobs /\ UNCHANGED origin
    BY <1>6, <1>t DEF SpawnFails, DispType, world
  <2>2. \A k \in Jobs : order'[k].asked = order[k].asked
    BY <1>6, <1>t DEF SpawnFails, GhostType, Order
  <2>3. CASE man[disp.job].state = "running" /\ Become(disp.job, "failed", None)
    <3>1. LC!Move(disp.job, {"queued", "running"}, "failed")
      BY <1>t, <2>1, <2>2, <2>3, BecomeLife
    <3>2. QED
      BY <2>1, <3>1 DEF LC!Next, LC!Fail
  <2>4. CASE man[disp.job].state = "publishing" /\ Become(disp.job, "prepared", None)
    <3>1. LC!Move(disp.job, {"publishing"}, "prepared")
      BY <1>t, <2>1, <2>2, <2>4, BecomeLife
    <3>2. QED
      BY <2>1, <3>1 DEF LC!Next, LC!Release
  <2>5. CASE UNCHANGED man
    BY <2>1, <2>2, <2>5, SameLife
  <2>6. QED
    BY <1>6, <2>3, <2>4, <2>5 DEF SpawnFails, Launched
<1>7. CASE RecordPid
  <2>1. disp.job \in Jobs /\ UNCHANGED <<origin, order>>
    BY <1>7, <1>t DEF RecordPid, DispType, world, ghosts
  <2>2. \A k \in Jobs : man'[k].state = man[k].state
    BY <1>7, <1>t, <2>1, BecomeView DEF RecordPid
  <2>3. QED
    BY <2>1, <2>2, SameLife
<1>8. CASE CancelClose
  <2>1. cancel.job \in Jobs /\ UNCHANGED <<world, order>>
    BY <1>8, <1>t DEF CancelClose, HandlerType, ghosts
  <2>2. CASE man[cancel.job].state \in {"queued", "running"} /\ Become(cancel.job, "cancelled", None)
    <3>1. LC!Move(cancel.job, {"queued", "running"}, "cancelled")
      BY <1>t, <2>1, <2>2, BecomeLife DEF world
    <3>2. QED
      BY <2>1, <3>1 DEF LC!Next, LC!Cancel
  <2>3. CASE /\ cancel.pc = "handoff" /\ man[cancel.job].state = "prepared"
             /\ Become(cancel.job, "cancelled", None)
    <3>1. LC!Move(cancel.job, {"prepared"}, "cancelled")
      BY <1>t, <2>1, <2>3, BecomeLife DEF world
    <3>2. cancel.job \in AutoJobs
      BY <2>3 DEF CancelOK
    <3>3. QED
      BY <2>1, <3>1, <3>2 DEF LC!Next, LC!Cancel
  <2>4. QED
    BY <1>0, <1>8, <2>1, <2>2, <2>3 DEF CancelClose
<1>9. CASE CancelKill \/ CancelStop \/ CancelSettle \/ CancelFinish
  BY <1>0, <1>9 DEF CancelKill, CancelStop, CancelSettle, CancelFinish, ghosts
<1>10. CASE CancelRelease
  <2>1. cancel.job \in Jobs /\ UNCHANGED origin
    BY <1>10, <1>t DEF CancelRelease, HandlerType, world
  <2>2. \A k \in Jobs : order'[k].asked = order[k].asked
    BY <1>10, <1>t DEF CancelRelease, GhostType, Order
  <2>3. CASE man[cancel.job].state = "publishing" /\ Become(cancel.job, "prepared", None)
    <3>1. LC!Move(cancel.job, {"publishing"}, "prepared")
      BY <1>t, <2>1, <2>2, <2>3, BecomeLife
    <3>2. QED
      BY <2>1, <3>1 DEF LC!Next, LC!Release
  <2>4. QED
    BY <1>10, <2>1, <2>2, <2>3, SameLife DEF CancelRelease
<1>11. CASE PublishClaim
  <2>1. publish.job \in Jobs /\ Authorised(publish.job) /\ UNCHANGED <<world, order>>
    BY <1>11, <1>t DEF PublishClaim, HandlerType, OrdersOK, ghosts
  <2>2. CASE man[publish.job].state = "prepared" /\ Become(publish.job, "publishing", None)
    <3>1. LC!Move(publish.job, {"prepared"}, "publishing")
      BY <1>t, <2>1, <2>2, BecomeLife DEF world
    <3>2. QED
      BY <2>1, <3>1 DEF LC!Next, LC!Claim, LC!Authorised, Authorised
  <2>3. QED
    BY <1>0, <1>11, <2>1, <2>2 DEF PublishClaim
<1>12. CASE ManagerRestart
  BY <1>0, <1>12 DEF ManagerRestart
<1>13. ASSUME NEW j \in Jobs, Create(j) PROVE LC!Next
  <2>1. /\ man[j].state = "absent" /\ man'[j].state = "queued"
        /\ \A k \in Jobs \ {j} : man'[k].state = man[k].state
    BY <1>13, <1>t DEF Create, StoreType, Manifest
  <2>2. LC!Move(j, {"absent"}, "queued")
    BY <1>13, <2>1, MoveLife DEF Create, world, ghosts
  <2>3. QED
    BY <2>2 DEF LC!Next, LC!Accept
<1>14. ASSUME NEW j \in Jobs, CancelRead(j) PROVE UNCHANGED LC!lifecycle
  BY <1>14, SameLife DEF CancelRead, world, ghosts
<1>15. ASSUME NEW j \in Jobs, NEW o \in BOOLEAN, PublishRead(j, o) PROVE LC!Next
  <2>1. man[j].state = "prepared" /\ UNCHANGED <<man, origin>>
    BY <1>15 DEF PublishRead, world
  <2>2. /\ order'[j].asked = TRUE
        /\ \A k \in Jobs \ {j} : order'[k].asked = order[k].asked
    BY <1>15, <1>t DEF PublishRead, GhostType, Order
  <2>3. LC!OrderPublication(j)
    BY <2>1, <2>2 DEF LC!OrderPublication
  <2>4. QED
    BY <2>3 DEF LC!Next
<1>16. QED
  BY <1>1, <1>2, <1>3, <1>4, <1>5, <1>6, <1>7, <1>8, <1>9, <1>10, <1>11, <1>12, <1>13,
     <1>14, <1>15 DEF Dispatch, Handlers

\* So is every step of a child.
LEMMA LifeOfChild ==
    ASSUME TypeOK, ChildrenOK, NEW p \in Pids, ChildStep(p) \/ Crash(p)
    PROVE  LC!Next \/ UNCHANGED LC!lifecycle
<1>t. StoreType /\ WorldType /\ ChildType /\ GhostType
  BY DEF TypeOK
<1> SUFFICES ASSUME NEW j \in Jobs, j = JobOf(p) PROVE LC!Next \/ UNCHANGED LC!lifecycle
  BY <1>t, ChildJob
<1>o. \A k \in Jobs : order'[k].asked = order[k].asked
  BY <1>t, ChildTouches DEF Touches
<1>m. ASSUME NEW from, NEW s, NEW q, Become(j, s, q), man[j].state \in from, UNCHANGED origin
      PROVE  LC!Move(j, from, s)
  BY <1>m, <1>o, <1>t, BecomeLife
<1>0. CASE UNCHANGED <<man, origin>>
  BY <1>0, <1>o, SameLife
<1>1. CASE \/ TakeLease(p) \/ PrepareTree(p) \/ CodexEdits(p) \/ CodexEnds(p) \/ Commit(p)
           \/ PublishRaises(p) \/ FinishRead(p) \/ FinishWrite(p) \/ Crash(p)
  BY <1>0, <1>1 DEF TakeLease, PrepareTree, CodexEdits, CodexEnds, Commit,
     PublishRaises, FinishRead, FinishWrite, Crash, world
<1>2. CASE ChildClaim(p)
  <2>1. UNCHANGED origin
    BY <1>2 DEF ChildClaim, world
  <2>2. CASE man[j].state = "queued" /\ Become(j, "running", p)
    <3>1. LC!Move(j, {"queued"}, "running")
      BY <1>m, <2>1, <2>2
    <3>2. QED
      BY <3>1 DEF LC!Next, LC!Start
  <2>3. CASE man[j].state = "running" /\ Become(j, "running", p)
    BY <1>o, <1>t, <2>1, <2>3, BecomeView, SameLife
  <2>4. QED
    BY <1>0, <1>2, <2>1, <2>2, <2>3 DEF ChildClaim, Claimable
<1>3. CASE NoteTree(p) \/ CheckGate(p)
  <2>1. \A k \in Jobs : man'[k].state = man[k].state
    BY <1>3, <1>t DEF NoteTree, CheckGate, StoreType, Manifest
  <2>2. QED
    BY <1>3, <1>o, <2>1, SameLife DEF NoteTree, CheckGate, world
<1>4. CASE RecordResult(p)
  <2>1. UNCHANGED origin
    BY <1>4 DEF RecordResult, world
  <2>2. CASE man[j].state = "running" /\ \E b \in BOOLEAN :
               man' = [man EXCEPT ![j].state = "prepared", ![j].blocked = b,
                                  ![j].pid = IF j \in AutoJobs THEN p ELSE None]
    <3>1. /\ man'[j].state = "prepared"
          /\ \A k \in Jobs \ {j} : man'[k].state = man[k].state
      BY <1>t, <2>2 DEF StoreType, Manifest
    <3>2. man[j].state \in {"running"}
      BY <2>2
    <3>3. LC!Move(j, {"running"}, "prepared")
      BY <1>o, <2>1, <3>1, <3>2, MoveLife
    <3>4. QED
      BY <3>3 DEF LC!Next, LC!Prepare
  <2>3. CASE man[j].state = "running" /\ Become(j, "failed", None)
    <3>1. LC!Move(j, {"queued", "running"}, "failed")
      BY <1>m, <2>1, <2>3
    <3>2. QED
      BY <3>1 DEF LC!Next, LC!Fail
  <2>4. QED
    BY <1>0, <1>4, <2>1, <2>2, <2>3 DEF RecordResult
<1>5. CASE RecordFailure(p)
  <2>1. UNCHANGED origin
    BY <1>5 DEF RecordFailure, world
  <2>2. CASE Failable(j) /\ Become(j, "failed", None)
    <3>1. LC!Move(j, {"queued", "running"}, "failed")
      BY <1>m, <2>1, <2>2 DEF Failable
    <3>2. QED
      BY <3>1 DEF LC!Next, LC!Fail
  <2>3. QED
    BY <1>0, <1>5, <2>1, <2>2 DEF RecordFailure
<1>6. CASE AutoPublish(p)
  <2>1. UNCHANGED origin
    BY <1>6 DEF AutoPublish, world
  <2>2. CASE j \in AutoJobs /\ man[j].state = "prepared" /\ Become(j, "publishing", p)
    <3>1. LC!Move(j, {"prepared"}, "publishing")
      BY <1>m, <2>1, <2>2
    <3>2. QED
      BY <2>2, <3>1 DEF LC!Next, LC!Claim, LC!Authorised
  <2>3. QED
    BY <1>0, <1>6, <2>1, <2>2 DEF AutoPublish
<1>7. CASE PublishClaimed(p)
  <2>1. \A k \in Jobs : man'[k].state = man[k].state
    BY <1>7, <1>t, BecomeView DEF PublishClaimed, Publishable
  <2>2. QED
    BY <1>7, <1>o, <2>1, SameLife DEF PublishClaimed, world
<1>8. CASE Push(p) \/ OpenPr(p)
  <2>1. PublishChild(p) /\ (proc[p].pc = "pr" => origin[j] # "none")
    BY <1>8 DEF Push, OpenPr, At, PublishPc, ChildrenOK, ChildOK, PublishChild
  <2>2. LC!Authorised(j) /\ man[j].state \in {"publishing", "prepared"} /\ UNCHANGED man
    BY <1>8, <2>1 DEF PublishChild, Authorised, LC!Authorised, Push, OpenPr
  <2>3. \/ origin[j] = "none" /\ origin' = [origin EXCEPT ![j] = "branch"]
        \/ origin[j] = "branch" /\ origin' = [origin EXCEPT ![j] = "pr"]
        \/ UNCHANGED origin
    BY <1>8, <1>t, <2>1 DEF Push, OpenPr, At, WorldType
  <2>4. CASE ~UNCHANGED origin
    <3>1. LC!Expose(j)
      BY <1>o, <2>2, <2>3, <2>4 DEF LC!Expose
    <3>2. QED
      BY <3>1 DEF LC!Next
  <2>5. QED
    BY <1>0, <2>2, <2>4
<1>9. CASE Succeed(p)
  <2>1. UNCHANGED origin /\ origin[j] = "pr"
    BY <1>9 DEF Succeed, At, PublishPc, ChildrenOK, ChildOK, PublishChild, world
  <2>2. CASE man[j].state = "publishing" /\ Become(j, "succeeded", None)
    <3>1. LC!Move(j, {"publishing"}, "succeeded")
      BY <1>m, <2>1, <2>2
    <3>2. QED
      BY <2>1, <3>1 DEF LC!Next, LC!Complete
  <2>3. QED
    BY <1>0, <1>9, <2>1, <2>2 DEF Succeed
<1>10. CASE PublishFails(p)
  <2>1. UNCHANGED origin
    BY <1>10 DEF PublishFails, world
  <2>2. CASE man[j].state = "publishing" /\ Become(j, "prepared", None)
    <3>1. LC!Move(j, {"publishing"}, "prepared")
      BY <1>m, <2>1, <2>2
    <3>2. QED
      BY <3>1 DEF LC!Next, LC!Release
  <2>3. QED
    BY <1>0, <1>10, <2>1, <2>2 DEF PublishFails
<1>11. QED
  BY <1>1, <1>2, <1>3, <1>4, <1>5, <1>6, <1>7, <1>8, <1>9, <1>10 DEF ChildStep

\* The worker with all its processes implements the life cycle of JobLifecycle:
\* every step of it is one promised transition of one job, or invisible.
THEOREM ImplementsTheLifecycle == Spec => ImplementsLifecycle
<1>1. Init => LC!Init
  BY DEF Init, LC!Init, Absent, NoOrder
<1>2. IInv /\ [Next]_vars => [LC!Next]_(LC!lifecycle)
  <2> SUFFICES ASSUME IInv, [Next]_vars PROVE LC!Next \/ UNCHANGED LC!lifecycle
    OBVIOUS
  <2>1. CASE UNCHANGED vars
    BY <2>1, SameLife DEF vars
  <2>2. TypeOK /\ OrdersOK /\ CancelOK /\ ChildrenOK
    BY DEF IInv
  <2>3. QED
    BY <2>1, <2>2, LifeOfManager, LifeOfChild DEF Next
<1>3. QED
  BY <1>1, <1>2, InductiveInvariant, PTL DEF Spec, ImplementsLifecycle, LC!Spec

-----------------------------------------------------------------------------
(* One heavy process at a time.  The lemmas say what a step of a child     *)
(* makes of it (ChildAdvances), that only a launch makes a child work      *)
(* (Fewer), and that each coroutine keeps the parts of TurnInv.            *)

\* What a step of a child makes of its manifest and of itself: it goes on to
\* execute, has executed, goes on to publish, or is out of it.
Advances(p, j) == LET s == man[j].state  d == man[j].pid IN
    \/ /\ Executes(p) /\ Executes(p)'
       /\ \/ man'[j].state = s /\ man'[j].pid = d
          \/ s \in {"queued", "running"} /\ man'[j].state = "running" /\ man'[j].pid = p
    \/ /\ Executes(p) /\ At(p, "after")'
       /\ \/ s \in {"queued", "running"} /\ man'[j].state = "failed"
          \/ /\ s = "running" /\ man'[j].state = "prepared"
             /\ man'[j].pid = IF j \in AutoJobs THEN p ELSE None
          \/ /\ man'[j].state = s /\ man'[j].pid = d
             /\ ~(s = "running" /\ d \in {None, p})
    \/ /\ Publishes(p) \/ HandsOff(p)
       /\ Publishes(p)'
       /\ \/ Publishes(p) /\ man'[j].state = s /\ man'[j].pid = d
          \/ man'[j].state = "publishing" /\ man'[j].pid = p
    \/ /\ proc'[p].pc \in {"dead", "finread", "finwrite"}
       /\ \/ man'[j].state = s /\ man'[j].pid = d
          \/ Publishes(p) /\ s = "publishing" /\ man'[j].state \in {"succeeded", "prepared"}

Alive(p, j) ==
    /\ proc'[p] = NoChild \/ JobOf(p)' = j
    /\ \A q \in Pids \ {p} : proc'[q] = proc[q]
    /\ \A k \in Jobs \ {j} : man'[k] = man[k]
    /\ UNCHANGED loop

LEMMA ChildAlive ==
    ASSUME StoreType, WorldType, ChildType, GhostType, NEW p \in Pids, ChildStep(p) \/ Crash(p),
           NEW j \in Jobs, JobOf(p) = j
    PROVE  Alive(p, j)
BY ChildTouches DEF Touches, Alive

LEMMA ChildAdvances ==
    ASSUME StoreType, ChildType, NEW p \in Pids, ChildStep(p) \/ Crash(p), NEW j \in Jobs, JobOf(p) = j
    PROVE  Advances(p, j)
<1> USE DEF Advances, At, Executes, Publishes, CodexPc, PublishPc
<1>g. ASSUME NEW pc, Go(p, pc)
      PROVE  proc'[p].pc = pc /\ proc'[p].task = proc[p].task
  BY <1>g DEF ChildType, Go, Child
<1>d. ASSUME Dies(p) PROVE proc'[p].pc = "dead"
  BY <1>d, DiesView DEF NoChild
<1>l. ASSUME Leave(p) PROVE proc'[p].pc \in {"dead", "finread"}
  BY <1>l, <1>g, <1>d DEF Leave, Exit
<1>b. ASSUME NEW s, NEW q, Become(j, s, q) PROVE man'[j].state = s /\ man'[j].pid = q
  BY <1>b, BecomeView
<1>1. CASE TakeLease(p)
  <2>1. proc[p].task \in {"codex", "publish"}
    BY DEF ChildType, Child
  <2>2. QED
    BY <1>1, <1>g, <2>1 DEF TakeLease
<1>2. CASE ChildClaim(p)
  BY <1>2, <1>g, <1>b DEF ChildClaim, Claimable
<1>3. CASE PrepareTree(p)
  BY <1>3, <1>g DEF PrepareTree
<1>4. CASE NoteTree(p)
  <2>1. man'[j].state = man[j].state /\ man'[j].pid = man[j].pid
    BY <1>4 DEF NoteTree, StoreType, Manifest
  <2>2. QED
    BY <1>4, <1>g, <2>1 DEF NoteTree
<1>5. CASE CodexEdits(p)
  BY <1>5 DEF CodexEdits, child
<1>6. CASE CodexEnds(p)
  BY <1>6, <1>g DEF CodexEnds
<1>7. CASE RecordResult(p)
  <2>1. At(p, "result") /\ proc'[p].pc = "after"
    BY <1>7, <1>g DEF RecordResult
  <2>2. CASE /\ man[j].state = "running"
             /\ \E b \in BOOLEAN :
                  man' = [man EXCEPT ![j].state = "prepared", ![j].blocked = b,
                                     ![j].pid = IF j \in AutoJobs THEN p ELSE None]
    <3>1. man'[j].state = "prepared" /\ man'[j].pid = IF j \in AutoJobs THEN p ELSE None
      BY <2>2 DEF StoreType, Manifest
    <3>2. QED
      BY <2>1, <2>2, <3>1
  <2>3. CASE man[j].state = "running" /\ Become(j, "failed", None)
    BY <2>1, <2>3, <1>b
  <2>4. CASE man[j].state # "running" /\ UNCHANGED man
    BY <2>1, <2>4
  <2>5. QED
    BY <1>7, <2>2, <2>3, <2>4 DEF RecordResult
<1>8. CASE RecordFailure(p)
  BY <1>8, <1>g, <1>b DEF RecordFailure, Failable
<1>9. CASE AutoPublish(p)
  BY <1>9, <1>g, <1>b, <1>d DEF AutoPublish, HandsOff, Exit
<1>10. CASE PublishClaimed(p)
  BY <1>10, <1>g, <1>b, <1>l DEF PublishClaimed, Publishable
<1>11. CASE CheckGate(p)
  <2>1. man'[j].state = man[j].state /\ man'[j].pid = man[j].pid
    BY <1>11 DEF CheckGate, StoreType, Manifest
  <2>2. proc'[p].pc \in {"commit", "pubfail"}
    BY <1>11, <1>g DEF CheckGate
  <2>3. QED
    BY <1>11, <2>1, <2>2 DEF CheckGate
<1>12. CASE Commit(p) \/ Push(p) \/ OpenPr(p) \/ PublishRaises(p)
  BY <1>12, <1>g DEF Commit, Push, OpenPr, PublishRaises
<1>13. CASE Succeed(p)
  BY <1>13, <1>g, <1>b, <1>l DEF Succeed
<1>14. CASE PublishFails(p)
  BY <1>14, <1>b, <1>l DEF PublishFails
<1>15. CASE FinishRead(p)
  <2>1. proc'[p].pc \in {"dead", "finwrite"}
    BY <1>15, <1>d DEF FinishRead, Exit, ChildType, Child
  <2>2. QED
    BY <1>15, <2>1 DEF FinishRead
<1>16. CASE FinishWrite(p) \/ Crash(p)
  BY <1>16, <1>d DEF FinishWrite, Crash, Exit
<1>17. QED
  BY <1>1, <1>2, <1>3, <1>4, <1>5, <1>6, <1>7, <1>8, <1>9, <1>10, <1>11, <1>12, <1>13,
     <1>14, <1>15, <1>16 DEF ChildStep

-----------------------------------------------------------------------------
\* No step but a launch makes a child work that did not.
Fewer == \A q \in Pids : Runs(q)' => Runs(q) /\ JobOf(q)' = JobOf(q)

\* A step of a child leaves the four parts alone: only a child that works moves the
\* manifest of its job, and no other one works then.
LEMMA ChildFewer ==
    ASSUME ChildType, NamedOK, NEW p \in Pids, NEW j \in Jobs, JobOf(p) = j, Alive(p, j),
           Advances(p, j)
    PROVE  Fewer
<1> SUFFICES ASSUME NEW q \in Pids, Runs(q)' PROVE Runs(q) /\ JobOf(q)' = JobOf(q)
  BY DEF Fewer
<1>1. CASE q = p
  <2>1. JobOf(p)' = j
    BY <1>1 DEF Alive, Runs, Executes, Publishes, HandsOff, At, NoChild, CodexPc, PublishPc
  <2>2. CASE proc'[p].pc \in {"dead", "finread", "finwrite"}
    BY <1>1, <2>2 DEF Runs, Executes, Publishes, HandsOff, At, CodexPc, PublishPc
  <2>3. QED
    BY <1>1, <2>1, <2>2 DEF Advances, Runs
<1>2. CASE q # p
  <2>1. proc'[q] = proc[q]
    BY <1>2 DEF Alive
  <2>2. CASE Executes(q)' \/ Publishes(q)'
    BY <2>1, <2>2 DEF Runs, Executes, Publishes, At, JobOf
  <2>3. CASE HandsOff(q)'
    <3>1. At(q, "after") /\ JobOf(q) \in AutoJobs /\ JobOf(q)' = JobOf(q)
      BY <2>1, <2>3 DEF HandsOff, At, JobOf
    <3>2. CASE JobOf(q) # j
      <4>1. JobOf(q) \in Jobs
        BY <3>1, JobType DEF At
      <4>2. QED
        BY <2>3, <3>1, <3>2, <4>1 DEF Runs, HandsOff, Alive
    <3>3. CASE JobOf(q) = j
      <4>1. man[j].state \in {"failed", "cancelled", "prepared"}
        BY <3>1, <3>3 DEF NamedOK
      <4>2. man'[j].state = "prepared"
        BY <2>3, <3>1, <3>3 DEF HandsOff
      <4>3. man[j].state = "prepared"
        BY <4>1, <4>2 DEF Advances
      <4>4. QED
        BY <3>1, <3>3, <4>3 DEF Runs, HandsOff
    <3>4. QED
      BY <3>2, <3>3
  <2>4. QED
    BY <2>2, <2>3 DEF Runs
<1>3. QED
  BY <1>1, <1>2

\* Whoever moves the manifest works.
LEMMA MoversRun ==
    ASSUME NEW p \in Pids, NEW j \in Jobs, Advances(p, j), ~Runs(p)
    PROVE  man'[j].state = man[j].state /\ man'[j].pid = man[j].pid
BY DEF Advances, Runs

LEMMA ChildNamed ==
    ASSUME ChildType, NamedOK, OneRuns, NEW p \in Pids, NEW j \in Jobs, JobOf(p) = j,
           Alive(p, j), Advances(p, j)
    PROVE  NamedOK'
<1> SUFFICES ASSUME NEW q \in Pids PROVE
        LET k == JobOf(q)' IN
        /\ Executes(q)' => \/ man'[k].state = "running" /\ Named(q)'
                           \/ man'[k].state = "cancelled" /\ cancel'.pc = "kill" /\ cancel'.job = k
        /\ Publishes(q)' => man'[k].state = "publishing" /\ Named(q)'
        /\ At(q, "after")' /\ k \in AutoJobs =>
              \/ man'[k].state \in {"failed", "cancelled"}
              \/ man'[k].state = "prepared" /\ man'[k].pid = q
  BY DEF NamedOK
<1>o. UNCHANGED disp /\ UNCHANGED cancel
  BY DEF Alive, loop
<1>n. Executes(q)' \/ Publishes(q)' \/ At(q, "after")' => proc'[q] # NoChild
  BY DEF Executes, Publishes, At, NoChild, CodexPc, PublishPc
<1> SUFFICES ASSUME Executes(q)' \/ Publishes(q)' \/ At(q, "after")' PROVE
        LET k == JobOf(q)' IN
        /\ Executes(q)' => \/ man'[k].state = "running" /\ Named(q)'
                           \/ man'[k].state = "cancelled" /\ cancel'.pc = "kill" /\ cancel'.job = k
        /\ Publishes(q)' => man'[k].state = "publishing" /\ Named(q)'
        /\ At(q, "after")' /\ k \in AutoJobs =>
              \/ man'[k].state \in {"failed", "cancelled"}
              \/ man'[k].state = "prepared" /\ man'[k].pid = q
  OBVIOUS
<1>1. CASE q = p
  <2>1. JobOf(q)' = j
    BY <1>1, <1>n DEF Alive
  <2>2. ~(proc'[p].pc \in {"dead", "finread", "finwrite"})
    BY <1>1 DEF Executes, Publishes, At, CodexPc, PublishPc
  <2>3. CASE Executes(p)'
    <3>1. ~Publishes(p)' /\ ~At(p, "after")' /\ Executes(p)
      BY <2>2, <2>3 DEF Advances, Executes, Publishes, At, CodexPc, PublishPc
    <3>2. \/ man'[j].state = man[j].state /\ man'[j].pid = man[j].pid
          \/ man'[j].state = "running" /\ man'[j].pid = p
      BY <2>2, <3>1 DEF Advances
    <3>3. \/ man'[j].state = "running" /\ Named(p)'
          \/ man'[j].state = "cancelled" /\ cancel'.pc = "kill" /\ cancel'.job = j
      BY <1>o, <1>1, <2>1, <3>1, <3>2 DEF NamedOK, Named
    <3>4. QED
      BY <1>1, <2>1, <3>1, <3>3
  <2>4. CASE Publishes(p)'
    <3>1. ~Executes(p)' /\ ~At(p, "after")'
      BY <2>4 DEF Executes, Publishes, At, CodexPc, PublishPc
    <3>2. \/ Publishes(p) /\ man'[j].state = man[j].state /\ man'[j].pid = man[j].pid
          \/ man'[j].state = "publishing" /\ man'[j].pid = p
      BY <2>2, <3>1 DEF Advances
    <3>3. man'[j].state = "publishing" /\ Named(p)'
      BY <1>o, <1>1, <2>1, <3>2 DEF NamedOK, Named
    <3>4. QED
      BY <1>1, <2>1, <3>1, <3>3
  <2>5. CASE At(p, "after")'
    <3>1. ~Executes(p)' /\ ~Publishes(p)'
      BY <2>5 DEF Executes, Publishes, At, CodexPc, PublishPc
    <3>2. Executes(p)
      BY <2>2, <3>1 DEF Advances
    <3>3. \/ man[j].state = "running" /\ man[j].pid \in {None, p}
          \/ man[j].state = "cancelled"
      BY <3>2 DEF NamedOK, Named
    <3>4. j \in AutoJobs => \/ man'[j].state \in {"failed", "cancelled"}
                            \/ man'[j].state = "prepared" /\ man'[j].pid = p
      BY <2>2, <3>1, <3>3 DEF Advances
    <3>5. QED
      BY <1>1, <2>1, <3>1, <3>4
  <2>6. QED
    BY <1>1, <2>3, <2>4, <2>5
<1>2. CASE q # p
  <2>1. proc'[q] = proc[q] /\ JobOf(q)' = JobOf(q)
    BY <1>2 DEF Alive, JobOf
  <2>2. /\ Executes(q)' <=> Executes(q)
        /\ Publishes(q)' <=> Publishes(q)
        /\ At(q, "after")' <=> At(q, "after")
    BY <2>1 DEF Executes, Publishes, At
  <2>3. JobOf(q) \in Jobs
    BY <2>2, JobType DEF Executes, Publishes, At, CodexPc, PublishPc
  <2>4. CASE JobOf(q) # j \/ (man'[j].state = man[j].state /\ man'[j].pid = man[j].pid)
    <3>1. man'[JobOf(q)].state = man[JobOf(q)].state /\ man'[JobOf(q)].pid = man[JobOf(q)].pid
      BY <2>3, <2>4 DEF Alive
    <3>2. Named(q)' <=> Named(q)
      BY <1>o, <2>1, <3>1 DEF Named
    <3>3. QED
      BY <1>o, <2>1, <2>2, <3>1, <3>2 DEF NamedOK
  <2>5. CASE JobOf(q) = j /\ ~(man'[j].state = man[j].state /\ man'[j].pid = man[j].pid)
    <3>1. Runs(p)
      BY <2>5, MoversRun
    <3>2. ~Executes(q) /\ ~Publishes(q)
      BY <1>2, <3>1 DEF OneRuns, Runs
    <3>3. At(q, "after") /\ (j \in AutoJobs =>
               \/ man[j].state \in {"failed", "cancelled"}
               \/ man[j].state = "prepared" /\ man[j].pid = q)
      BY <2>2, <2>5, <3>2 DEF NamedOK
    <3>4. ~(j \in AutoJobs /\ HandsOff(q))
      BY <1>2, <3>1 DEF OneRuns, Runs
    <3>5. j \in AutoJobs => man[j].state \in {"failed", "cancelled"}
      BY <2>5, <3>3, <3>4 DEF HandsOff
    <3>6. j \in AutoJobs => man'[j].state = man[j].state
      BY <3>5 DEF Advances, NamedOK, HandsOff
    <3>7. QED
      BY <2>1, <2>2, <2>5, <3>2, <3>5, <3>6
  <2>6. QED
    BY <2>4, <2>5
<1>3. QED
  BY <1>1, <1>2

LEMMA ChildLaunch ==
    ASSUME ChildType, NamedOK, OneRuns, LaunchOK, Fewer, NEW p \in Pids, NEW j \in Jobs,
           JobOf(p) = j, Alive(p, j), Advances(p, j), DispType
    PROVE  LaunchOK'
<1>o. UNCHANGED disp
  BY DEF Alive, loop
<1>1. disp.pc \in {"rescan", "claim", "start", "handoff", "own", "spawn"} =>
          \A q \in Pids : ~Runs(q)'
  BY DEF LaunchOK, Fewer
<1>2. disp.pc \in {"reread", "cleanup", "decide", "lost", "unsafe", "requeue", "giveup"} =>
          Unserved(disp.job)'
  BY <1>o DEF LaunchOK, Fewer, Unserved
<1>3. disp.pc = "spawn" => man'[disp.job].state = Launched /\ man'[disp.job].pid = None
  <2> SUFFICES ASSUME disp.pc = "spawn"
               PROVE  man'[disp.job].state = Launched /\ man'[disp.job].pid = None
    OBVIOUS
  <2>1. man'[j].state = man[j].state /\ man'[j].pid = man[j].pid
    BY MoversRun DEF LaunchOK
  <2>2. disp.job \in Jobs
    BY DEF DispType
  <2>3. QED
    BY <2>1, <2>2 DEF LaunchOK, Alive
<1>4. ASSUME disp.pc = "record", NEW q \in Pids, Runs(q)'
      PROVE  q = disp.pid /\ (man'[disp.job].pid = None => man'[disp.job].state = Launched)
  <2>1. q = disp.pid /\ Runs(q) /\ (man[disp.job].pid = None => man[disp.job].state = Launched)
    BY <1>4 DEF Fewer, LaunchOK
  <2>2. disp.job \in Jobs
    BY <1>4 DEF DispType
  <2>3. CASE disp.job # j
    BY <2>1, <2>2, <2>3 DEF Alive
  <2>4. CASE disp.job = j /\ q # p
    <3>1. man'[j].state = man[j].state /\ man'[j].pid = man[j].pid
      BY <2>1, <2>4, MoversRun DEF OneRuns
    <3>2. QED
      BY <2>1, <2>4, <3>1
  <2>5. CASE disp.job = j /\ q = p
    <3>1. p # None
      BY NoneAssumption
    <3>2. ~(proc'[p].pc \in {"dead", "finread", "finwrite"})
      BY <1>4, <2>5 DEF Runs, Executes, Publishes, HandsOff, At, CodexPc, PublishPc
    <3>3. At(p, "after")' => HandsOff(p)'
      BY <1>4, <2>5 DEF Runs, Executes, Publishes, At, CodexPc, PublishPc
    <3>4. JobOf(p)' = j
      BY <2>5, <1>4 DEF Fewer
    <3>5. man'[j].pid = p \/ (man'[j].state = man[j].state /\ man'[j].pid = man[j].pid)
      BY <3>2, <3>3, <3>4 DEF Advances, HandsOff
    <3>6. QED
      BY <2>1, <2>5, <3>1, <3>5
  <2>6. QED
    BY <2>3, <2>4, <2>5
<1>5. QED
  BY <1>o, <1>1, <1>2, <1>3, <1>4 DEF LaunchOK, Launched

\* While no child starts to work, what was read of the ones that work stays right.
LEMMA FewerOne == ASSUME OneRuns, Fewer PROVE OneRuns'
BY DEF OneRuns, Fewer

LEMMA FewerKill == ASSUME KillOK, Fewer, UNCHANGED cancel PROVE KillOK'
BY DEF KillOK, Fewer, Unserved

-----------------------------------------------------------------------------
\* What the manager does while it awaits no child leaves them as they are, except that
\* it kills some.
Spared == \A q \in Pids : proc'[q] = proc[q] \/ proc'[q] = NoChild

LEMMA ManagerFewer ==
    ASSUME ChildType, NamedOK, Spared,
           \A k \in Jobs : man'[k].state = "prepared" => man[k].state \in {"prepared", "publishing"}
    PROVE  Fewer
<1> SUFFICES ASSUME NEW q \in Pids, Runs(q)' PROVE Runs(q) /\ JobOf(q)' = JobOf(q)
  BY DEF Fewer
<1>1. proc'[q] = proc[q]
  BY DEF Spared, Runs, Executes, Publishes, HandsOff, At, NoChild, CodexPc, PublishPc
<1>2. CASE Executes(q)' \/ Publishes(q)'
  BY <1>1, <1>2 DEF Runs, Executes, Publishes, At, JobOf
<1>3. CASE HandsOff(q)'
  <2>1. At(q, "after") /\ JobOf(q) \in AutoJobs /\ JobOf(q)' = JobOf(q)
    BY <1>1, <1>3 DEF HandsOff, At, JobOf
  <2>2. JobOf(q) \in Jobs
    BY <2>1, JobType DEF At
  <2>3. man[JobOf(q)].state \in {"failed", "cancelled", "prepared"}
    BY <2>1 DEF NamedOK
  <2>4. man'[JobOf(q)].state = "prepared"
    BY <1>3, <2>1 DEF HandsOff
  <2>5. man[JobOf(q)].state = "prepared"
    BY <2>2, <2>3, <2>4
  <2>6. QED
    BY <2>1, <2>5 DEF Runs, HandsOff
<1>4. QED
  BY <1>2, <1>3 DEF Runs

\* A step of the manager that moves no manifest but that of a job without a child keeps
\* every child named.
LEMMA ManagerNamed ==
    ASSUME ChildType, NamedOK, Spared, NEW j,
           \A k \in Jobs \ {j} : man'[k].state = man[k].state /\ man'[k].pid = man[k].pid,
           \/ man'[j].state = man[j].state /\ man'[j].pid = man[j].pid
           \/ Unserved(j) /\ man[j].state \notin {"failed", "cancelled"},
           UNCHANGED disp \/ disp.pc # "record", UNCHANGED cancel \/ cancel.pc # "kill"
    PROVE  NamedOK'
<1> SUFFICES ASSUME NEW q \in Pids, proc'[q] = proc[q],
                    Executes(q)' \/ Publishes(q)' \/ At(q, "after")' PROVE
        LET k == JobOf(q)' IN
        /\ Executes(q)' => \/ man'[k].state = "running" /\ Named(q)'
                           \/ man'[k].state = "cancelled" /\ cancel'.pc = "kill" /\ cancel'.job = k
        /\ Publishes(q)' => man'[k].state = "publishing" /\ Named(q)'
        /\ At(q, "after")' /\ k \in AutoJobs =>
              \/ man'[k].state \in {"failed", "cancelled"}
              \/ man'[k].state = "prepared" /\ man'[k].pid = q
  <2>1. ASSUME NEW q \in Pids, proc'[q] = NoChild
        PROVE  ~Executes(q)' /\ ~Publishes(q)' /\ ~At(q, "after")'
    BY <2>1 DEF Executes, Publishes, At, NoChild, CodexPc, PublishPc
  <2>2. QED
    BY <2>1 DEF NamedOK, Spared
<1>1. /\ JobOf(q)' = JobOf(q)
      /\ Executes(q)' <=> Executes(q)
      /\ Publishes(q)' <=> Publishes(q)
      /\ At(q, "after")' <=> At(q, "after")
  BY DEF Executes, Publishes, At, JobOf
<1>2. JobOf(q) \in Jobs
  BY <1>1, JobType DEF Executes, Publishes, At, CodexPc, PublishPc
<1>3. CASE man'[JobOf(q)].state = man[JobOf(q)].state /\ man'[JobOf(q)].pid = man[JobOf(q)].pid
  <2>1. Named(q) => Named(q)'
    BY <1>1, <1>3 DEF Named
  <2>2. QED
    BY <1>1, <1>3, <2>1 DEF NamedOK
<1>4. CASE JobOf(q) = j /\ Unserved(j) /\ man[j].state \notin {"failed", "cancelled"}
  <2>1. ~Executes(q) /\ ~Publishes(q) /\ ~HandsOff(q)
    BY <1>4 DEF Unserved, Runs
  <2>2. ~(At(q, "after") /\ j \in AutoJobs)
    BY <1>4, <2>1 DEF NamedOK, HandsOff
  <2>3. QED
    BY <1>1, <1>4, <2>1, <2>2
<1>5. QED
  BY <1>2, <1>3, <1>4

-----------------------------------------------------------------------------
\* The looks of the dispatcher: a child that works makes its job active.
LEMMA RunnerActive ==
    ASSUME ChildType, NamedOK, disp.pc # "record", cancel.pc # "kill",
           NEW p \in Pids, Runs(p)
    PROVE  /\ JobOf(p) \in Jobs /\ man[JobOf(p)].pid = p
           /\ IsActive(JobOf(p)) /\ Live(p, JobOf(p))
<1>1. proc[p].pc # "dead"
  BY DEF Runs, Executes, Publishes, HandsOff, At, CodexPc, PublishPc
<1>2. JobOf(p) \in Jobs
  BY <1>1, JobType
<1>3. CASE Executes(p) \/ Publishes(p)
  <2>1. man[JobOf(p)].state \in {"running", "publishing"} /\ man[JobOf(p)].pid = p
    BY <1>3 DEF NamedOK, Named
  <2>2. QED
    BY <1>1, <1>2, <2>1 DEF IsActive, Live, JobOf
<1>4. CASE HandsOff(p)
  <2>1. /\ JobOf(p) \in AutoJobs /\ man[JobOf(p)].state = "prepared"
        /\ man[JobOf(p)].pid = p
    BY <1>4 DEF HandsOff, NamedOK
  <2>2. QED
    BY <1>1, <1>2, <2>1, NoneAssumption DEF IsActive, Live, JobOf
<1>5. QED
  BY <1>3, <1>4 DEF Runs

\* Whoever has the event loop finds the others waiting.
LEMMA FreeTurn == ASSUME TurnsOK, LoopFree PROVE Awaiting /\ Waiting /\ publish.pc = "idle"
BY DEF TurnsOK, LoopFree, Awaiting, Waiting

LEMMA BusyTurn == ASSUME TurnsOK, ~Awaiting PROVE Waiting /\ publish.pc = "idle"
BY DEF TurnsOK

\* What each step of the dispatcher makes of its coroutine.
LEMMA DispatchView ==
    ASSUME DispType, Dispatch
    PROVE  \/ disp' = Scanning
           \/ /\ ScanOrphan /\ disp'.pc = "reread"
              /\ disp'.job \in Active /\ ~Live(man[disp'.job].pid, disp'.job)
           \/ ScanRetention /\ disp'.pc = "rescan"
           \/ Choose /\ disp'.pc \in {"claim", "start"}
           \/ /\ Reread /\ disp'.pc \in {"decide", "cleanup"} /\ disp'.job = disp.job
              /\ disp'.pc = "cleanup" => Sandbox
           \/ DecideHandoff /\ disp'.pc = "handoff" /\ ~HasActiveProcess(disp.job) /\ disp'.job = disp.job
           \/ /\ DecidePublishing /\ disp'.pc \in {"own", "lost"}
              /\ ~HasActiveProcess(disp.job) /\ disp'.job = disp.job
           \/ DecideRunning /\ disp'.pc \in {"giveup", "requeue", "unsafe"} /\ disp'.job = disp.job
           \/ /\ DispatchUpdate /\ disp.pc \in {"handoff", "own", "claim"}
              /\ man[disp.job].state = From[disp.pc] /\ Become(disp.job, To[disp.pc], None)
              /\ disp'.pc = "spawn" /\ disp'.task = "publish" /\ disp'.job = disp.job
           \/ /\ DispatchStart /\ man[disp.job].state = "queued"
              /\ disp'.pc = "spawn" /\ disp'.task = "codex" /\ disp'.job = disp.job
           \/ /\ Spawn /\ disp'.pc = "record" /\ disp'.pid \in Pids
              /\ disp'.job = disp.job /\ disp'.task = disp.task
           \/ SpawnFails /\ disp'.pc = "finish"
<1>0. disp \in Dispatcher
  BY DEF DispType
<1>e. ASSUME NEW j, NEW pc, disp' = [Scanning EXCEPT !.pc = pc, !.job = j]
      PROVE  disp'.pc = pc /\ disp'.job = j
  BY <1>e DEF Scanning
<1>1. CASE ScanOrphan
  <2>1. PICK j \in Jobs : /\ First(j, Active) /\ ~Live(man[j].pid, j)
                          /\ disp' = [disp EXCEPT !.pc = "reread", !.job = j]
    BY <1>1 DEF ScanOrphan
  <2>2. disp'.pc = "reread" /\ disp'.job = j
    BY <1>0, <2>1 DEF Dispatcher
  <2>3. QED
    BY <1>1, <2>1, <2>2 DEF First
<1>2. CASE ScanRetention
  <2>1. disp'.pc = "rescan"
    BY <1>0, <1>2 DEF ScanRetention, Dispatcher
  <2>2. QED
    BY <1>2, <2>1
<1>3. CASE Choose
  BY <1>3, ChooseView
<1>4. CASE Reread
  <2>1. disp'.pc = (IF Sandbox /\ man[disp.job].state \in {"running", "publishing"}
                    THEN "cleanup" ELSE "decide")
        /\ disp'.job = disp.job
    BY <1>0, <1>4 DEF Reread, Dispatcher
  <2>2. QED
    BY <1>4, <2>1
<1>5. CASE DecideHandoff
  BY <1>5, <1>e DEF DecideHandoff
<1>6. CASE DecidePublishing
  <2>1. \/ disp' = Scanning
        \/ /\ ~HasActiveProcess(disp.job)
           /\ \/ disp' = [Scanning EXCEPT !.pc = "own", !.job = disp.job,
                                           !.override = intent[disp.job].override]
              \/ disp' = [Scanning EXCEPT !.pc = "lost", !.job = disp.job]
    BY <1>6 DEF DecidePublishing
  <2>2. ASSUME disp' = [Scanning EXCEPT !.pc = "own", !.job = disp.job,
                                        !.override = intent[disp.job].override]
        PROVE  disp'.pc = "own" /\ disp'.job = disp.job
    BY <2>2 DEF Scanning
  <2>3. QED
    BY <1>6, <1>e, <2>1, <2>2
<1>7. CASE DecideRunning
  <2>1. \E pc \in {"giveup", "requeue", "unsafe"} :
           disp' = [Scanning EXCEPT !.job = disp.job, !.pc = pc]
    BY <1>7 DEF DecideRunning
  <2>2. PICK pc \in {"giveup", "requeue", "unsafe"} :
           disp' = [Scanning EXCEPT !.job = disp.job, !.pc = pc]
    BY <2>1
  <2>3. disp'.pc = pc /\ disp'.job = disp.job
    BY <2>2 DEF Scanning
  <2>4. QED
    BY <1>7, <2>3
<1>8. CASE DispatchUpdate
  <2>1. \/ disp' = Scanning
        \/ /\ disp.pc \in {"handoff", "own", "claim"}
           /\ man[disp.job].state = From[disp.pc] /\ Become(disp.job, To[disp.pc], None)
           /\ disp' = [disp EXCEPT !.pc = "spawn", !.task = "publish"]
    BY <1>8 DEF DispatchUpdate
  <2>2. ASSUME disp' = [disp EXCEPT !.pc = "spawn", !.task = "publish"]
        PROVE  disp'.pc = "spawn" /\ disp'.task = "publish" /\ disp'.job = disp.job
    BY <1>0, <2>2 DEF Dispatcher
  <2>3. QED
    BY <1>8, <2>1, <2>2
<1>9. CASE DispatchStart
  <2>1. \/ disp' = Scanning
        \/ /\ man[disp.job].state = "queued"
           /\ disp' = [disp EXCEPT !.pc = "spawn", !.task = "codex"]
    BY <1>9 DEF DispatchStart
  <2>2. ASSUME disp' = [disp EXCEPT !.pc = "spawn", !.task = "codex"]
        PROVE  disp'.pc = "spawn" /\ disp'.task = "codex" /\ disp'.job = disp.job
    BY <1>0, <2>2 DEF Dispatcher
  <2>3. QED
    BY <1>9, <2>1, <2>2
<1>10. CASE Spawn
  <2>1. PICK p \in Pids : disp' = [disp EXCEPT !.pc = "record", !.pid = p]
    BY <1>10 DEF Spawn
  <2>2. disp'.pc = "record" /\ disp'.pid = p /\ disp'.job = disp.job /\ disp'.task = disp.task
    BY <1>0, <2>1 DEF Dispatcher
  <2>3. QED
    BY <1>10, <2>2
<1>11. CASE SpawnFails
  <2>1. disp' = Scanning \/ disp' = [disp EXCEPT !.pc = "finish"]
    BY <1>11 DEF SpawnFails
  <2>2. ASSUME disp' = [disp EXCEPT !.pc = "finish"] PROVE disp'.pc = "finish"
    BY <1>0, <2>2 DEF Dispatcher
  <2>3. QED
    BY <1>11, <2>1, <2>2
<1>12. CASE DecideNothing \/ DispatchFinish \/ RecordPid
  BY <1>12 DEF DecideNothing, DispatchFinish, RecordPid
<1>13. QED
  BY <1>1, <1>2, <1>3, <1>4, <1>5, <1>6, <1>7, <1>8, <1>9, <1>10, <1>11, <1>12 DEF Dispatch

\* While the dispatcher has the event loop no handler does.
LEMMA DispatchTurn ==
    ASSUME DispType, TurnsOK, Dispatch
    PROVE  Waiting /\ publish.pc = "idle" /\ UNCHANGED <<cancel, publish>>
<1>1. LoopFree \/ ~Awaiting
  BY DEF Dispatch, ScanOrphan, ScanRetention, Choose, Reread, DecideHandoff, DecidePublishing,
     DecideRunning, DecideNothing, Deciding, DispatchUpdate, DispatchStart, Spawn, SpawnFails,
     DispatchFinish, RecordPid, TurnsOK, Awaiting, From
<1>2. UNCHANGED <<cancel, publish>>
  BY DEF Dispatch, ScanOrphan, ScanRetention, Choose, Reread, DecideHandoff, DecidePublishing,
     DecideRunning, DecideNothing, DispatchUpdate, DispatchStart, Spawn, SpawnFails,
     DispatchFinish, RecordPid
<1>3. QED
  BY <1>1, <1>2, FreeTurn, BusyTurn

LEMMA TurnsStep ==
    ASSUME TypeOK, TurnsOK, Next
    PROVE  TurnsOK'
<1> USE DEF TurnsOK, Awaiting, Waiting
<1>1. CASE Dispatch
  BY <1>1, DispatchTurn DEF TypeOK
<1>5. CASE \E j \in Jobs : Create(j)
  BY <1>5 DEF Create, loop
<1>6. CASE \E j \in Jobs : CancelRead(j)
  BY <1>6, FreeTurn DEF CancelRead
<1>7. CASE \E j \in Jobs, o \in BOOLEAN : PublishRead(j, o)
  BY <1>7, FreeTurn DEF PublishRead
<1>8. CASE Handlers
  <2>1. CASE CancelStop
    BY <2>1 DEF CancelStop, HandlerType, Canceller, TypeOK
  <2>2. CASE CancelSettle
    <3>1. Awaiting /\ publish.pc = "idle"
      BY <2>2, FreeTurn DEF CancelSettle
    <3>2. QED
      BY <2>2, <3>1 DEF CancelSettle, NoCancel
  <2>3. CASE CancelClose \/ CancelKill \/ CancelRelease \/ CancelFinish
    BY <2>3 DEF CancelClose, CancelKill, CancelRelease, CancelFinish, NoCancel, HandlerType,
       Canceller, TypeOK
  <2>4. CASE PublishClaim
    BY <2>4 DEF PublishClaim, NoPublish
  <2>5. QED
    BY <1>8, <2>1, <2>2, <2>3, <2>4 DEF Handlers
<1>9. CASE \E p \in Pids : ChildStep(p) \/ Crash(p)
  <2>1. PICK p \in Pids : ChildStep(p) \/ Crash(p)
    BY <1>9
  <2>2. UNCHANGED loop
    BY <2>1, ChildJob, ChildTouches DEF Touches, TypeOK
  <2>3. QED
    BY <2>2 DEF loop
<1>10. CASE ManagerRestart
  BY <1>10 DEF ManagerRestart, Scanning, NoCancel, NoPublish
<1>11. QED
  BY <1>1, <1>5, <1>6, <1>7, <1>8, <1>9, <1>10 DEF Next

-----------------------------------------------------------------------------
\* What a step of the manager may do to the manifests: it moves at most one, of a job
\* that no child works for, and releases none but a claim.
Moves(j) ==
    /\ \A k \in Jobs \ {j} : man'[k] = man[k]
    /\ \/ UNCHANGED man
       \/ /\ Unserved(j) /\ man[j].state \notin {"failed", "cancelled"}
          /\ man'[j].state = "prepared" => man[j].state = "publishing"

LEMMA MovesFewer ==
    ASSUME ChildType, NamedOK, Spared, NEW j \in Jobs, Moves(j)
    PROVE  Fewer
<1>1. \A k \in Jobs : man'[k].state = "prepared" => man[k].state \in {"prepared", "publishing"}
  BY DEF Moves
<1>2. QED
  BY <1>1, ManagerFewer

LEMMA MovesNamed ==
    ASSUME ChildType, NamedOK, Spared, NEW j, Moves(j),
           UNCHANGED disp \/ disp.pc # "record", UNCHANGED cancel \/ cancel.pc # "kill"
    PROVE  NamedOK'
BY ManagerNamed DEF Moves

LEMMA DispatchMoves ==
    ASSUME StoreType, DispType, LaunchOK, Dispatch, ~Spawn, ~RecordPid
    PROVE  UNCHANGED proc /\ (UNCHANGED man \/ (disp.job \in Jobs /\ Moves(disp.job)))
<1> DEFINE j == disp.job
<1>1. CASE UNCHANGED man /\ UNCHANGED proc
  BY <1>1
<1>2. CASE DispatchUpdate /\ ~UNCHANGED man
  <2>1. disp.pc \in DOMAIN From /\ man[j].state = From[disp.pc] /\ Become(j, To[disp.pc], None)
    BY <1>2 DEF DispatchUpdate
  <2>2. j \in Jobs
    BY <2>1 DEF DispType, From
  <2>3. man'[j].state = To[disp.pc] /\ \A k \in Jobs \ {j} : man'[k] = man[k]
    BY <2>1, <2>2, BecomeView
  <2>4. Unserved(j)
    BY <2>1 DEF LaunchOK, Unserved, From
  <2>5. QED
    BY <1>2, <2>1, <2>2, <2>3, <2>4, Tables DEF Moves, DispatchUpdate, child
<1>3. CASE DispatchStart /\ ~UNCHANGED man
  <2>1. /\ disp.pc = "start" /\ man[j].state = "queued"
        /\ man' = [man EXCEPT ![j].state = "running", ![j].pid = None, ![j].attempts = @ + 1]
    BY <1>3 DEF DispatchStart
  <2>2. j \in Jobs /\ Unserved(j)
    BY <2>1 DEF DispType, LaunchOK, Unserved
  <2>3. man'[j].state = "running" /\ \A k \in Jobs \ {j} : man'[k] = man[k]
    BY <2>1, <2>2, StartView
  <2>4. QED
    BY <1>3, <2>1, <2>2, <2>3 DEF Moves, DispatchStart, child
<1>4. CASE SpawnFails /\ ~UNCHANGED man
  <2>1. /\ disp.pc = "spawn" /\ man[j].state = Launched
        /\ Become(j, IF disp.task = "codex" THEN "failed" ELSE "prepared", None)
    BY <1>4 DEF SpawnFails
  <2>2. j \in Jobs /\ Unserved(j)
    BY <2>1 DEF DispType, LaunchOK, Unserved
  <2>3. /\ man'[j].state = (IF disp.task = "codex" THEN "failed" ELSE "prepared")
        /\ \A k \in Jobs \ {j} : man'[k] = man[k]
    BY <2>1, <2>2, BecomeView
  <2>4. QED
    BY <1>4, <2>1, <2>2, <2>3 DEF Moves, SpawnFails, child, Launched
<1>5. \/ UNCHANGED man /\ UNCHANGED proc
      \/ ~UNCHANGED man /\ (DispatchUpdate \/ DispatchStart \/ SpawnFails)
  <2>1. UNCHANGED proc
    BY DEF Dispatch, ScanOrphan, ScanRetention, Choose, Reread, DecideHandoff, DecidePublishing,
       DecideRunning, DecideNothing, DispatchUpdate, DispatchStart, SpawnFails, DispatchFinish, child
  <2>2. DispatchUpdate \/ DispatchStart \/ SpawnFails \/ UNCHANGED man
    BY DEF Dispatch, ScanOrphan, ScanRetention, Choose, Reread, DecideHandoff, DecidePublishing,
       DecideRunning, DecideNothing, DispatchFinish
  <2>3. QED
    BY <2>1, <2>2
<1>6. QED
  BY <1>1, <1>2, <1>3, <1>4, <1>5

\* The child that is recorded is the only one, and its manifest is still as it was
\* launched, or the child has claimed it.
LEMMA RecordKeeps ==
    ASSUME StoreType, ChildType, DispType, NamedOK, LaunchOK, RecordPid
    PROVE  Fewer /\ NamedOK'
<1> DEFINE j == disp.job
<1>1. j \in Jobs /\ disp.pid \in Pids /\ disp.pc = "record" /\ UNCHANGED <<proc, cancel>>
  BY DEF RecordPid, DispType, child
<1>s. Spared
  BY <1>1 DEF Spared
<1>2. CASE UNCHANGED man
  <2>1. Fewer
    BY <1>1, <1>2, <1>s, ManagerFewer
  <2>2. NamedOK'
    <3>1. SUFFICES ASSUME NEW q \in Pids, Executes(q) \/ Publishes(q), Named(q),
                          man[JobOf(q)].state \in {"running", "publishing"}
                   PROVE  man[JobOf(q)].pid = q
      BY <1>1, <1>2 DEF NamedOK, Named, Executes, Publishes, At, JobOf
    <3>2. CASE man[JobOf(q)].pid = None /\ disp.job = JobOf(q)
      <4>1. man[j].state = Launched
        BY <1>1, <3>1, <3>2 DEF LaunchOK, Runs
      <4>2. Become(j, Launched, disp.pid)
        BY <4>1 DEF RecordPid
      <4>3. man'[j].pid = disp.pid
        BY <1>1, <4>2, BecomeView
      <4>4. QED
        BY <1>1, <1>2, <3>2, <4>3, NoneAssumption
    <3>3. QED
      BY <3>1, <3>2 DEF Named
  <2>3. QED
    BY <2>1, <2>2
<1>3. CASE man[j].state = Launched /\ Become(j, Launched, disp.pid)
  <2>1. /\ man'[j].state = man[j].state /\ man'[j].pid = disp.pid
        /\ \A k \in Jobs \ {j} : man'[k] = man[k]
    BY <1>1, <1>3, BecomeView
  <2>2. man[j].state \in {"running", "publishing"}
    BY <1>3 DEF Launched
  <2>3. Fewer
    BY <1>s, <2>1, ManagerFewer
  <2>4. NamedOK'
    <3> SUFFICES ASSUME NEW q \in Pids, Executes(q) \/ Publishes(q) \/ At(q, "after") PROVE
          LET k == JobOf(q) IN
          /\ Executes(q) => \/ man'[k].state = "running" /\ Named(q)'
                            \/ man'[k].state = "cancelled" /\ cancel.pc = "kill" /\ cancel.job = k
          /\ Publishes(q) => man'[k].state = "publishing" /\ Named(q)'
          /\ At(q, "after") /\ k \in AutoJobs =>
                \/ man'[k].state \in {"failed", "cancelled"}
                \/ man'[k].state = "prepared" /\ man'[k].pid = q
      BY <1>1 DEF NamedOK, Executes, Publishes, At, JobOf
    <3>1. JobOf(q) \in Jobs
      BY JobType DEF Executes, Publishes, At, CodexPc, PublishPc
    <3>2. CASE JobOf(q) # j
      <4>1. man'[JobOf(q)] = man[JobOf(q)]
        BY <2>1, <3>1, <3>2
      <4>2. Named(q) => Named(q)'
        BY <1>1, <3>2, <4>1 DEF Named, JobOf
      <4>3. QED
        BY <4>1, <4>2 DEF NamedOK
    <3>3. CASE JobOf(q) = j
      <4>1. ~(At(q, "after") /\ j \in AutoJobs)
        BY <2>2, <3>3 DEF NamedOK
      <4>2. Executes(q) \/ Publishes(q) => q = disp.pid
        BY <1>1 DEF LaunchOK, Runs
      <4>3. Executes(q) \/ Publishes(q) => Named(q)'
        BY <1>1, <2>1, <3>3, <4>2 DEF Named, JobOf
      <4>4. QED
        BY <2>1, <2>2, <3>3, <4>1, <4>3 DEF NamedOK
    <3>4. QED
      BY <3>2, <3>3
  <2>5. QED
    BY <2>3, <2>4
<1>4. QED
  BY <1>2, <1>3 DEF RecordPid

\* A launch makes the first child that works.
LEMMA SpawnKeeps ==
    ASSUME ChildType, DispType, NamedOK, LaunchOK, KillOK, Spawn, Waiting, LaunchesElsewhere
    PROVE  NamedOK' /\ OneRuns' /\ LaunchOK' /\ KillOK'
<1> DEFINE j == disp.job
<1>1. PICK p \in Pids :
        /\ proc[p].pc = "dead"
        /\ proc' = [proc EXCEPT ![p] = [job |-> j, task |-> disp.task, pc |-> "lease",
                                        override |-> disp.override, seen |-> NoIntent]]
        /\ disp' = [disp EXCEPT !.pc = "record", !.pid = p]
  BY DEF Spawn
<1>p. proc[p].pc = "dead"
  BY <1>1
<1>2. /\ proc'[p].job = j /\ proc'[p].task = disp.task /\ proc'[p].pc = "lease"
      /\ \A q \in Pids \ {p} : proc'[q] = proc[q]
  BY <1>1 DEF ChildType
<1>3. /\ disp.pc = "spawn" /\ j \in Jobs /\ disp.task \in {"codex", "publish"}
      /\ disp'.pc = "record" /\ disp'.pid = p /\ disp'.job = j /\ disp'.task = disp.task
  BY <1>1 DEF Spawn, DispType, Dispatcher
<1>4. UNCHANGED <<man, cancel>>
  BY DEF Spawn
<1>5. /\ \A q \in Pids : ~Runs(q)
      /\ man[j].state = Launched /\ man[j].pid = None
  BY <1>3 DEF LaunchOK
<1>6. \A q \in Pids \ {p} : ~Runs(q)'
  BY <1>2, <1>4, <1>5 DEF Runs, Executes, Publishes, HandsOff, At, JobOf
<1>7. NamedOK'
  <2> SUFFICES ASSUME NEW q \in Pids PROVE
        LET k == JobOf(q)' IN
        /\ Executes(q)' => \/ man'[k].state = "running" /\ Named(q)'
                           \/ man'[k].state = "cancelled" /\ cancel'.pc = "kill" /\ cancel'.job = k
        /\ Publishes(q)' => man'[k].state = "publishing" /\ Named(q)'
        /\ At(q, "after")' /\ k \in AutoJobs =>
              \/ man'[k].state \in {"failed", "cancelled"}
              \/ man'[k].state = "prepared" /\ man'[k].pid = q
    BY DEF NamedOK
  <2>1. CASE q = p
    <3>1. Named(p)' /\ JobOf(p)' = j
      BY <1>2, <1>3, <1>4, <1>5 DEF Named, JobOf
    <3>2. ~At(p, "after")' /\ (Executes(p)' => disp.task = "codex") /\ (Publishes(p)' => disp.task = "publish")
      BY <1>2 DEF At, Executes, Publishes, CodexPc, PublishPc
    <3>3. QED
      BY <1>4, <1>5, <2>1, <3>1, <3>2 DEF Launched
  <2>2. CASE q # p
    <3>1. ~Executes(q)' /\ ~Publishes(q)'
      BY <1>6, <2>2 DEF Runs
    <3>2. At(q, "after")' => At(q, "after") /\ JobOf(q)' = JobOf(q)
      BY <1>2, <2>2 DEF At, JobOf
    <3>3. QED
      BY <1>4, <3>1, <3>2 DEF NamedOK
  <2>3. QED
    BY <2>1, <2>2
<1>8. OneRuns'
  BY <1>6 DEF OneRuns
<1>9. LaunchOK'
  BY <1>3, <1>4, <1>5, <1>6 DEF LaunchOK, Launched
<1>10. KillOK'
  <2>1. cancel.pc = "idle" => KillOK'
    BY <1>4 DEF KillOK
  <2>2. ASSUME cancel.pc = "cleanup" PROVE JobOf(p)' # cancel.job
    <3>1. At(p, "dead") /\ proc'[p].pc = "lease"
      BY <1>2, <1>p DEF At
    <3>2. QED
      BY <2>2, <3>1 DEF LaunchesElsewhere, JobOf
  <2>3. ASSUME cancel.pc = "cleanup" PROVE Unserved(cancel.job)'
    BY <1>4, <1>6, <2>2, <2>3 DEF Unserved
  <2>4. QED
    BY <1>4, <2>1, <2>3 DEF KillOK, Waiting
<1>11. QED
  BY <1>7, <1>8, <1>9, <1>10

\* Where the dispatcher goes on to launch it has made sure that no child works.
LEMMA DispatchLaunch ==
    ASSUME StoreType, ChildType, DispType, NamedOK, LaunchOK, Fewer, TurnsOK, Dispatch, ~Spawn,
           Waiting
    PROVE  LaunchOK'
<1> DEFINE j == disp.job
<1>0. \A q \in Pids : Runs(q)' => Runs(q)
  BY DEF Fewer
<1>k. cancel.pc # "kill"
  BY DEF Waiting
<1>n. ASSUME NEW k, disp.job = k, disp'.job = k, Unserved(k) PROVE Unserved(disp.job)'
  BY <1>n DEF Fewer, Unserved
<1>o. ASSUME ~HasActiveProcess(j), Unserved(j), disp.pc # "record", NEW q \in Pids PROVE ~Runs(q)
  <2> SUFFICES ASSUME Runs(q) PROVE FALSE
    OBVIOUS
  <2>1. /\ JobOf(q) \in Jobs /\ man[JobOf(q)].pid = q
        /\ IsActive(JobOf(q)) /\ Live(q, JobOf(q))
    BY <1>k, <1>o, RunnerActive
  <2>2. JobOf(q) # j
    BY <1>o DEF Unserved
  <2>3. QED
    BY <1>o, <2>1, <2>2 DEF HasActiveProcess
<1>i. ASSUME Active = {}, disp.pc # "record", NEW q \in Pids PROVE ~Runs(q)
  BY <1>i, <1>k, RunnerActive DEF Active
<1>1. CASE disp' = Scanning \/ disp'.pc = "finish"
  BY <1>1, IdleView DEF LaunchOK
<1>2. CASE /\ ScanOrphan /\ disp'.pc = "reread"
           /\ disp'.job \in Active /\ ~Live(man[disp'.job].pid, disp'.job)
  <2>1. disp.pc # "record"
    BY <1>2 DEF ScanOrphan
  <2>2. ASSUME NEW q \in Pids, Runs(q) PROVE JobOf(q) # disp'.job
    BY <1>2, <1>k, <2>1, <2>2, RunnerActive
  <2>3. Unserved(disp.job)'
    BY <2>2 DEF Unserved, Fewer
  <2>4. QED
    BY <1>2, <2>3 DEF LaunchOK
<1>3. CASE ScanRetention /\ disp'.pc = "rescan"
  <2>1. disp.pc # "record" /\ Active = {}
    BY <1>3 DEF ScanRetention
  <2>2. QED
    BY <1>0, <1>3, <1>i, <2>1 DEF LaunchOK
<1>4. CASE Choose /\ disp'.pc \in {"claim", "start"}
  <2>1. disp.pc = "rescan" \/ (disp.pc = "scan" /\ Active = {})
    BY <1>4 DEF Choose
  <2>2. \A q \in Pids : ~Runs(q)
    BY <1>i, <2>1 DEF LaunchOK
  <2>3. QED
    BY <1>0, <1>4, <2>2 DEF LaunchOK
<1>5. CASE Reread /\ disp'.pc \in {"decide", "cleanup"} /\ disp'.job = j
  BY <1>5, <1>n DEF Reread, LaunchOK
<1>6. CASE \/ DecideHandoff /\ disp'.pc = "handoff" /\ ~HasActiveProcess(j) /\ disp'.job = j
           \/ /\ DecidePublishing /\ disp'.pc \in {"own", "lost"}
              /\ ~HasActiveProcess(j) /\ disp'.job = j
  <2>1. disp.pc \in {"decide", "cleanup"}
    BY <1>6 DEF DecideHandoff, DecidePublishing, Deciding
  <2>2. Unserved(j)
    BY <2>1 DEF LaunchOK
  <2>3. \A q \in Pids : ~Runs(q)
    BY <1>6, <1>o, <2>1, <2>2
  <2>4. QED
    BY <1>0, <1>6, <1>n, <2>2, <2>3 DEF LaunchOK
<1>7. CASE DecideRunning /\ disp'.pc \in {"giveup", "requeue", "unsafe"} /\ disp'.job = j
  <2>1. disp.pc \in {"decide", "cleanup"}
    BY <1>7 DEF DecideRunning, Deciding
  <2>2. QED
    BY <1>7, <1>n, <2>1 DEF LaunchOK
<1>8. CASE /\ DispatchUpdate /\ disp.pc \in {"handoff", "own", "claim"}
           /\ man[disp.job].state = From[disp.pc] /\ Become(disp.job, To[disp.pc], None)
           /\ disp'.pc = "spawn" /\ disp'.task = "publish" /\ disp'.job = disp.job
  <2>1. j \in Jobs
    BY <1>8 DEF DispType
  <2>2. man'[j].state = "publishing" /\ man'[j].pid = None
    BY <1>8, <2>1, BecomeView DEF To
  <2>3. \A q \in Pids : ~Runs(q)
    BY <1>8 DEF LaunchOK
  <2>4. QED
    BY <1>0, <1>8, <2>2, <2>3 DEF LaunchOK, Launched
<1>9. CASE /\ DispatchStart /\ man[disp.job].state = "queued"
           /\ disp'.pc = "spawn" /\ disp'.task = "codex" /\ disp'.job = disp.job
  <2>1. disp.pc = "start" /\ j \in Jobs
    BY <1>9 DEF DispatchStart, DispType
  <2>2. man' = [man EXCEPT ![j].state = "running", ![j].pid = None, ![j].attempts = @ + 1]
    BY <1>9 DEF DispatchStart
  <2>3. man'[j].state = "running" /\ man'[j].pid = None
    BY <2>1, <2>2, StartView
  <2>4. \A q \in Pids : ~Runs(q)
    BY <2>1 DEF LaunchOK
  <2>5. QED
    BY <1>0, <1>9, <2>3, <2>4 DEF LaunchOK, Launched
<1>10. QED
  BY <1>1, <1>2, <1>3, <1>4, <1>5, <1>6, <1>7, <1>8, <1>9, DispatchView

\* A step of the dispatcher keeps everything.
LEMMA DispatchKeeps ==
    ASSUME TypeOK, TurnsOK, NamedOK, OneRuns, LaunchOK, KillOK, LaunchesElsewhere, Dispatch
    PROVE  NamedOK' /\ OneRuns' /\ LaunchOK' /\ KillOK'
<1>t. StoreType /\ ChildType /\ DispType
  BY DEF TypeOK
<1>1. Waiting /\ UNCHANGED cancel
  BY <1>t, DispatchTurn
<1>2. CASE Spawn
  BY <1>1, <1>2, <1>t, SpawnKeeps
<1>3. CASE ~Spawn
  <2>1. Fewer /\ NamedOK'
    <3>1. CASE RecordPid
      BY <1>t, <3>1, RecordKeeps
    <3>2. CASE ~RecordPid
      <4>1. UNCHANGED proc /\ (UNCHANGED man \/ (disp.job \in Jobs /\ Moves(disp.job)))
        BY <1>3, <1>t, <3>2, DispatchMoves
      <4>2. Spared
        BY <4>1 DEF Spared
      <4>3. disp.pc # "record"
        BY <3>2, <1>3 DEF Dispatch, ScanOrphan, ScanRetention, Choose, Reread, DecideHandoff,
           DecidePublishing, DecideRunning, DecideNothing, Deciding, DispatchUpdate, DispatchStart,
           SpawnFails, DispatchFinish, From
      <4>4. CASE UNCHANGED man
        <5>1. Fewer
          BY <1>t, <4>2, <4>4, ManagerFewer
        <5>2. NamedOK'
          BY <1>1, <1>t, <4>2, <4>3, <4>4, ManagerNamed
        <5>3. QED
          BY <5>1, <5>2
      <4>5. CASE disp.job \in Jobs /\ Moves(disp.job)
        BY <1>1, <1>t, <4>2, <4>3, <4>5, MovesFewer, MovesNamed
      <4>6. QED
        BY <4>1, <4>4, <4>5
    <3>3. QED
      BY <3>1, <3>2
  <2>2. LaunchOK'
    BY <1>1, <1>3, <1>t, <2>1, DispatchLaunch
  <2>3. QED
    BY <1>1, <2>1, <2>2, FewerOne, FewerKill
<1>4. QED
  BY <1>2, <1>3

-----------------------------------------------------------------------------
\* A handler runs while the dispatcher awaits, so it finds no launch under way.
LEMMA HandlerLaunch ==
    ASSUME LaunchOK, Fewer, Awaiting, UNCHANGED disp
    PROVE  LaunchOK'
<1>1. ASSUME NEW k, Unserved(k) PROVE Unserved(k)'
  BY <1>1 DEF Fewer, Unserved
<1>2. QED
  BY <1>1 DEF LaunchOK, Fewer, Awaiting

\* A process that is told to go is gone.
LEMMA Terminated ==
    ASSUME ChildType, NEW p, NEW j, TerminateGroup(p, j)
    PROVE  /\ Spared
           /\ \A q \in Pids : q = p /\ JobOf(q) = j => proc'[q].pc = "dead"
<1>1. CASE UNCHANGED child /\ ~Live(p, j)
  BY <1>1 DEF Spared, child, Live, JobOf
<1>2. CASE Live(p, j) /\ Dies(p)
  <2>1. p \in Pids
    BY <1>2 DEF Live
  <2>2. proc'[p] = NoChild /\ \A q \in Pids \ {p} : proc'[q] = proc[q]
    BY <1>2, <2>1, DiesView
  <2>3. Spared
    BY <2>2 DEF Spared
  <2>4. proc'[p].pc = "dead"
    BY <2>2 DEF NoChild
  <2>5. QED
    BY <2>3, <2>4
<1>3. QED
  BY <1>1, <1>2 DEF TerminateGroup

LEMMA DeadRest ==
    ASSUME NEW q \in Pids, proc'[q].pc = "dead"
    PROVE  ~Runs(q)' /\ ~Executes(q)'
BY DEF Runs, Executes, Publishes, HandsOff, At, CodexPc, PublishPc

\* The handlers that kill nothing and close nothing.
LEMMA HandlerKeeps ==
    ASSUME TypeOK, TurnsOK, NamedOK, OneRuns, LaunchOK, KillOK, ClaimOK,
           \/ \E j \in Jobs : Create(j) \/ CancelRead(j)
           \/ \E j \in Jobs, o \in BOOLEAN : PublishRead(j, o)
           \/ CancelSettle \/ CancelRelease \/ CancelFinish \/ PublishClaim
    PROVE  NamedOK' /\ OneRuns' /\ LaunchOK' /\ KillOK'
<1>t. StoreType /\ ChildType /\ HandlerType
  BY DEF TypeOK
<1>0. UNCHANGED <<disp, proc>> /\ Awaiting
  BY FreeTurn DEF Create, CancelRead, PublishRead, CancelSettle, CancelRelease, CancelFinish,
     PublishClaim, loop, child, TurnsOK, Waiting
<1>s. Spared
  BY <1>0 DEF Spared
<1>1. cancel.pc # "kill"
  BY FreeTurn DEF Create, CancelRead, PublishRead, CancelSettle, CancelRelease, CancelFinish,
     PublishClaim, TurnsOK, Waiting
<1>2. CASE UNCHANGED man
  <2>1. Fewer
    BY <1>2, <1>s, <1>t, ManagerFewer
  <2>2. NamedOK'
    BY <1>0, <1>1, <1>2, <1>s, <1>t, ManagerNamed
  <2>3. KillOK'
    <3>1. CASE UNCHANGED cancel
      BY <2>1, <3>1, FewerKill
    <3>2. CASE \E j \in Jobs : CancelRead(j)
      <4>1. PICK j \in Jobs : CancelRead(j)
        BY <3>2
      <4>2. /\ cancel'.job = j /\ cancel'.pid = man[j].pid
            /\ cancel'.pc \in {"handoff", "stop", "close"}
        BY <4>1 DEF CancelRead
      <4>3. ASSUME NEW q \in Pids, Runs(q), JobOf(q) = j PROVE q = man[j].pid
        BY <1>0, <1>1, <1>t, <4>3, RunnerActive DEF Awaiting
      <4>4. QED
        BY <2>1, <4>2, <4>3 DEF KillOK, Fewer
    <3>3. CASE cancel' = NoCancel
      BY <3>3 DEF KillOK, NoCancel
    <3>4. CASE CancelSettle /\ cancel' = [cancel EXCEPT !.pc = "release"]
      <4>1. cancel'.pc = "release" /\ cancel'.job = cancel.job
        BY <1>t, <3>4 DEF HandlerType, Canceller
      <4>2. Unserved(cancel.job)
        BY <3>4 DEF CancelSettle, KillOK
      <4>3. QED
        BY <2>1, <4>1, <4>2 DEF KillOK, Fewer, Unserved
    <3>5. CASE CancelRelease \/ CancelFinish
      <4>1. cancel' = NoCancel \/ (cancel.pc = "release" /\ cancel' = [cancel EXCEPT !.pc = "finish"])
        BY <3>5 DEF CancelRelease, CancelFinish
      <4>2. CASE cancel.pc = "release" /\ cancel' = [cancel EXCEPT !.pc = "finish"]
        <5>1. cancel'.pc = "finish" /\ cancel'.job = cancel.job /\ Unserved(cancel.job)
          BY <1>t, <4>2 DEF HandlerType, Canceller, KillOK
        <5>2. QED
          BY <2>1, <5>1 DEF KillOK, Fewer, Unserved
      <4>3. QED
        BY <3>3, <4>1, <4>2
    <3>6. QED
      BY <3>1, <3>2, <3>3, <3>4, <3>5 DEF Create, PublishRead, CancelSettle, PublishClaim, loop
  <2>4. QED
    BY <1>0, <2>1, <2>2, <2>3, FewerOne, HandlerLaunch
<1>3. ASSUME NEW j \in Jobs, Moves(j), UNCHANGED cancel
      PROVE  NamedOK' /\ OneRuns' /\ LaunchOK' /\ KillOK'
  BY <1>0, <1>1, <1>3, <1>s, <1>t, MovesFewer, MovesNamed, FewerOne, FewerKill, HandlerLaunch
<1>u. ASSUME NEW j \in Jobs, man[j].state = "absent" PROVE Unserved(j)
  <2>1. ASSUME NEW q \in Pids, JobOf(q) = j, Runs(q) PROVE FALSE
    BY <1>1, <1>u, <2>1 DEF Runs, NamedOK, HandsOff
  <2>2. QED
    BY <2>1 DEF Unserved
<1>4. CASE \E j \in Jobs : Create(j)
  <2>1. PICK j \in Jobs : Create(j)
    BY <1>4
  <2>2. man'[j].state = "queued" /\ \A k \in Jobs \ {j} : man'[k] = man[k]
    BY <1>t, <2>1 DEF Create, StoreType, Manifest
  <2>3. Unserved(j) /\ man[j].state = "absent" /\ UNCHANGED cancel
    BY <1>u, <2>1 DEF Create, loop
  <2>4. QED
    BY <1>3, <2>2, <2>3 DEF Moves
<1>5. CASE PublishClaim /\ ~UNCHANGED man
  <2>1. publish.job \in Jobs /\ man[publish.job].state = "prepared"
        /\ Become(publish.job, "publishing", None) /\ UNCHANGED cancel
    BY <1>5, <1>t DEF PublishClaim, HandlerType
  <2>2. Unserved(publish.job)
    BY <1>5 DEF PublishClaim, ClaimOK
  <2>3. man'[publish.job].state = "publishing" /\ \A k \in Jobs \ {publish.job} : man'[k] = man[k]
    BY <1>t, <2>1, BecomeView
  <2>4. QED
    BY <1>3, <2>1, <2>2, <2>3 DEF Moves
<1>6. CASE CancelRelease /\ ~UNCHANGED man
  <2>1. /\ cancel.pc = "release" /\ cancel.job \in Jobs /\ man[cancel.job].state = "publishing"
        /\ Become(cancel.job, "prepared", None) /\ cancel' = [cancel EXCEPT !.pc = "finish"]
    BY <1>6, <1>t DEF CancelRelease, HandlerType
  <2>2. Unserved(cancel.job)
    BY <2>1 DEF KillOK
  <2>3. man'[cancel.job].state = "prepared" /\ \A k \in Jobs \ {cancel.job} : man'[k] = man[k]
    BY <1>t, <2>1, BecomeView
  <2>4. Moves(cancel.job)
    BY <2>1, <2>2, <2>3 DEF Moves
  <2>5. Fewer /\ NamedOK'
    BY <1>0, <1>1, <1>s, <1>t, <2>1, <2>4, MovesFewer, MovesNamed
  <2>6. cancel'.pc = "finish" /\ cancel'.job = cancel.job
    BY <1>t, <2>1 DEF HandlerType, Canceller
  <2>7. KillOK'
    BY <2>2, <2>5, <2>6 DEF KillOK, Fewer, Unserved
  <2>8. QED
    BY <1>0, <2>5, <2>7, FewerOne, HandlerLaunch
<1>7. QED
  BY <1>2, <1>4, <1>5, <1>6 DEF CancelRead, PublishRead, CancelSettle, CancelFinish

\* A cancellation closes the manifest of the child it is about to kill.
LEMMA CloseKeeps ==
    ASSUME TypeOK, TurnsOK, NamedOK, OneRuns, LaunchOK, KillOK, CancelClose
    PROVE  NamedOK' /\ OneRuns' /\ LaunchOK' /\ KillOK'
<1> DEFINE j == cancel.job
<1>t. StoreType /\ ChildType /\ HandlerType /\ cancel \in Canceller
  BY DEF TypeOK, HandlerType
<1>0. /\ UNCHANGED <<disp, proc>> /\ Awaiting /\ j \in Jobs
      /\ cancel.pc \in {"handoff", "close"}
  BY <1>t DEF CancelClose, child, TurnsOK, Waiting, HandlerType
<1>s. Spared
  BY <1>0 DEF Spared
<1>1. CASE UNCHANGED man /\ cancel' = NoCancel
  <2>1. Fewer
    BY <1>1, <1>s, <1>t, ManagerFewer
  <2>2. NamedOK'
    BY <1>0, <1>1, <1>s, <1>t, ManagerNamed
  <2>3. KillOK'
    BY <1>1 DEF KillOK, NoCancel
  <2>4. QED
    BY <1>0, <2>1, <2>2, <2>3, FewerOne, HandlerLaunch
<1>2. CASE /\ man[j].state \in (IF cancel.pc = "handoff" THEN {"prepared"} ELSE {"queued", "running"})
           /\ Become(j, "cancelled", None)
           /\ cancel' = [cancel EXCEPT !.pc = IF cancel.pc = "handoff" THEN "drop" ELSE "kill"]
  <2>1. man'[j].state = "cancelled" /\ \A k \in Jobs \ {j} : man'[k] = man[k]
    BY <1>0, <1>2, <1>t, BecomeView
  <2>2. Fewer
    BY <1>s, <1>t, <2>1, ManagerFewer
  <2>3. /\ cancel'.job = j /\ cancel'.pid = cancel.pid
        /\ cancel'.pc = (IF cancel.pc = "handoff" THEN "drop" ELSE "kill")
    BY <1>2, <1>t DEF Canceller
  <2>4. KillOK'
    BY <1>0, <2>2, <2>3 DEF KillOK, Fewer
  <2>5. NamedOK'
    <3> SUFFICES ASSUME NEW q \in Pids, Executes(q) \/ Publishes(q) \/ At(q, "after") PROVE
          LET k == JobOf(q) IN
          /\ Executes(q) => \/ man'[k].state = "running" /\ Named(q)'
                            \/ man'[k].state = "cancelled" /\ cancel'.pc = "kill" /\ cancel'.job = k
          /\ Publishes(q) => man'[k].state = "publishing" /\ Named(q)'
          /\ At(q, "after") /\ k \in AutoJobs =>
                \/ man'[k].state \in {"failed", "cancelled"}
                \/ man'[k].state = "prepared" /\ man'[k].pid = q
      BY <1>0 DEF NamedOK, Executes, Publishes, At, JobOf
    <3>1. JobOf(q) \in Jobs
      BY <1>t, JobType DEF Executes, Publishes, At, CodexPc, PublishPc
    <3>2. CASE JobOf(q) # j
      <4>1. man'[JobOf(q)] = man[JobOf(q)]
        BY <2>1, <3>1, <3>2
      <4>2. Named(q) => Named(q)'
        BY <1>0, <4>1 DEF Named, JobOf
      <4>3. QED
        BY <1>0, <4>1, <4>2 DEF NamedOK
    <3>3. CASE JobOf(q) = j
      <4>1. ~Publishes(q)
        BY <1>2, <3>3 DEF NamedOK
      <4>2. Executes(q) => cancel.pc # "handoff"
        BY <1>2, <3>3 DEF NamedOK
      <4>3. QED
        BY <2>1, <2>3, <3>3, <4>1, <4>2
    <3>4. QED
      BY <3>2, <3>3
  <2>6. QED
    BY <1>0, <2>2, <2>4, <2>5, FewerOne, HandlerLaunch
<1>3. QED
  BY <1>1, <1>2 DEF CancelClose

\* A cancellation kills the child it has read: after that nobody works for the job.
LEMMA KillKeeps ==
    ASSUME TypeOK, TurnsOK, NamedOK, OneRuns, LaunchOK, KillOK, CancelKill \/ CancelStop
    PROVE  NamedOK' /\ OneRuns' /\ LaunchOK' /\ KillOK'
<1> DEFINE j == cancel.job
<1>t. StoreType /\ ChildType /\ HandlerType /\ cancel \in Canceller
  BY DEF TypeOK, HandlerType
<1>0. /\ UNCHANGED <<man, disp>> /\ Awaiting /\ j \in Jobs
      /\ cancel.pc \in {"drop", "kill", "stop"} /\ TerminateGroup(cancel.pid, j)
  BY <1>t DEF CancelKill, CancelStop, TurnsOK, Waiting, HandlerType
<1>1. /\ Spared
      /\ \A q \in Pids : q = cancel.pid /\ JobOf(q) = j => proc'[q].pc = "dead"
  BY <1>0, <1>t, Terminated
<1>2. Fewer
  BY <1>0, <1>1, <1>t, ManagerFewer
<1>3. ASSUME NEW q \in Pids, Runs(q)' PROVE JobOf(q)' # j
  <2> SUFFICES ASSUME JobOf(q)' = j PROVE FALSE
    OBVIOUS
  <2>1. Runs(q) /\ JobOf(q) = j
    BY <1>2, <1>3 DEF Fewer
  <2>2. q = cancel.pid
    BY <1>0, <2>1 DEF KillOK
  <2>3. QED
    BY <1>1, <1>3, <2>1, <2>2, DeadRest
<1>4. KillOK'
  <2>1. CASE CancelKill
    BY <2>1 DEF CancelKill, KillOK, NoCancel
  <2>2. CASE CancelStop
    <3>1. cancel'.pc \in {"settle", "cleanup"} /\ cancel'.job = j
      BY <1>t, <2>2 DEF CancelStop, Canceller
    <3>2. QED
      BY <1>3, <3>1 DEF KillOK, Unserved
  <2>3. QED
    BY <2>1, <2>2
<1>5. NamedOK'
  <2>1. CASE cancel.pc # "kill"
    BY <1>0, <1>1, <1>t, <2>1, ManagerNamed
  <2>2. CASE cancel.pc = "kill"
    <3> SUFFICES ASSUME NEW q \in Pids, proc'[q] = proc[q],
                        Executes(q)' \/ Publishes(q)' \/ At(q, "after")' PROVE
          LET k == JobOf(q)' IN
          /\ Executes(q)' => \/ man'[k].state = "running" /\ Named(q)'
                             \/ man'[k].state = "cancelled" /\ cancel'.pc = "kill" /\ cancel'.job = k
          /\ Publishes(q)' => man'[k].state = "publishing" /\ Named(q)'
          /\ At(q, "after")' /\ k \in AutoJobs =>
                \/ man'[k].state \in {"failed", "cancelled"}
                \/ man'[k].state = "prepared" /\ man'[k].pid = q
      <4>1. ASSUME NEW q \in Pids, proc'[q] = NoChild
            PROVE  ~Executes(q)' /\ ~Publishes(q)' /\ ~At(q, "after")'
        BY <4>1 DEF Executes, Publishes, At, NoChild, CodexPc, PublishPc
      <4>2. QED
        BY <1>1, <4>1 DEF NamedOK, Spared
    <3>1. /\ JobOf(q)' = JobOf(q)
          /\ Executes(q)' <=> Executes(q)
          /\ Publishes(q)' <=> Publishes(q)
          /\ At(q, "after")' <=> At(q, "after")
      BY DEF Executes, Publishes, At, JobOf
    <3>2. Named(q) => Named(q)'
      BY <1>0, <3>1 DEF Named
    <3>3. Executes(q) => JobOf(q) # j
      BY <1>3, <3>1 DEF Runs
    <3>4. QED
      BY <1>0, <3>1, <3>2, <3>3 DEF NamedOK
  <2>3. QED
    BY <2>1, <2>2
<1>6. QED
  BY <1>0, <1>2, <1>4, <1>5, FewerOne, HandlerLaunch

\* A restart forgets the coroutines; no child that works is left without a name.
LEMMA RestartKeeps ==
    ASSUME TypeOK, NamedOK, OneRuns, RestartsBetween, ManagerRestart
    PROVE  NamedOK' /\ OneRuns' /\ LaunchOK' /\ KillOK'
<1>1. /\ UNCHANGED <<man, proc>>
      /\ disp'.pc = "scan" /\ cancel'.pc = "idle" /\ publish'.pc = "idle"
      /\ used'.restarts # used.restarts
  BY DEF ManagerRestart, Scanning, NoCancel, NoPublish, child, TypeOK, GhostType
<1>2. disp.pc # "record" /\ cancel.pc # "kill"
  BY <1>1 DEF RestartsBetween
<1>s. ChildType /\ Spared
  BY <1>1 DEF TypeOK, Spared
<1>3. Fewer
  BY <1>1, <1>s, ManagerFewer
<1>4. NamedOK'
  BY <1>1, <1>2, <1>s, ManagerNamed
<1>5. LaunchOK' /\ KillOK'
  BY <1>1 DEF LaunchOK, KillOK
<1>6. QED
  BY <1>3, <1>4, <1>5, FewerOne

\* Only an order looks for a claim, and it finds no child at work for the job.
LEMMA ClaimKeeps ==
    ASSUME TypeOK, TurnsOK, NamedOK, ClaimOK, OrdersAfterHandoff, Next,
           ~(\E p \in Pids : ChildStep(p) \/ Crash(p))
    PROVE  ClaimOK'
<1>1. CASE publish'.pc = "idle"
  BY <1>1 DEF ClaimOK
<1>2. CASE \E j \in Jobs, o \in BOOLEAN : PublishRead(j, o)
  <2>1. PICK j \in Jobs : \E o \in BOOLEAN : PublishRead(j, o)
    BY <1>2
  <2>2. /\ man[j].state = "prepared" /\ UNCHANGED <<man, proc>> /\ publish'.job = j
        /\ publish.pc = "idle" /\ publish'.pc = "claim"
    BY <2>1, FreeTurn DEF PublishRead, child
  <2>3. ASSUME NEW q \in Pids, JobOf(q) = j PROVE ~Runs(q)
    BY <2>2, <2>3 DEF OrdersAfterHandoff, NamedOK, Runs
  <2>4. QED
    BY <2>2, <2>3 DEF ClaimOK, Unserved, Runs, Executes, Publishes, HandsOff, At, JobOf
<1>3. CASE publish.pc # "idle" /\ UNCHANGED <<publish, man, proc>>
  BY <1>3 DEF ClaimOK, Unserved, Runs, Executes, Publishes, HandsOff, At, JobOf
<1>4. publish.pc # "idle" => \/ publish'.pc = "idle"
                             \/ UNCHANGED <<publish, man, proc>>
  <2> SUFFICES ASSUME publish.pc # "idle" PROVE \/ publish'.pc = "idle"
                                               \/ UNCHANGED <<publish, man, proc>>
    OBVIOUS
  <2>1. Awaiting /\ Waiting /\ ~LoopFree
    BY FreeTurn DEF TurnsOK
  <2>2. ~Dispatch
    BY DispatchTurn DEF TypeOK
  <2>3. ~(\E j \in Jobs : Create(j) \/ CancelRead(j)) /\ ~(\E j \in Jobs, o \in BOOLEAN : PublishRead(j, o))
    BY <2>1 DEF Create, CancelRead, PublishRead
  <2>4. CASE Handlers
    BY <2>1, <2>4 DEF Handlers, CancelClose, CancelKill, CancelStop, CancelSettle, CancelRelease,
       CancelFinish, PublishClaim, NoPublish, Waiting
  <2>5. CASE ManagerRestart
    BY <2>5 DEF ManagerRestart, NoPublish
  <2>6. QED
    BY <2>2, <2>3, <2>4, <2>5 DEF Next
<1>5. CASE publish.pc = "idle" /\ ~(\E j \in Jobs, o \in BOOLEAN : PublishRead(j, o))
  <2>1. publish'.pc = "idle"
    <3>1. CASE Dispatch
      BY <1>5, <3>1, DispatchTurn DEF TypeOK
    <3>2. CASE Handlers
      BY <1>5, <3>2 DEF Handlers, CancelClose, CancelKill, CancelStop, CancelSettle,
         CancelRelease, CancelFinish, PublishClaim, NoPublish
    <3>3. CASE \E j \in Jobs : Create(j) \/ CancelRead(j)
      BY <1>5, <3>3 DEF Create, CancelRead, loop
    <3>4. CASE ManagerRestart
      BY <3>4 DEF ManagerRestart, NoPublish
    <3>5. QED
      BY <1>5, <3>1, <3>2, <3>3, <3>4 DEF Next
  <2>2. QED
    BY <1>1, <2>1
<1>6. QED
  BY <1>1, <1>2, <1>3, <1>4, <1>5

-----------------------------------------------------------------------------
LEMMA TurnInit == Init => TurnInv
<1> SUFFICES ASSUME Init PROVE TurnInv
  OBVIOUS
<1>1. TypeOK
  BY InitType
<1>2. \A p \in Pids : /\ ~Executes(p) /\ ~Publishes(p) /\ ~At(p, "after") /\ ~Runs(p)
  BY DEF Init, NoChild, Executes, Publishes, HandsOff, Runs, At, CodexPc, PublishPc
<1>3. disp.pc = "scan" /\ cancel.pc = "idle" /\ publish.pc = "idle"
  BY DEF Init, Scanning, NoCancel, NoPublish
<1>4. QED
  BY <1>1, <1>2, <1>3 DEF TurnInv, TurnsOK, Awaiting, Waiting, NamedOK, OneRuns, LaunchOK, KillOK,
     ClaimOK

LEMMA TurnStep == TurnInv /\ [Next /\ Considerate]_vars => TurnInv'
<1> SUFFICES ASSUME TurnInv, [Next /\ Considerate]_vars PROVE TurnInv'
  OBVIOUS
<1>p. TypeOK /\ TurnsOK /\ NamedOK /\ OneRuns /\ LaunchOK /\ KillOK /\ ClaimOK
  BY DEF TurnInv
<1>t. StoreType /\ WorldType /\ ChildType /\ DispType /\ GhostType
  BY <1>p DEF TypeOK
<1>1. CASE UNCHANGED vars
  BY <1>1, <1>p, TypeStep DEF TurnInv, vars, TurnsOK, Awaiting, Waiting, NamedOK, OneRuns, LaunchOK,
     KillOK, ClaimOK, Unserved, Runs, Executes, Publishes, HandsOff, Named, At, JobOf, Launched
<1>2. CASE Next /\ Considerate
  <2>c. Next /\ RestartsBetween /\ OrdersAfterHandoff /\ LaunchesElsewhere
    BY <1>2 DEF Considerate
  <2>1. TypeOK' /\ TurnsOK'
    BY <2>c, <1>p, TypeStep, TurnsStep
  <2>2. CASE \E p \in Pids : ChildStep(p) \/ Crash(p)
    <3>1. PICK p \in Pids : ChildStep(p) \/ Crash(p)
      BY <2>2
    <3>2. PICK j \in Jobs : JobOf(p) = j
      BY <1>t, <3>1, ChildJob
    <3>3. Alive(p, j) /\ Advances(p, j)
      BY <1>t, <3>1, <3>2, ChildAlive, ChildAdvances
    <3>4. Fewer /\ UNCHANGED <<cancel, publish>>
      BY <1>p, <1>t, <3>2, <3>3, ChildFewer DEF Alive, loop
    <3>5. NamedOK' /\ LaunchOK'
      BY <1>p, <1>t, <3>2, <3>3, <3>4, ChildNamed, ChildLaunch
    <3>6. ClaimOK'
      BY <1>p, <3>4 DEF ClaimOK, Fewer, Unserved
    <3>7. QED
      BY <1>p, <2>1, <3>4, <3>5, <3>6, FewerOne, FewerKill DEF TurnInv
  <2>3. CASE ~(\E p \in Pids : ChildStep(p) \/ Crash(p))
    <3>1. NamedOK' /\ OneRuns' /\ LaunchOK' /\ KillOK'
      <4>1. CASE Dispatch
        BY <1>p, <2>c, <4>1, DispatchKeeps
      <4>2. CASE CancelClose
        BY <1>p, <4>2, CloseKeeps
      <4>3. CASE CancelKill \/ CancelStop
        BY <1>p, <4>3, KillKeeps
      <4>4. CASE \/ \E j \in Jobs : Create(j) \/ CancelRead(j)
                 \/ \E j \in Jobs, o \in BOOLEAN : PublishRead(j, o)
                 \/ CancelSettle \/ CancelRelease \/ CancelFinish \/ PublishClaim
        BY <1>p, <4>4, HandlerKeeps
      <4>5. CASE ManagerRestart
        BY <1>p, <2>c, <4>5, RestartKeeps
      <4>6. QED
        BY <2>3, <2>c, <4>1, <4>2, <4>3, <4>4, <4>5 DEF Next, Handlers
    <3>2. ClaimOK'
      BY <1>p, <2>3, <2>c, ClaimKeeps
    <3>3. QED
      BY <2>1, <3>1, <3>2 DEF TurnInv
  <2>4. QED
    BY <2>2, <2>3
<1>3. QED
  BY <1>1, <1>2

LEMMA TurnInvariant == CarefulSpec => []TurnInv
BY TurnInit, TurnStep, PTL DEF CarefulSpec

\* The active scan and _has_active_process are enough: one child edits or publishes at any
\* moment, over all jobs, orders, cancellations, crashes of children and restarts of the
\* manager, but for the three windows that Considerate names.
THEOREM OneHeavyAtATime == CarefulSpec => []OneHeavyProcess
<1>1. TurnInv => OneHeavyProcess
  BY DEF TurnInv, OneRuns, OneHeavyProcess, Working, Runs, Executes, Publishes
<1>2. QED
  BY <1>1, TurnInvariant, PTL

\* Once cancel has answered, nothing works on a CANCELLED job any more, but for the same
\* windows.
THEOREM CancelledIsStopped == CarefulSpec => []CancelStopsWork
<1>1. TurnInv => CancelStopsWork
  <2> SUFFICES ASSUME TurnInv, NEW j \in Jobs, man[j].state = "cancelled", cancel.job # j,
                      NEW p \in Pids, JobOf(p) = j, Working(p)
               PROVE  FALSE
    BY DEF CancelStopsWork, Occupied
  <2>1. Executes(p) \/ Publishes(p)
    BY DEF Working, Executes, Publishes
  <2>2. QED
    BY <2>1 DEF TurnInv, NamedOK
<1>2. QED
  BY <1>1, TurnInvariant, PTL

\* JobManager.cancel stops the Git and GitHub commands before it releases the claim, unless
\* another publisher of the job is launched while it awaits the sandbox.
THEOREM StopsBeforeRelease == CarefulSpec => StoppedBeforeReleased
<1>1. TurnInv /\ [Next /\ Considerate]_vars =>
        [cancel.pc = "release" /\ cancel'.pc = "finish" => ~Occupied(cancel.job)]_vars
  BY DEF TurnInv, KillOK, Unserved, Occupied, Working, Runs, Executes, Publishes
<1>2. QED
  BY <1>1, TurnInvariant, PTL DEF CarefulSpec, StoppedBeforeReleased
=============================================================================
