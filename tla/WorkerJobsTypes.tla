---------------------------- MODULE WorkerJobsTypes ----------------------------
(***************************************************************************)
(* Type correctness of WorkerJobs, for any jobs, processes and bounds, and *)
(* the facts about its tables and helpers that the other proofs rest on.   *)
(***************************************************************************)
EXTENDS WorkerJobs, TLAPS

\* The tables of the dispatcher's decisions, row by row.
LEMMA Tables ==
    ASSUME NEW pc \in DOMAIN From
    PROVE  /\ pc \in DispPc /\ To[pc] \in States
           /\ \/ pc = "lost"    /\ From[pc] = "publishing" /\ To[pc] = "prepared"
              \/ pc = "unsafe"  /\ From[pc] = "running"    /\ To[pc] = "failed"
              \/ pc = "requeue" /\ From[pc] = "running"    /\ To[pc] = "queued"
              \/ pc = "giveup"  /\ From[pc] = "running"    /\ To[pc] = "failed"
              \/ pc = "handoff" /\ From[pc] = "prepared"   /\ To[pc] = "publishing"
              \/ pc = "own"     /\ From[pc] = "publishing" /\ To[pc] = "publishing"
              \/ pc = "claim"   /\ From[pc] = "prepared"   /\ To[pc] = "publishing"
BY DEF From, To, DispPc, States

LEMMA Defaults ==
    /\ Absent \in Manifest
    /\ NoIntent \in Intent
    /\ NoChild \in Child
    /\ NoOrder \in Order
    /\ Scanning \in Dispatcher
    /\ NoCancel \in Canceller
    /\ NoPublish \in Publisher
<1>1. Absent \in Manifest /\ NoIntent \in Intent /\ NoOrder \in Order
  BY DEF Absent, Manifest, States, NoIntent, Intent, NoOrder, Order
<1>2. NoChild \in Child
  BY <1>1 DEF NoChild, Child, ChildPc
<1>3. Scanning \in Dispatcher
  BY <1>1 DEF Scanning, Dispatcher, DispPc
<1>4. NoCancel \in Canceller /\ NoPublish \in Publisher
  BY DEF NoCancel, Canceller, NoPublish, Publisher
<1>5. QED
  BY <1>1, <1>2, <1>3, <1>4

LEMMA InitType == Init => TypeOK
BY Defaults DEF Init, TypeOK, StoreType, WorldType, ChildType, DispType, HandlerType,
   GhostType, Scanning, NoCancel, NoPublish

-----------------------------------------------------------------------------
(* Type correctness.                                                       *)

LEMMA BecomeType ==
    ASSUME StoreType, NEW j \in Jobs, NEW s \in States, NEW p \in Pids \cup {None},
           Become(j, s, p)
    PROVE  man' \in [Jobs -> Manifest]
BY DEF StoreType, Become, Manifest

LEMMA SaveType ==
    ASSUME StoreType, NEW j \in Jobs, NEW o \in BOOLEAN, SaveIntent(j, o)
    PROVE  intent' \in [Jobs -> Intent]
BY DEF StoreType, SaveIntent, Intent

LEMMA FinishType ==
    ASSUME StoreType, NEW j \in Jobs, FinishIntent(j)
    PROVE  intent' \in [Jobs -> Intent]
BY DEF StoreType, FinishIntent, Intent

LEMMA DiesType ==
    ASSUME ChildType, NEW p \in Pids, Dies(p)
    PROVE  ChildType'
BY Defaults DEF ChildType, Dies

LEMMA JobType ==
    ASSUME ChildType, NEW p \in Pids, proc[p].pc # "dead"
    PROVE  JobOf(p) \in Jobs
BY DEF ChildType, NoChild, JobOf

LEMMA GoType ==
    ASSUME ChildType, NEW p \in Pids, proc[p].pc # "dead", NEW pc \in ChildPc, Go(p, pc),
           lease' \in [Jobs -> Pids \cup {None}]
    PROVE  ChildType'
<1>1. proc' \in [Pids -> Child]
  BY DEF ChildType, Go, Child
<1>2. proc[p].job \in Jobs
  BY DEF ChildType, NoChild
<1>3. \A q \in Pids : proc'[q].job \in Jobs \/ proc'[q] = NoChild
  BY <1>2 DEF ChildType, Go
<1>4. QED
  BY <1>1, <1>3 DEF ChildType

LEMMA TerminateType ==
    ASSUME ChildType, NEW p, NEW j, TerminateGroup(p, j)
    PROVE  ChildType'
<1>1. CASE UNCHANGED child
  BY <1>1 DEF ChildType, child
<1>2. CASE Live(p, j) /\ Dies(p)
  BY <1>2, DiesType DEF Live
<1>3. QED
  BY <1>1, <1>2 DEF TerminateGroup

LEMMA TypeStep == TypeOK /\ [Next]_vars => TypeOK'
<1> SUFFICES ASSUME TypeOK, [Next]_vars PROVE TypeOK'
  OBVIOUS
<1>t. StoreType /\ WorldType /\ ChildType /\ DispType /\ HandlerType /\ GhostType
  BY DEF TypeOK
<1>1. CASE ScanOrphan
  <2>1. DispType'
    <3>1. PICK j \in Jobs : disp' = [disp EXCEPT !.pc = "reread", !.job = j]
      BY <1>1 DEF ScanOrphan
    <3>2. QED
      BY <1>t, <3>1 DEF DispType, Dispatcher, DispPc
  <2> QED
    BY <1>1, <2>1 DEF ScanOrphan, TypeOK, StoreType, WorldType, ChildType, HandlerType,
       GhostType, world, child, ghosts
<1>2. CASE ScanRetention
  <2>1. DispType'
    BY <1>2, <1>t DEF ScanRetention, DispType, Dispatcher, DispPc
  <2> QED
    BY <1>2, <2>1 DEF ScanRetention, TypeOK, StoreType, WorldType, ChildType,
       HandlerType, GhostType, world, child, ghosts
<1>3. CASE Choose
  <2>1. DispType'
    <3>1. ASSUME NEW j \in Jobs, NEW o \in BOOLEAN,
                 \/ disp' = [Scanning EXCEPT !.pc = "claim", !.job = j, !.override = o]
                 \/ disp' = [Scanning EXCEPT !.pc = "start", !.job = j]
          PROVE  DispType'
      BY <3>1, Defaults DEF DispType, Dispatcher, DispPc
    <3>2. \A j \in Jobs : intent[j].override \in BOOLEAN
      BY <1>t DEF StoreType, Intent
    <3>3. CASE disp' = Scanning
      BY <3>3, Defaults DEF DispType, Scanning
    <3>4. QED
      BY <1>3, <3>1, <3>2, <3>3 DEF Choose
  <2> QED
    BY <1>3, <2>1 DEF Choose, TypeOK, StoreType, WorldType, ChildType, HandlerType,
       GhostType, world, child, ghosts
<1>4. CASE Reread
  <2>1. DispType'
    BY <1>4, <1>t DEF Reread, DispType, Dispatcher, DispPc, StoreType
  <2> QED
    BY <1>4, <2>1 DEF Reread, TypeOK, StoreType, WorldType, ChildType, HandlerType,
       GhostType, world, child, ghosts
<1>5. CASE DecideHandoff
  <2>1. StoreType'
    <3>1. disp.job \in Jobs
      BY <1>5, <1>t DEF DecideHandoff, DispType, Deciding
    <3>2. QED
      BY <1>5, <1>t, <3>1, SaveType DEF DecideHandoff, StoreType
  <2>2. DispType'
    BY <1>5, <1>t, Defaults DEF DecideHandoff, DispType, Dispatcher, DispPc, Deciding,
       Scanning
  <2> QED
    BY <1>5, <2>1, <2>2 DEF DecideHandoff, TypeOK, WorldType, ChildType, HandlerType,
       GhostType, world, child, ghosts
<1>6. CASE DecidePublishing
  <2>1. StoreType'
    <3>1. disp.job \in Jobs
      BY <1>6, <1>t DEF DecidePublishing, DispType, Deciding
    <3>2. QED
      BY <1>6, <1>t, <3>1, SaveType DEF DecidePublishing, StoreType
  <2>2. DispType'
    <3>1. intent[disp.job].override \in BOOLEAN /\ disp.job \in Jobs
      BY <1>6, <1>t DEF DecidePublishing, Deciding, DispType, StoreType, Intent
    <3>2. CASE disp' = Scanning
      BY <3>2, Defaults DEF DispType, Scanning
    <3>3. CASE disp' = [Scanning EXCEPT !.pc = "own", !.job = disp.job,
                                        !.override = intent[disp.job].override]
      BY <3>1, <3>3, Defaults DEF DispType, Dispatcher, DispPc
    <3>4. CASE disp' = [Scanning EXCEPT !.pc = "lost", !.job = disp.job]
      BY <3>1, <3>4, Defaults DEF DispType, Dispatcher, DispPc
    <3>5. QED
      BY <1>6, <3>2, <3>3, <3>4 DEF DecidePublishing
  <2> QED
    BY <1>6, <2>1, <2>2 DEF DecidePublishing, TypeOK, WorldType, ChildType, HandlerType,
       GhostType, world, child, ghosts
<1>7. CASE DecideRunning
  <2>1. DispType'
    BY <1>7, <1>t, Defaults DEF DecideRunning, DispType, Dispatcher, DispPc, Deciding
  <2> QED
    BY <1>7, <2>1 DEF DecideRunning, TypeOK, StoreType, WorldType, ChildType,
       HandlerType, GhostType, world, child, ghosts
<1>8. CASE DecideNothing
  <2>1. DispType'
    BY <1>8, Defaults DEF DecideNothing, DispType, Scanning
  <2> QED
    BY <1>8, <2>1 DEF DecideNothing, TypeOK, StoreType, WorldType, ChildType,
       HandlerType, GhostType, world, child, ghosts
<1>9. CASE DispatchUpdate
  <2>1. StoreType'
    <3>1. disp.job \in Jobs
      BY <1>9, <1>t DEF DispatchUpdate, DispType, From
    <3>2. disp.pc \in DOMAIN From => To[disp.pc] \in States
      BY Tables
    <3>3. QED
      BY <1>9, <1>t, <3>1, <3>2, BecomeType DEF DispatchUpdate, StoreType
  <2>2. DispType'
    <3>1. disp.job \in Jobs
      BY <1>9, <1>t DEF DispatchUpdate, DispType, From
    <3>2. CASE disp' = Scanning
      BY <3>2, Defaults DEF DispType, Scanning
    <3>3. CASE disp' = [disp EXCEPT !.pc = "spawn", !.task = "publish"]
      BY <1>t, <3>1, <3>3 DEF DispType, Dispatcher, DispPc
    <3>4. QED
      BY <1>9, <3>2, <3>3 DEF DispatchUpdate
  <2> QED
    BY <1>9, <2>1, <2>2 DEF DispatchUpdate, TypeOK, WorldType, ChildType, HandlerType,
       GhostType, world, child, ghosts
<1>10. CASE DispatchStart
  <2>1. StoreType'
    <3>1. disp.job \in Jobs
      BY <1>10, <1>t DEF DispatchStart, DispType
    <3> DEFINE started == [man EXCEPT ![disp.job].state = "running", ![disp.job].pid = None]
    <3>2. started \in [Jobs -> Manifest]
      BY <1>t, <3>1 DEF StoreType, States, Manifest
    <3>3. [started EXCEPT ![disp.job].attempts = @ + 1] \in [Jobs -> Manifest]
      <4> HIDE DEF started
      <4>1. QED
        BY <3>1, <3>2 DEF Manifest
    <3>4. man' = [started EXCEPT ![disp.job].attempts = @ + 1] \/ man' = man
      BY <1>10 DEF DispatchStart
    <3>5. QED
      BY <1>10, <1>t, <3>3 DEF DispatchStart, StoreType
  <2>2. DispType'
    BY <1>10, <1>t, Defaults DEF DispatchStart, DispType, Dispatcher, DispPc, Scanning
  <2> QED
    BY <1>10, <2>1, <2>2 DEF DispatchStart, TypeOK, WorldType, ChildType, HandlerType,
       GhostType, world, child, ghosts
<1>11. CASE Spawn
  <2>1. ChildType'
    <3>1. PICK p \in Pids :
            proc' = [proc EXCEPT ![p] = [job |-> disp.job, task |-> disp.task, pc |-> "lease",
                                         override |-> disp.override, seen |-> NoIntent]]
      BY <1>11 DEF Spawn
    <3>2. disp.job \in Jobs /\ lease' = lease
      BY <1>11, <1>t DEF Spawn, DispType
    <3>3. [job |-> disp.job, task |-> disp.task, pc |-> "lease",
           override |-> disp.override, seen |-> NoIntent] \in Child
      BY <1>t, Defaults DEF DispType, Dispatcher, Child, ChildPc
    <3>4. QED
      BY <1>t, <3>1, <3>2, <3>3 DEF ChildType
  <2>2. DispType'
    BY <1>11, <1>t DEF Spawn, DispType, Dispatcher, DispPc
  <2> QED
    BY <1>11, <2>1, <2>2 DEF Spawn, TypeOK, StoreType, WorldType, HandlerType,
       GhostType, world, ghosts
<1>12. CASE SpawnFails
  <2>1. StoreType'
    <3>1. disp.job \in Jobs
      BY <1>12, <1>t DEF SpawnFails, DispType
    <3>2. QED
      BY <1>12, <1>t, <3>1, BecomeType DEF SpawnFails, StoreType, States
  <2>2. DispType'
    BY <1>12, <1>t, Defaults DEF SpawnFails, DispType, Dispatcher, DispPc, Scanning
  <2>3. GhostType'
    BY <1>12, <1>t DEF SpawnFails, GhostType, Order
  <2> QED
    BY <1>12, <2>1, <2>2, <2>3 DEF SpawnFails, TypeOK, WorldType, ChildType,
       HandlerType, world, child
<1>13. CASE DispatchFinish
  <2>1. StoreType'
    <3>1. disp.job \in Jobs
      BY <1>13, <1>t DEF DispatchFinish, DispType
    <3>2. QED
      BY <1>13, <1>t, <3>1, FinishType DEF DispatchFinish, StoreType
  <2>2. DispType'
    BY <1>13, Defaults DEF DispatchFinish, DispType, Scanning
  <2> QED
    BY <1>13, <2>1, <2>2 DEF DispatchFinish, TypeOK, WorldType, ChildType, HandlerType,
       GhostType, world, child, ghosts
<1>14. CASE RecordPid
  <2>1. StoreType'
    <3>1. disp.job \in Jobs
      BY <1>14, <1>t DEF RecordPid, DispType
    <3>2. QED
      BY <1>14, <1>t, BecomeType DEF RecordPid, StoreType, States, DispType, Launched
  <2>2. DispType'
    BY <1>14, <1>t, Tables, Defaults DEF RecordPid, DispType, Dispatcher, DispPc,
       StoreType, Intent, Deciding, Scanning
  <2> QED
    BY <1>14, <2>1, <2>2 DEF RecordPid, TypeOK, WorldType, ChildType, HandlerType,
       GhostType, world, child, ghosts
<1>15. CASE CancelClose
  <2>1. StoreType'
    <3>1. cancel.job \in Jobs
      BY <1>15, <1>t DEF CancelClose, HandlerType
    <3>2. QED
      BY <1>15, <1>t, <3>1, BecomeType DEF CancelClose, StoreType, States
  <2>2. HandlerType'
    BY <1>15, <1>t DEF CancelClose, HandlerType, Canceller, NoCancel
  <2> QED
    BY <1>15, <2>1, <2>2 DEF CancelClose, TypeOK, WorldType, ChildType, DispType,
       GhostType, world, child, ghosts
<1>16. CASE CancelKill
  <2>1. StoreType'
    <3>1. cancel.job \in Jobs
      BY <1>16, <1>t DEF CancelKill, HandlerType
    <3>2. QED
      BY <1>16, <1>t, <3>1, FinishType DEF CancelKill, StoreType
  <2>2. ChildType'
    BY <1>16, <1>t, TerminateType DEF CancelKill
  <2>3. HandlerType'
    BY <1>16, <1>t, Defaults DEF CancelKill, HandlerType, NoCancel
  <2> QED
    BY <1>16, <2>1, <2>2, <2>3 DEF CancelKill, TypeOK, WorldType, DispType, GhostType,
       world, ghosts
<1>17. CASE CancelStop
  <2>1. ChildType'
    BY <1>17, <1>t, TerminateType DEF CancelStop
  <2>2. HandlerType'
    BY <1>17, <1>t DEF CancelStop, HandlerType, Canceller
  <2> QED
    BY <1>17, <2>1, <2>2 DEF CancelStop, TypeOK, StoreType, WorldType, DispType,
       GhostType, world, ghosts
<1>18. CASE CancelSettle
  <2>1. StoreType'
    <3>1. cancel.job \in Jobs
      BY <1>18, <1>t DEF CancelSettle, HandlerType
    <3>2. QED
      BY <1>18, <1>t, <3>1, FinishType DEF CancelSettle, StoreType
  <2>2. HandlerType'
    BY <1>18, <1>t DEF CancelSettle, HandlerType, Canceller, NoCancel
  <2> QED
    BY <1>18, <2>1, <2>2 DEF CancelSettle, TypeOK, WorldType, ChildType, DispType,
       GhostType, world, child, ghosts
<1>19. CASE CancelRelease
  <2>1. StoreType'
    <3>1. cancel.job \in Jobs
      BY <1>19, <1>t DEF CancelRelease, HandlerType
    <3>2. QED
      BY <1>19, <1>t, <3>1, BecomeType DEF CancelRelease, StoreType, States
  <2>2. HandlerType'
    BY <1>19, <1>t DEF CancelRelease, HandlerType, Canceller, NoCancel
  <2>3. GhostType'
    <3>1. cancel.job \in Jobs
      BY <1>19, <1>t DEF CancelRelease, HandlerType
    <3>2. [order EXCEPT ![cancel.job].spent = TRUE] \in [Jobs -> Order]
      BY <1>t DEF GhostType, Order
    <3>3. QED
      BY <1>19, <1>t, <3>2 DEF CancelRelease, GhostType
  <2> QED
    BY <1>19, <2>1, <2>2, <2>3 DEF CancelRelease, TypeOK, WorldType, ChildType,
       DispType, world, child
<1>20. CASE CancelFinish
  <2>1. StoreType'
    <3>1. cancel.job \in Jobs
      BY <1>20, <1>t DEF CancelFinish, HandlerType
    <3>2. QED
      BY <1>20, <1>t, <3>1, FinishType DEF CancelFinish, StoreType
  <2>2. HandlerType'
    BY <1>20, <1>t, Defaults DEF CancelFinish, HandlerType, NoCancel
  <2> QED
    BY <1>20, <2>1, <2>2 DEF CancelFinish, TypeOK, WorldType, ChildType, DispType,
       GhostType, world, child, ghosts
<1>21. CASE PublishClaim
  <2>1. StoreType'
    <3>1. publish.job \in Jobs
      BY <1>21, <1>t DEF PublishClaim, HandlerType
    <3>2. QED
      BY <1>21, <1>t, <3>1, BecomeType DEF PublishClaim, StoreType, States
  <2>2. HandlerType'
    BY <1>21, <1>t, Defaults DEF PublishClaim, HandlerType, Canceller, Publisher,
       StoreType, Manifest, NoCancel, NoPublish
  <2> QED
    BY <1>21, <2>1, <2>2 DEF PublishClaim, TypeOK, WorldType, ChildType, DispType,
       GhostType, world, child, ghosts
<1>22. ASSUME NEW j \in Jobs, Create(j) PROVE TypeOK'
  <2>1. StoreType'
    <3>2. QED
      BY <1>22, <1>t DEF Create, StoreType, Manifest, States
  <2> QED
    BY <1>22, <2>1 DEF Create, TypeOK, WorldType, ChildType, DispType, HandlerType,
       GhostType, world, child, loop, ghosts
<1>23. ASSUME NEW j \in Jobs, CancelRead(j) PROVE TypeOK'
  <2>1. HandlerType'
    BY <1>23, <1>t DEF CancelRead, HandlerType, Canceller, StoreType, Manifest
  <2> QED
    BY <1>23, <2>1 DEF CancelRead, TypeOK, StoreType, WorldType, ChildType, DispType,
       GhostType, world, child, ghosts
<1>24. ASSUME NEW j \in Jobs, NEW o \in BOOLEAN, PublishRead(j, o) PROVE TypeOK'
  <2>1. StoreType'
    <3>2. QED
      BY <1>24, <1>t, SaveType DEF PublishRead, StoreType
  <2>2. HandlerType'
    BY <1>24, <1>t DEF PublishRead, HandlerType, Publisher
  <2>3. GhostType'
    BY <1>24, <1>t DEF PublishRead, GhostType, Order
  <2> QED
    BY <1>24, <2>1, <2>2, <2>3 DEF PublishRead, TypeOK, WorldType, ChildType, DispType,
       world, child
<1>25. ASSUME NEW p \in Pids, TakeLease(p) PROVE TypeOK'
  <2>1. ChildType'
    BY <1>25, <1>t, GoType DEF TakeLease, ChildType, ChildPc, At
  <2> QED
    BY <1>25, <2>1 DEF TakeLease, TypeOK, StoreType, WorldType, DispType, HandlerType,
       GhostType, world, loop, ghosts
<1>26. ASSUME NEW p \in Pids, ChildClaim(p) PROVE TypeOK'
  <2>1. StoreType'
    <3>1. JobOf(p) \in Jobs
      BY <1>26, <1>t, JobType DEF ChildClaim, At
    <3>2. QED
      BY <1>26, <1>t, <3>1, BecomeType DEF ChildClaim, StoreType, States
  <2>2. ChildType'
    BY <1>26, <1>t, GoType DEF ChildClaim, ChildType, ChildPc, CodexPc, At
  <2> QED
    BY <1>26, <2>1, <2>2 DEF ChildClaim, TypeOK, WorldType, DispType, HandlerType,
       GhostType, world, loop, ghosts
<1>27. ASSUME NEW p \in Pids, PrepareTree(p) PROVE TypeOK'
  <2>1. WorldType'
    BY <1>27, <1>t DEF PrepareTree, WorldType
  <2>2. ChildType'
    BY <1>27, <1>t, GoType DEF PrepareTree, ChildType, ChildPc, CodexPc, At
  <2> QED
    BY <1>27, <2>1, <2>2 DEF PrepareTree, TypeOK, StoreType, DispType, HandlerType,
       GhostType, loop, ghosts
<1>28. ASSUME NEW p \in Pids, NoteTree(p) PROVE TypeOK'
  <2>1. StoreType'
    <3>1. JobOf(p) \in Jobs
      BY <1>28, <1>t, JobType DEF NoteTree, At
    <3>2. QED
      BY <1>28, <1>t, <3>1 DEF NoteTree, StoreType, Manifest
  <2>2. ChildType'
    BY <1>28, <1>t, GoType DEF NoteTree, ChildType, ChildPc, CodexPc, At
  <2> QED
    BY <1>28, <2>1, <2>2 DEF NoteTree, TypeOK, WorldType, DispType, HandlerType,
       GhostType, world, loop, ghosts
<1>29. ASSUME NEW p \in Pids, CodexEdits(p) PROVE TypeOK'
  <2>1. WorldType'
    BY <1>29, <1>t DEF CodexEdits, WorldType
  <2> QED
    BY <1>29, <2>1 DEF CodexEdits, TypeOK, StoreType, ChildType, DispType, HandlerType,
       GhostType, child, loop, ghosts
<1>30. ASSUME NEW p \in Pids, CodexEnds(p) PROVE TypeOK'
  <2>1. ChildType'
    BY <1>30, <1>t, GoType DEF CodexEnds, ChildType, ChildPc, CodexPc, At
  <2> QED
    BY <1>30, <2>1 DEF CodexEnds, TypeOK, StoreType, WorldType, DispType, HandlerType,
       GhostType, world, loop, ghosts
<1>31. ASSUME NEW p \in Pids, RecordResult(p) PROVE TypeOK'
  <2>1. StoreType'
    <3>1. JobOf(p) \in Jobs
      BY <1>31, <1>t, JobType DEF RecordResult, At
    <3> DEFINE owner == IF JobOf(p) \in AutoJobs THEN p ELSE None
    <3>2. ASSUME NEW b \in BOOLEAN
          PROVE  [man EXCEPT ![JobOf(p)].state = "prepared", ![JobOf(p)].blocked = b,
                             ![JobOf(p)].pid = owner] \in [Jobs -> Manifest]
      <4> DEFINE result == [man EXCEPT ![JobOf(p)].state = "prepared", ![JobOf(p)].blocked = b]
      <4>1. result \in [Jobs -> Manifest]
        BY <1>t DEF StoreType, States, Manifest
      <4>2. [result EXCEPT ![JobOf(p)].pid = owner] \in [Jobs -> Manifest]
        <5> HIDE DEF result
        <5> QED
          BY <4>1 DEF Manifest
      <4>3. QED
        BY <4>2
    <3>3. CASE UNCHANGED man \/ Become(JobOf(p), "failed", None)
      BY <1>31, <1>t, <3>1, <3>3, BecomeType DEF RecordResult, StoreType, States
    <3>4. CASE \E b \in BOOLEAN :
               man' = [man EXCEPT ![JobOf(p)].state = "prepared", ![JobOf(p)].blocked = b,
                                  ![JobOf(p)].pid = owner]
      BY <1>t, <3>2, <3>4, <1>31 DEF RecordResult, StoreType
    <3>5. QED
      BY <1>31, <3>3, <3>4 DEF RecordResult
  <2>2. ChildType'
    BY <1>31, <1>t, GoType DEF RecordResult, ChildType, ChildPc, At
  <2> QED
    BY <1>31, <2>1, <2>2 DEF RecordResult, TypeOK, WorldType, DispType, HandlerType,
       GhostType, world, loop, ghosts
<1>32. ASSUME NEW p \in Pids, RecordFailure(p) PROVE TypeOK'
  <2>1. StoreType'
    <3>1. JobOf(p) \in Jobs
      BY <1>32, <1>t, JobType DEF RecordFailure, At
    <3>2. QED
      BY <1>32, <1>t, <3>1, BecomeType DEF RecordFailure, StoreType, States
  <2>2. ChildType'
    BY <1>32, <1>t, GoType DEF RecordFailure, ChildType, ChildPc, At
  <2> QED
    BY <1>32, <2>1, <2>2 DEF RecordFailure, TypeOK, WorldType, DispType, HandlerType,
       GhostType, world, loop, ghosts
<1>33. ASSUME NEW p \in Pids, AutoPublish(p) PROVE TypeOK'
  <2>1. StoreType'
    <3>1. JobOf(p) \in Jobs
      BY <1>33, <1>t, JobType DEF AutoPublish, At
    <3>2. QED
      BY <1>33, <1>t, <3>1, BecomeType DEF AutoPublish, StoreType, States
  <2>2. ChildType'
    BY <1>33, <1>t, DiesType, GoType DEF AutoPublish, ChildType, ChildPc, At, Exit
  <2> QED
    BY <1>33, <2>1, <2>2 DEF AutoPublish, TypeOK, WorldType, DispType, HandlerType,
       GhostType, world, loop, ghosts
<1>34. ASSUME NEW p \in Pids, PublishClaimed(p) PROVE TypeOK'
  <2>1. StoreType'
    <3>1. JobOf(p) \in Jobs
      BY <1>34, <1>t, JobType DEF PublishClaimed, At
    <3>2. QED
      BY <1>34, <1>t, <3>1, BecomeType DEF PublishClaimed, StoreType, States
  <2>2. ChildType'
    BY <1>34, <1>t, DiesType, GoType DEF PublishClaimed, ChildType, ChildPc, PublishPc,
       At, Exit, Leave
  <2> QED
    BY <1>34, <2>1, <2>2 DEF PublishClaimed, TypeOK, WorldType, DispType, HandlerType,
       GhostType, world, loop, ghosts
<1>35. ASSUME NEW p \in Pids, CheckGate(p) PROVE TypeOK'
  <2>1. StoreType'
    <3>1. JobOf(p) \in Jobs
      BY <1>35, <1>t, JobType DEF CheckGate, At
    <3>2. QED
      BY <1>35, <1>t, <3>1 DEF CheckGate, StoreType, Manifest
  <2>2. ChildType'
    BY <1>35, <1>t, GoType DEF CheckGate, ChildType, ChildPc, PublishPc, At
  <2> QED
    BY <1>35, <2>1, <2>2 DEF CheckGate, TypeOK, WorldType, DispType, HandlerType,
       GhostType, world, loop, ghosts
<1>36. ASSUME NEW p \in Pids, Commit(p) PROVE TypeOK'
  <2>1. WorldType'
    BY <1>36, <1>t DEF Commit, WorldType
  <2>2. ChildType'
    BY <1>36, <1>t, GoType DEF Commit, ChildType, ChildPc, PublishPc, At
  <2> QED
    BY <1>36, <2>1, <2>2 DEF Commit, TypeOK, StoreType, DispType, HandlerType,
       GhostType, loop, ghosts
<1>37. ASSUME NEW p \in Pids, Push(p) PROVE TypeOK'
  <2>1. WorldType'
    BY <1>37, <1>t DEF Push, WorldType
  <2>2. ChildType'
    BY <1>37, <1>t, GoType DEF Push, ChildType, ChildPc, PublishPc, At
  <2> QED
    BY <1>37, <2>1, <2>2 DEF Push, TypeOK, StoreType, DispType, HandlerType, GhostType,
       loop, ghosts
<1>38. ASSUME NEW p \in Pids, OpenPr(p) PROVE TypeOK'
  <2>1. WorldType'
    BY <1>38, <1>t DEF OpenPr, WorldType
  <2>2. ChildType'
    BY <1>38, <1>t, GoType DEF OpenPr, ChildType, ChildPc, PublishPc, At
  <2> QED
    BY <1>38, <2>1, <2>2 DEF OpenPr, TypeOK, StoreType, DispType, HandlerType,
       GhostType, loop, ghosts
<1>39. ASSUME NEW p \in Pids, Succeed(p) PROVE TypeOK'
  <2>1. StoreType'
    <3>1. JobOf(p) \in Jobs
      BY <1>39, <1>t, JobType DEF Succeed, At
    <3>2. QED
      BY <1>39, <1>t, <3>1, BecomeType DEF Succeed, StoreType, States
  <2>2. ChildType'
    BY <1>39, <1>t, DiesType, GoType DEF Succeed, ChildType, ChildPc, At, Exit, Leave
  <2> QED
    BY <1>39, <2>1, <2>2 DEF Succeed, TypeOK, WorldType, DispType, HandlerType,
       GhostType, world, loop, ghosts
<1>40. ASSUME NEW p \in Pids, PublishRaises(p) PROVE TypeOK'
  <2>1. ChildType'
    BY <1>40, <1>t, GoType DEF PublishRaises, ChildType, ChildPc, PublishPc
  <2> QED
    BY <1>40, <2>1 DEF PublishRaises, TypeOK, StoreType, WorldType, DispType,
       HandlerType, GhostType, world, loop, ghosts
<1>41. ASSUME NEW p \in Pids, PublishFails(p) PROVE TypeOK'
  <2>1. StoreType'
    <3>1. JobOf(p) \in Jobs
      BY <1>41, <1>t, JobType DEF PublishFails, At
    <3>2. QED
      BY <1>41, <1>t, <3>1, BecomeType DEF PublishFails, StoreType, States
  <2>2. ChildType'
    BY <1>41, <1>t, DiesType, GoType DEF PublishFails, ChildType, ChildPc, At, Exit,
       Leave
  <2>3. GhostType'
    BY <1>41, <1>t, JobType, NoneAssumption DEF PublishFails, GhostType, Order,
       HandlerType, DispType, At
  <2> QED
    BY <1>41, <2>1, <2>2, <2>3 DEF PublishFails, TypeOK, WorldType, DispType,
       HandlerType, world, loop
<1>42. ASSUME NEW p \in Pids, FinishRead(p) PROVE TypeOK'
  <2>1. ChildType'
    <3>1. JobOf(p) \in Jobs
      BY <1>42, <1>t, JobType DEF FinishRead, At
    <3>2. CASE /\ proc' = [proc EXCEPT ![p].pc = "finwrite", ![p].seen = intent[JobOf(p)]]
               /\ UNCHANGED lease
      <4>1. intent[JobOf(p)] \in Intent
        BY <1>t, <3>1 DEF StoreType
      <4> DEFINE moved == [proc EXCEPT ![p].pc = "finwrite"]
      <4>2. moved \in [Pids -> Child]
        BY <1>t DEF ChildType, Child, ChildPc
      <4>3. [moved EXCEPT ![p].seen = intent[JobOf(p)]] \in [Pids -> Child]
        <5> HIDE DEF moved
        <5> QED
          BY <4>1, <4>2 DEF Child
      <4>4. proc' = [moved EXCEPT ![p].seen = intent[JobOf(p)]]
        BY <3>2
      <4>5. \A q \in Pids : proc'[q].job = proc[q].job
        BY <1>t, <3>2 DEF ChildType
      <4>6. QED
        BY <1>t, <3>1, <3>2, <4>3 DEF ChildType, JobOf
    <3>3. QED
      BY <1>42, <1>t, <3>2, DiesType DEF FinishRead, Exit
  <2> QED
    BY <1>42, <2>1 DEF FinishRead, TypeOK, StoreType, WorldType, DispType, HandlerType,
       GhostType, world, loop, ghosts
<1>43. ASSUME NEW p \in Pids, FinishWrite(p) PROVE TypeOK'
  <2>1. StoreType'
    <3>1. JobOf(p) \in Jobs
      BY <1>43, <1>t, JobType DEF FinishWrite, At
    <3>2. [proc[p].seen EXCEPT !.pending = FALSE] \in Intent
      <4>1. proc[p].seen \in Intent
        BY <1>t DEF ChildType, Child
      <4>2. QED
        BY <4>1 DEF Intent
    <3>3. QED
      BY <1>43, <1>t, <3>2 DEF FinishWrite, StoreType
  <2>2. ChildType'
    BY <1>43, <1>t, DiesType DEF FinishWrite, Exit
  <2> QED
    BY <1>43, <2>1, <2>2 DEF FinishWrite, TypeOK, WorldType, DispType, HandlerType,
       GhostType, world, loop, ghosts
<1>44. ASSUME NEW p \in Pids, Crash(p) PROVE TypeOK'
  <2>1. ChildType'
    BY <1>44, <1>t, DiesType DEF Crash
  <2>2. GhostType'
    BY <1>44, <1>t DEF Crash, GhostType
  <2> QED
    BY <1>44, <2>1, <2>2 DEF Crash, TypeOK, StoreType, WorldType, DispType, HandlerType,
       world, loop
<1>45. CASE ManagerRestart
  <2>1. DispType'
    BY <1>45, Defaults DEF ManagerRestart, DispType, Scanning
  <2>2. HandlerType'
    BY <1>45, Defaults DEF ManagerRestart, HandlerType, NoCancel, NoPublish
  <2>3. GhostType'
    BY <1>45, <1>t DEF ManagerRestart, GhostType
  <2> QED
    BY <1>45, <2>1, <2>2, <2>3 DEF ManagerRestart, TypeOK, StoreType, WorldType,
       ChildType, world, child
<1>46. CASE UNCHANGED vars
  BY <1>46 DEF vars, TypeOK, StoreType, WorldType, ChildType, DispType, HandlerType,
     GhostType
<1> QED
  BY <1>1, <1>2, <1>3, <1>4, <1>5, <1>6, <1>7, <1>8, <1>9, <1>10, <1>11, <1>12, <1>13,
     <1>14, <1>15, <1>16, <1>17, <1>18, <1>19, <1>20, <1>21, <1>22, <1>23, <1>24, <1>25,
     <1>26, <1>27, <1>28, <1>29, <1>30, <1>31, <1>32, <1>33, <1>34, <1>35, <1>36, <1>37,
     <1>38, <1>39, <1>40, <1>41, <1>42, <1>43, <1>44, <1>45, <1>46 DEF Next, Dispatch,
     Handlers, ChildStep

-----------------------------------------------------------------------------
\* Whatever the manager, its handlers and the children do, and in whatever
\* order, every manifest, sidecar, worktree and program counter keeps its type,
\* a step in flight names its job and a dead process leaves nothing behind.
THEOREM TypeCorrect == Spec => []TypeOK
BY InitType, TypeStep, PTL DEF Spec
=============================================================================
