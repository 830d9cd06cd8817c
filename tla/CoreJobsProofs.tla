---------------------------- MODULE CoreJobsProofs ----------------------------
(***************************************************************************)
(* The core is safe for any jobs and bounds: rows are as real as the       *)
(* worker's manifests however old the answers they are made of, an         *)
(* acknowledged outcome has been told, and a cancelled publication stops.  *)
(***************************************************************************)
EXTENDS CoreJobsTypes

-----------------------------------------------------------------------------
(* What a step does to one job of the worker.                              *)

Kept(c) ==
    /\ remote'[c] = remote[c] /\ released'[c] = released[c]
    /\ exposed'[c] = exposed[c] \/ remote[c] \in {"prepared", "publishing"}
Accepted(c) ==
    /\ remote[c] = "absent" /\ remote'[c] = "queued"
    /\ \/ Create /\ c = Target(run.job)
       \/ LateCreate(c) \in late /\ ArriveLate(LateCreate(c))
Worked(c) ==
    /\ WorkerRuns /\ remote[c] \in {"queued", "running"}
    /\ remote'[c] \in {"queued", "running", "prepared", "failed"}
    /\ released'[c] = released[c]
Cancelled(c) ==
    /\ ServeCancel /\ c = Target(direct.job) /\ Learn("cancelled")
    /\ remote[c] \in {"queued", "running"} \/ IsHandoff(c)
    /\ remote'[c] = "cancelled" /\ released' = released
Claimed(c) ==
    /\ remote[c] = "prepared" /\ remote'[c] = "publishing" /\ released' = released
    /\ \/ ClaimPublication /\ c = Target(run.job)
       \/ IsHandoff(c) /\ WorkerRuns
       \/ WorkerRuns /\ used'.reclaims = used.reclaims + 1
Unclaimed(c) ==
    /\ remote[c] = "publishing" /\ remote'[c] = "prepared" /\ released'[c] = TRUE
    /\ \/ ServeCancel /\ c = Target(direct.job) /\ Learn("prepared")
       \/ WorkerRuns
Completed(c) ==
    /\ remote[c] = "publishing" /\ remote'[c] = "succeeded" /\ WorkerRuns
    /\ released'[c] = released[c] /\ exposed[c] = "pr" /\ exposed'[c] = "pr"

WorkerChange(c) ==
    \/ Kept(c) \/ Accepted(c) \/ Worked(c) \/ Cancelled(c) \/ Claimed(c) \/ Unclaimed(c)
    \/ Completed(c)

LEMMA MoveAt ==
    ASSUME TypeOK, NEW c \in CodexJobs, NEW d, NEW from, NEW to, W!Move(d, from, to)
    PROVE  /\ UNCHANGED <<exposed, ordered>>
           /\ c = d => remote[c] \in from /\ remote'[c] = to
           /\ c # d => remote'[c] = remote[c]
BY DEF TypeOK, W!Move

LEMMA WorkerChanges ==
    ASSUME IInv, [Next]_vars
    PROVE  \A c \in CodexJobs : WorkerChange(c)
<1> SUFFICES ASSUME NEW c \in CodexJobs PROVE WorkerChange(c)
  OBVIOUS
<1>1. TypeOK /\ remote \in [CodexJobs -> LocalStates] /\ released \in [CodexJobs -> BOOLEAN]
  BY DEF IInv, TypeOK
<1>2. CASE UNCHANGED worker
  BY <1>2 DEF worker, WorkerChange, Kept
<1>3. ASSUME NEW d, NEW from, NEW to, W!Move(d, from, to), UNCHANGED released, c # d
      PROVE  Kept(c)
  BY <1>1, <1>3, MoveAt DEF Kept
<1>4. CASE Executing
  <2>1. UNCHANGED released
    BY <1>4, ExecutingFrame
  <2>2. CASE Create
    <3>1. CASE W!Accept(Target(run.job))
      BY <1>1, <1>3, <2>1, <2>2, <3>1, MoveAt DEF W!Accept, WorkerChange, Accepted
    <3>2. QED
      BY <1>2, <2>1, <2>2, <3>1 DEF Create, worker
  <2>3. CASE ClaimPublication
    <3>1. CASE W!Claim(Target(run.job))
      BY <1>1, <1>3, <2>1, <2>3, <3>1, MoveAt DEF W!Claim, WorkerChange, Claimed
    <3>2. QED
      BY <1>2, <2>1, <2>3, <3>1 DEF ClaimPublication, worker
  <2>4. CASE OrderPublication
    <3>1. UNCHANGED <<remote, exposed, released>>
      BY <2>1, <2>4 DEF OrderPublication, W!OrderPublication
    <3>2. QED
      BY <3>1 DEF WorkerChange, Kept
  <2>5. QED
    BY <1>2, <1>4, <2>2, <2>3, <2>4 DEF Executing, Start, Look, CallFails
<1>5. CASE Asking
  <2>1. CASE ServeCancel
    <3> DEFINE t == Target(direct.job)
    <3>1. CASE /\ remote[t] \in {"queued", "running"} \/ IsHandoff(t)
               /\ W!Cancel(t) /\ Learn("cancelled") /\ UNCHANGED released
      <4>1. \E from : W!Move(t, from, "cancelled")
        BY <3>1 DEF W!Cancel
      <4>2. CASE c = t
        BY <1>1, <2>1, <3>1, <4>1, <4>2, MoveAt DEF WorkerChange, Cancelled
      <4>3. CASE c # t
        BY <1>3, <3>1, <4>1, <4>3 DEF WorkerChange
      <4>4. QED
        BY <4>2, <4>3
    <3>2. CASE /\ W!Release(t) /\ released' = [released EXCEPT ![t] = TRUE] /\ Learn("prepared")
      <4>1. CASE c = t
        BY <1>1, <2>1, <3>2, <4>1, MoveAt DEF W!Release, WorkerChange, Unclaimed
      <4>2. CASE c # t
        BY <1>1, <3>2, <4>2, MoveAt DEF W!Release, WorkerChange, Kept
      <4>3. QED
        BY <4>1, <4>2
    <3>3. QED
      BY <1>2, <2>1, <3>1, <3>2 DEF ServeCancel
  <2>2. QED
    BY <1>2, <1>5, <2>1 DEF Asking, Inquire, DirectFails, Redo, AskStatus, AskCancel
<1>6. CASE WorkerRuns
  <2>1. ASSUME NEW d \in late, ArriveLate(d)
        PROVE  WorkerChange(c)
    <3>1. UNCHANGED released
      BY <2>1 DEF ArriveLate
    <3>2. CASE d.op = "create" /\ W!Accept(d.job)
      <4>1. d = LateCreate(d.job)
        BY <1>1, <2>1, <3>2 DEF TypeOK, Late, LateCreate
      <4>2. CASE c = d.job
        BY <1>1, <2>1, <3>2, <4>1, <4>2, MoveAt DEF W!Accept, WorkerChange, Accepted
      <4>3. CASE c # d.job
        BY <1>3, <3>1, <3>2, <4>3 DEF W!Accept, WorkerChange
      <4>4. QED
        BY <4>2, <4>3
    <3>3. CASE W!OrderPublication(d.job)
      BY <3>1, <3>3 DEF W!OrderPublication, WorkerChange, Kept
    <3>4. CASE UNCHANGED <<remote, exposed, ordered>>
      BY <1>2, <3>1, <3>4 DEF worker
    <3>5. QED
      BY <2>1, <3>2, <3>3, <3>4 DEF ArriveLate
  <2>2. ASSUME NEW j \in CodexJobs, WorkerExecutes(j) \/ WorkerRetries(j)
        PROVE  WorkerChange(c)
    <3>1. PICK from \in SUBSET {"queued", "running"}, to \in {"queued", "running", "prepared", "failed"} :
              W!Move(j, from, to)
      BY <2>2 DEF WorkerExecutes, WorkerRetries, W!Start, W!Prepare, W!Fail, W!Retry
    <3>2. UNCHANGED released
      BY <2>2 DEF WorkerExecutes, WorkerRetries
    <3>3. CASE c = j
      <4>1. remote[c] \in from /\ remote'[c] = to
        BY <1>1, <3>1, <3>3, MoveAt
      <4>2. Worked(c)
        BY <1>6, <3>1, <3>2, <4>1 DEF Worked
      <4>3. QED
        BY <4>2 DEF WorkerChange
    <3>4. QED
      BY <1>3, <3>1, <3>2, <3>3 DEF WorkerChange
  <2>3. ASSUME NEW j \in CodexJobs, WorkerHandsOff(j) \/ WorkerReclaims(j)
        PROVE  WorkerChange(c)
    <3>1. W!Move(j, {"prepared"}, "publishing") /\ UNCHANGED released
      BY <2>3 DEF WorkerHandsOff, WorkerReclaims, W!Claim
    <3>2. IsHandoff(j) \/ used'.reclaims = used.reclaims + 1
      BY <1>1, <2>3, SpendType DEF WorkerHandsOff, WorkerReclaims
    <3>3. CASE c = j
      <4>1. remote[c] = "prepared" /\ remote'[c] = "publishing"
        BY <1>1, <3>1, <3>3, MoveAt
      <4>2. Claimed(c)
        BY <1>6, <3>1, <3>2, <3>3, <4>1 DEF Claimed
      <4>3. QED
        BY <4>2 DEF WorkerChange
    <3>4. QED
      BY <1>3, <3>1, <3>3 DEF WorkerChange
  <2>4. ASSUME NEW j \in CodexJobs, WorkerPublishes(j)
        PROVE  WorkerChange(c)
    <3>1. CASE W!Expose(j) /\ UNCHANGED released
      <4>1. /\ remote' = remote /\ released' = released /\ remote[j] \in {"publishing", "prepared"}
            /\ c # j => exposed'[c] = exposed[c]
        BY <1>1, <3>1 DEF W!Expose, TypeOK
      <4>2. QED
        BY <4>1 DEF WorkerChange, Kept
    <3>2. CASE W!Complete(j) /\ UNCHANGED released
      <4>1. W!Move(j, {"publishing"}, "succeeded") /\ exposed[j] = "pr"
        BY <3>2 DEF W!Complete
      <4>2. CASE c = j
        BY <1>1, <1>6, <3>2, <4>1, <4>2, MoveAt DEF WorkerChange, Completed
      <4>3. QED
        BY <1>3, <3>2, <4>1, <4>2 DEF WorkerChange
    <3>3. CASE W!Release(j) /\ released' = [released EXCEPT ![j] = TRUE]
      <4>1. CASE c = j
        BY <1>1, <1>6, <3>3, <4>1, MoveAt DEF W!Release, WorkerChange, Unclaimed
      <4>2. CASE c # j
        BY <1>1, <3>3, <4>2, MoveAt DEF W!Release, WorkerChange, Kept
      <4>3. QED
        BY <4>1, <4>2
    <3>4. QED
      BY <2>4, <3>1, <3>2, <3>3 DEF WorkerPublishes
  <2>5. QED
    BY <1>6, <2>1, <2>2, <2>3, <2>4 DEF WorkerRuns
<1>7. QED
  BY <1>2, <1>4, <1>5, <1>6, Kinds, NotifyingFrame, SubmittingFrame, RowFrame, CrashFrame
     DEF vars, worker

\* What the worker does not take back.
LEMMA WorkerKeeps ==
    ASSUME IInv, [Next]_vars, NEW c \in CodexJobs
    PROVE  /\ remote[c] # "absent" => remote'[c] # "absent"
           /\ remote[c] \in Terminal => remote'[c] = remote[c]
           /\ remote[c] \in {"prepared", "publishing", "succeeded"} /\ HandedOff(c)
              => remote'[c] \in {"prepared", "publishing", "succeeded"}
           /\ HandedOff(c) => HandedOff(c)'
           /\ Published(c) => Published(c)'
           /\ remote[c] = "succeeded" => exposed'[c] = exposed[c]
           /\ remote'[c] = "succeeded" /\ remote[c] # "succeeded" => exposed'[c] = "pr"
<1>1. WorkerChange(c) /\ remote[c] \in LocalStates
  BY WorkerChanges DEF IInv, TypeOK
<1>2. CASE Kept(c)
  BY <1>1, <1>2 DEF Kept, HandedOff, Published
<1>3. CASE Accepted(c)
  <2>1. UNCHANGED released
    BY <1>3, ExecutingFrame DEF Accepted, Executing, ArriveLate
  <2>2. QED
    BY <1>3, <2>1 DEF Accepted, HandedOff, Published, Terminal
<1>4. CASE Worked(c)
  BY <1>4 DEF Worked, HandedOff, Published, Terminal
<1>5. CASE Cancelled(c)
  BY <1>5 DEF Cancelled, HandedOff, Published, Terminal, IsHandoff
<1>6. CASE Claimed(c)
  BY <1>6 DEF Claimed, HandedOff, Published, Terminal
<1>7. CASE Unclaimed(c)
  BY <1>7 DEF Unclaimed, HandedOff, Published, Terminal
<1>8. CASE Completed(c)
  BY <1>8 DEF Completed, HandedOff, Published, Terminal
<1>9. QED
  BY <1>1, <1>2, <1>3, <1>4, <1>5, <1>6, <1>7, <1>8 DEF WorkerChange

-----------------------------------------------------------------------------
(* What a step does to one row.                                            *)

Unmoved(j)   == job'[j] = job[j]
Acknowledged(j) ==
    /\ job'[j].state = job[j].state /\ job'[j].target = job[j].target /\ job'[j].acked
    /\ job[j].state \in Notifiable /\ Mark /\ j = notice.job
Submitted(j) ==
    /\ Submitting /\ job[j].state = "absent" /\ job'[j].state = "queued" /\ ~job'[j].acked
    /\ LoopFree /\ direct = Idle
    /\ \A k \in Jobs \ {j} : job'[k] = job[k]
MovedOn(j) ==
    \E s \in LocalStates, keep \in BOOLEAN :
        /\ Transition(j, s, keep) /\ RowMoves
        /\ job'[j].state = s /\ job'[j].target = job[j].target
        /\ job'[j].acked <=> keep /\ job[j].acked
        /\ \A k \in Jobs \ {j} : job'[k] = job[k]

LEMMA RowChanges ==
    ASSUME IInv, [Next]_vars
    PROVE  \A j \in Jobs : Unmoved(j) \/ Acknowledged(j) \/ Submitted(j) \/ MovedOn(j)
<1>1. TypeOK
  BY DEF IInv
<1>2. CASE job' = job
  BY <1>2 DEF Unmoved
<1>3. CASE Submitting
  <2>1. PICK j \in Jobs, t \in CodexJobs :
             /\ job[j].state = "absent" /\ LoopFree /\ direct = Idle
             /\ job' = [job EXCEPT ![j] = [state |-> "queued", acked |-> FALSE, target |-> t]]
    BY <1>1, <1>3, SubmitEffect
  <2>2. /\ job'[j] = [state |-> "queued", acked |-> FALSE, target |-> t]
        /\ \A k \in Jobs \ {j} : job'[k] = job[k]
    BY <1>1, <2>1 DEF TypeOK
  <2>3. QED
    BY <1>3, <2>1, <2>2 DEF Unmoved, Submitted
<1>4. CASE RowMoves
  <2>1. ASSUME NEW j \in Jobs, Mark, j = notice.job, job[j].state \in Notifiable,
               job' = [job EXCEPT ![j].acked = TRUE]
        PROVE  Acknowledged(j) /\ \A k \in Jobs \ {j} : Unmoved(k)
    BY <1>1, <2>1, AckRow DEF Unmoved, Acknowledged
  <2>2. ASSUME NEW j \in Jobs, NEW s \in LocalStates, NEW keep \in BOOLEAN, Transition(j, s, keep)
        PROVE  MovedOn(j) /\ \A k \in Jobs \ {j} : Unmoved(k)
    BY <1>1, <1>4, <2>2, MovesRow DEF Transition, MovedOn, Unmoved
  <2>3. QED
    BY <1>2, <1>4, <2>1, <2>2, RowChange DEF SomeTransition
<1>5. QED
  BY <1>2, <1>3, <1>4, Kinds, NotifyingFrame, ExecutingFrame, AskingFrame, WorkerFrame, CrashFrame
     DEF vars, db

\* No row goes back, or moves without a reason.
LEMMA StateChange ==
    ASSUME IInv, [Next]_vars, NEW j \in Jobs
    PROVE  /\ job'[j].state \in LocalStates /\ job[j].state \in LocalStates
           /\ \/ job'[j].state = job[j].state
              \/ Submitted(j) /\ job'[j].state = "queued"
              \/ job[j].state = "queued" /\ job'[j].state = "running" /\ Begin(j)
              \/ /\ job[j].state \notin Terminal \cup {"absent"} /\ job'[j].state \in Notifiable
                 /\ job'[j].state = "prepared" => j \in CodexJobs
              \/ job[j].state = "prepared" /\ job'[j].state = "publishing" /\ j \in CodexJobs
<1>1. CASE MovedOn(j)
  <2>1. PICK s \in LocalStates, keep \in BOOLEAN : Transition(j, s, keep) /\ job'[j].state = s
    BY <1>1 DEF MovedOn
  <2>2. s = "running" /\ job[j].state = "queued" => Begin(j)
    BY <2>1 DEF Transition, Cause, Copies, Outcome, Notifiable, Terminal
  <2>3. QED
    BY <2>1, <2>2 DEF Transition, IInv, TypeOK
<1>2. QED
  BY <1>1, RowChanges, RowsStay DEF Unmoved, Acknowledged, Submitted, Row, IInv, TypeOK

\* A job that begins is the only one, and older than what waits.
LEMMA BeginAlone ==
    ASSUME IInv, NEW j \in Jobs, Begin(j)
    PROVE  /\ job[j].state \in {"queued", "running", "publishing"} /\ run = NoRun /\ run'.job = j
           /\ run'.pc = "start" /\ run'.seen = "none"
           /\ job[j].state = "queued" => \A k \in Jobs : job[k].state \notin {"running", "publishing"}
           /\ \A k \in Jobs : job[k].state = "queued" /\ job[j].state = "queued" => j <= k
<1>1. run = NoRun /\ run'.job = j /\ run'.pc = "start" /\ run'.seen = "none"
  <2>1. /\ run.pc = "idle"
        /\ run' = [job |-> j, pc |-> "start", seen |-> "none", keep |-> FALSE]
    BY BeginEffect
  <2>2. run = NoRun
    BY <2>1 DEF IInv, RefsOK, RunRefs
  <2>3. QED
    BY <2>1, <2>2
<1>2. Runnable(j)
  BY BeginEffect
<1> DEFINE active == {k \in Jobs : job[k].state \in {"running", "publishing"}}
           queued == {k \in Jobs : job[k].state = "queued"}
<1>3. CASE active # {}
  BY <1>1, <1>2, <1>3 DEF Runnable
<1>4. CASE active = {}
  BY <1>1, <1>2, <1>4 DEF Runnable
<1>5. QED
  BY <1>3, <1>4

\* The execution is of one job from its begin to its end.
LEMMA RunKeepsJob ==
    ASSUME IInv, [Next]_vars
    PROVE  \/ run'.pc = "idle"
           \/ run.pc # "idle" /\ run'.job = run.job
           \/ \E j \in Jobs : Begin(j)
<1>1. run \in Run /\ (run.pc = "idle" => run = NoRun)
  BY DEF IInv, TypeOK, RefsOK, RunRefs
<1>2. CASE run' = run
  BY <1>2
<1>3. CASE Executing
  <2>1. run.pc # "idle"
    BY <1>3 DEF Executing, Start, Look, Create, OrderPublication, ClaimPublication, CallFails, Calls
  <2>2. run'.job = run.job
    BY <1>1, <1>3 DEF Executing, Start, Look, Create, OrderPublication, ClaimPublication, CallFails,
       Answered, Raised, Run
  <2>3. QED
    BY <2>1, <2>2
<1>4. CASE RowMoves
  <2>1. CASE Digest
    BY <1>1, <2>1 DEF Digest, Run
  <2>2. CASE Finish
    BY <2>2 DEF Finish, NoRun
  <2>3. CASE Settle
    <3>1. CASE run.job = direct.job /\ run.pc # "done"
      <4>1. run' = [run EXCEPT !.pc = "done", !.seen = "stopped"]
        BY <2>3, <3>1 DEF Settle
      <4>2. run.pc # "idle"
        BY <1>1, <2>3, <3>1, JobsAssumption DEF Settle, IInv, RefsOK, DirectRefs, Known, NoRun
      <4>3. QED
        BY <1>1, <4>1, <4>2 DEF Run
    <3>2. QED
      BY <1>2, <2>3, <3>1 DEF Settle
  <2>4. QED
    BY <1>2, <1>4, <2>1, <2>2, <2>3 DEF RowMoves, Continue, Mark, EndInquiry, EndCancel, CancelQueued
<1>5. CASE Crash
  BY <1>5 DEF Crash, NoRun
<1>6. QED
  BY <1>2, <1>3, <1>4, <1>5, Kinds, NotifyingFrame, AskingFrame, WorkerFrame, SubmittingFrame
     DEF vars, core

\* The worker and the rows agree on what has not begun.
LEMMA RowsStep ==
    ASSUME IInv, [Next]_vars
    PROVE  RowsOK'
<1>1. TypeOK /\ RefsOK /\ RowsOK
  BY DEF IInv
<1>2. OneRunning'
  <2> SUFFICES ASSUME NEW j \in Jobs, NEW k \in Jobs, job'[j].state = "running",
                      job'[k].state = "running"
               PROVE  j = k
    BY DEF OneRunning
  <2>1. ASSUME NEW i \in Jobs, job'[i].state = "running"
        PROVE  \/ job[i].state = "running"
               \/ Begin(i) /\ job[i].state = "queued"
    BY <2>1, StateChange DEF Notifiable, Terminal
  <2>2. CASE job[j].state = "running" /\ job[k].state = "running"
    BY <1>1, <2>2 DEF RowsOK, OneRunning
  <2>3. CASE Begin(j) /\ job[j].state = "queued"
    <3>1. job[k].state # "running"
      BY <2>3, BeginAlone
    <3>2. Begin(k)
      BY <2>1, <3>1
    <3>3. run'.job = j /\ run'.job = k
      BY <2>3, <3>2, BeginAlone
    <3>4. QED
      BY <3>3
  <2>4. CASE Begin(k) /\ job[k].state = "queued"
    <3>1. job[j].state # "running"
      BY <2>4, BeginAlone
    <3>2. Begin(j)
      BY <2>1, <3>1
    <3>3. run'.job = j /\ run'.job = k
      BY <2>4, <3>2, BeginAlone
    <3>4. QED
      BY <3>3
  <2>5. QED
    BY <2>1, <2>2, <2>3, <2>4
<1>3. ASSUME NEW c \in CodexJobs, job'[c].state \in {"absent", "queued"}
      PROVE  remote'[c] = "absent" /\ LateCreate(c) \notin late'
  <2>1. c \in Jobs /\ job[c].state \in {"absent", "queued"}
    BY <1>3, StateChange DEF Jobs, Submitted, Notifiable, Terminal
  <2>2. remote[c] = "absent" /\ LateCreate(c) \notin late
    BY <1>1, <2>1 DEF RowsOK
  <2>3. ~(run.pc = "create" /\ c = Target(run.job))
    <3>1. ASSUME run.pc = "create" PROVE run.job \in CodexJobs /\ Known(run.job) /\ job[run.job].state # "queued"
      BY <1>1, <3>1 DEF RefsOK, RunRefs, RowsOK
    <3>2. QED
      BY <1>1, <2>1, <3>1, Targets DEF RefsOK, Known
  <2>4. remote'[c] = "absent"
    BY <2>2, <2>3, WorkerChanges DEF WorkerChange, Kept, Accepted, Worked, Cancelled, Claimed,
       Unclaimed, Completed, Create, IsHandoff
  <2>5. LateCreate(c) \notin late'
    BY <2>2, <2>3, LateStep DEF LateCreate
  <2>6. QED
    BY <2>4, <2>5
<1>4. \A p \in PublishJobs : job'[p].state \notin {"prepared", "publishing"}
  <2> SUFFICES ASSUME NEW p \in PublishJobs PROVE job'[p].state \notin {"prepared", "publishing"}
    OBVIOUS
  <2>1. p \in Jobs /\ p \notin CodexJobs /\ job[p].state \notin {"prepared", "publishing"}
    BY <1>1, JobsAssumption DEF Jobs, RowsOK
  <2>2. QED
    BY <2>1, StateChange DEF Submitted, Notifiable, Terminal
<1>5. ASSUME NEW j \in Jobs, job[j].state \in Closed
      PROVE  job'[j].state \in Closed
  BY <1>5, StateChange DEF Closed, Submitted, Notifiable, Terminal
<1>6. ASSUME NEW p \in PublishJobs, job'[p].state = "running"
      PROVE  job'[Target(p)'].state \in Closed
  <2>1. p \in Jobs /\ job[p].state # "absent"
    BY <1>6, StateChange DEF Jobs, Submitted, Notifiable, Terminal
  <2>2. /\ Target(p) \in CodexJobs /\ Target(p) \in Jobs /\ job[Target(p)].state # "absent"
        /\ Target(p) < p /\ Target(p)' = Target(p)
    BY <1>1, <2>1, Targets, RowsStay DEF RefsOK, Known, Jobs, Target
  <2>3. CASE job[p].state = "running"
    BY <1>1, <1>5, <2>2, <2>3 DEF RowsOK
  <2>4. CASE job[p].state = "queued" /\ Begin(p)
    <3>1. job[Target(p)].state \notin {"running", "publishing"}
      BY <2>1, <2>2, <2>4, BeginAlone
    <3>2. job[Target(p)].state # "queued"
      <4>1. ~(p <= Target(p))
        <5>1. \A a, b \in Nat : a < b => ~(b <= a)
          OBVIOUS
        <5>2. QED
          BY <2>1, <2>2, <5>1, JobsAssumption
      <4>2. QED
        BY <2>1, <2>2, <2>4, <4>1, BeginAlone
    <3>3. job[Target(p)].state \in LocalStates
      BY <1>1, <2>2 DEF TypeOK
    <3>4. QED
      BY <1>5, <2>2, <3>1, <3>2, <3>3 DEF LocalStates, Closed, Terminal
  <2>5. QED
    BY <1>6, <2>1, <2>3, <2>4, StateChange DEF Submitted, Notifiable, Terminal
<1>7. ASSUME run'.pc # "idle"
      PROVE  /\ job'[run'.job].state # "queued"
             /\ run'.job \in PublishJobs => job'[job'[run'.job].target].state \in Closed
  <2>1. CASE run.pc # "idle" /\ run'.job = run.job
    <3>1. run.job \in Jobs /\ job[run.job].state \notin {"absent", "queued"}
      BY <1>1, <2>1 DEF RefsOK, RunRefs, RowsOK, Known
    <3>2. job'[run.job].state # "queued"
      BY <3>1, StateChange DEF Submitted, Notifiable, Terminal
    <3>3. ASSUME run.job \in PublishJobs
          PROVE  job'[job'[run.job].target].state \in Closed
      <4>1. Target(run.job) \in Jobs /\ job[Target(run.job)].state \in Closed
        BY <1>1, <2>1, <3>1, <3>3, Targets DEF RowsOK, RefsOK, Known, Jobs
      <4>2. job'[run.job].target = Target(run.job)
        BY <3>1, RowsStay DEF Target
      <4>3. QED
        BY <1>5, <4>1, <4>2
    <3>4. QED
      BY <2>1, <3>2, <3>3 DEF Target
  <2>2. ASSUME NEW j \in Jobs, Begin(j)
        PROVE  /\ job'[run'.job].state # "queued"
               /\ run'.job \in PublishJobs => job'[job'[run'.job].target].state \in Closed
    <3>1. run'.job = j /\ job[j].state \in {"queued", "running", "publishing"}
      BY <2>2, BeginAlone
    <3>2. job'[j].state \in {"running", "publishing"}
      BY <1>1, <2>2, <3>1, BeginEffect, MovesRow DEF LocalStates
    <3>3. ASSUME j \in PublishJobs
          PROVE  job'[job'[j].target].state \in Closed
      BY <1>4, <1>6, <3>2, <3>3 DEF Target
    <3>4. QED
      BY <3>1, <3>2, <3>3 DEF Target
  <2>3. QED
    BY <1>7, <2>1, <2>2, RunKeepsJob
<1>8. \A p \in PublishJobs : (job[p].state = "running" => job[Target(p)].state \in Closed)'
  BY <1>6 DEF Target
<1>9. (run.pc # "idle" /\ run.job \in PublishJobs => job[Target(run.job)].state \in Closed)'
  BY <1>7 DEF Target
<1>10. QED
  BY <1>2, <1>3, <1>4, <1>7, <1>8, <1>9 DEF RowsOK

-----------------------------------------------------------------------------
(* Answers stay true.                                                      *)

LEMMA HeardStays ==
    ASSUME IInv, [Next]_vars, NEW t \in CodexJobs, NEW seen \in LocalStates, Heard(t, seen)
    PROVE  Heard(t, seen)'
BY WorkerKeeps DEF Heard

\* What JobManager.get reports is true, and no PREPARED of a hand-off.
LEMMA ViewHeard ==
    ASSUME IInv, NEW t \in CodexJobs, remote[t] # "absent"
    PROVE  /\ View(t) \in LocalStates /\ Heard(t, View(t))
           /\ View(t) = "prepared" => remote[t] = "prepared"
           /\ remote[t] = "succeeded" => View(t) = "succeeded"
BY DEF View, Heard, IsHandoff, HandedOff, IInv, TypeOK, LocalStates, Terminal

\* The answer an execution holds after a step: the one it held, or a new one.
LEMMA RunAnswer ==
    ASSUME IInv, [Next]_vars, RunHeard'
    PROVE  \/ /\ RunHeard /\ run'.job = run.job /\ run'.seen = run.seen
           \/ \E t \in CodexJobs, seen \in LocalStates :
                /\ run.pc # "idle" /\ run'.job = run.job /\ Known(run.job) /\ job' = job /\ Executing
                /\ t = Target(run.job) /\ seen = run'.seen /\ Heard(t, seen)'
                /\ seen = "prepared" => remote'[t] = "prepared"
                /\ run.job \in PublishJobs => Published(t)'
<1>1. TypeOK /\ RefsOK /\ run \in Run
  BY DEF IInv, TypeOK
<1>2. CASE run' = run
  BY <1>2 DEF RunHeard
<1>3. CASE Executing
  <2>1. job' = job /\ UNCHANGED released
    BY <1>3, ExecutingFrame DEF db
  <2>2. Raised => run'.seen = "error"
    BY <1>1 DEF Raised, Run
  <2>3. ~CallFails
    BY <2>2 DEF CallFails, RunHeard, LocalStates
  <2>4. ~Start
    BY <1>1 DEF Start, RunHeard, Run
  <2>5. run.pc # "idle" /\ Known(run.job)
    BY <1>1, <1>3, <2>3, <2>4 DEF Executing, Look, Create, OrderPublication, ClaimPublication,
       RefsOK, RunRefs
  <2>6. PICK t \in CodexJobs : t = Target(run.job)
    BY <1>1, <2>5, Targets DEF RefsOK
  <2>7. /\ run'.job = run.job
        /\ \A seen : Answered(seen) => run'.seen = seen
    BY <1>1, <1>3, <2>3, <2>4 DEF Executing, Look, Create, OrderPublication, ClaimPublication,
       Answered, Raised, Run
  <2>8. PICK seen \in LocalStates : seen = run'.seen
    BY DEF RunHeard
  <2>9. /\ Heard(t, seen)' /\ (seen = "prepared" => remote'[t] = "prepared")
        /\ run.job \in PublishJobs => Published(t)'
    <3>1. ASSUME remote[t] # "absent", Answered(View(t)), UNCHANGED remote
          PROVE  /\ Heard(t, seen)' /\ (seen = "prepared" => remote'[t] = "prepared")
      BY <2>1, <2>7, <2>8, <3>1, ViewHeard DEF Heard, HandedOff
    <3>2. CASE Look
      <4>1. remote[t] # "absent" /\ Answered(View(t)) /\ UNCHANGED remote
        <5>1. run' # [run EXCEPT !.pc = "create"]
          BY <1>1 DEF RunHeard, Run
        <5>2. QED
          BY <2>6, <3>2, <5>1 DEF Look, worker
      <4>2. run.job \in PublishJobs => Published(t)
        BY <1>1, <2>6, <3>2, JobsAssumption DEF Look, RefsOK, RunRefs, IInv, AskedOK
      <4>3. QED
        BY <2>1, <3>1, <4>1, <4>2 DEF Published, HandedOff
    <3>3. CASE Create
      <4>1. run.job \notin PublishJobs
        BY <1>1, <3>3, JobsAssumption DEF Create, RefsOK, RunRefs
      <4>2. CASE remote[t] = "absent"
        <5>1. remote'[t] = "queued" /\ seen = "queued"
          BY <1>1, <2>6, <2>7, <2>8, <3>3, <4>2, MoveAt DEF Create, W!Accept
        <5>2. QED
          BY <4>1, <5>1 DEF Heard, Terminal
      <4>3. CASE remote[t] # "absent"
        BY <2>6, <3>1, <3>3, <4>1, <4>3 DEF Create
      <4>4. QED
        BY <4>2, <4>3
    <3>4. ASSUME remote[t] \in {"publishing", "succeeded"}, Answered(remote[t]), UNCHANGED remote
          PROVE  Heard(t, seen)' /\ Published(t)' /\ seen # "prepared"
      BY <2>7, <2>8, <3>4 DEF Heard, Published, Terminal
    <3>5. CASE OrderPublication
      <4>1. run' # [run EXCEPT !.pc = "claim"]
        BY <1>1 DEF RunHeard, Run
      <4>2. ~Raised
        BY <2>2 DEF RunHeard, LocalStates
      <4>3. QED
        BY <2>6, <3>4, <3>5, <4>1, <4>2 DEF OrderPublication
    <3>6. CASE ClaimPublication
      <4>1. ~Raised
        BY <2>2 DEF RunHeard, LocalStates
      <4>2. CASE W!Claim(t) /\ Answered("publishing")
        <5>1. remote'[t] = "publishing" /\ seen = "publishing"
          BY <1>1, <2>7, <2>8, <4>2, MoveAt DEF W!Claim
        <5>2. QED
          BY <5>1 DEF Heard, Published, Terminal
      <4>3. QED
        BY <2>6, <3>4, <3>6, <4>1, <4>2 DEF ClaimPublication
    <3>7. QED
      BY <1>3, <2>3, <2>4, <3>2, <3>3, <3>5, <3>6 DEF Executing
  <2>10. QED
    BY <1>3, <2>1, <2>5, <2>6, <2>7, <2>8, <2>9
<1>4. CASE RowMoves
  <2>1. CASE Digest
    <3>1. run.pc = "answered" /\ run.seen \in LocalStates
      BY <1>1, <2>1 DEF Digest, RefsOK, RunRefs
    <3>2. QED
      BY <1>1, <2>1, <3>1, DigestEffect DEF RunHeard, Run
  <2>2. CASE Finish
    BY <2>2 DEF Finish, NoRun, RunHeard
  <2>3. CASE Settle
    <3>1. CASE run' = [run EXCEPT !.pc = "done", !.seen = "stopped"]
      BY <1>1, <3>1 DEF RunHeard, Run, LocalStates
    <3>2. QED
      BY <1>2, <2>3, <3>1 DEF Settle
  <2>4. ASSUME NEW j \in Jobs, Begin(j)
        PROVE  FALSE
    BY <2>4, BeginAlone DEF RunHeard
  <2>5. QED
    BY <1>2, <1>4, <2>1, <2>2, <2>3, <2>4 DEF RowMoves, Continue, Mark, EndInquiry, EndCancel,
       CancelQueued
<1>5. CASE Crash
  BY <1>5 DEF Crash, NoRun, RunHeard
<1>6. QED
  BY <1>2, <1>3, <1>4, <1>5, Kinds, NotifyingFrame, AskingFrame, WorkerFrame, SubmittingFrame
     DEF vars, core

\* The same of the question in flight.
LEMMA DirectAnswer ==
    ASSUME IInv, [Next]_vars, DirectHeard'
    PROVE  \/ DirectHeard /\ direct'.job = direct.job /\ direct'.seen = direct.seen
              /\ direct'.op = direct.op
           \/ \E t \in CodexJobs, seen \in LocalStates :
                /\ direct.pc = "call" /\ direct'.job = direct.job /\ Known(direct.job)
                /\ job' = job /\ Asking /\ direct'.op = direct.op
                /\ t = Target(direct.job) /\ seen = direct'.seen /\ Heard(t, seen)'
                /\ seen = "prepared" => remote'[t] = "prepared" /\ remote[t] # "succeeded"
<1>1. TypeOK /\ RefsOK /\ direct \in Direct
  BY DEF IInv, TypeOK
<1>2. CASE direct' = direct
  BY <1>2 DEF DirectHeard
<1>3. CASE Asking
  <2>1. job' = job
    BY <1>3, AskingFrame DEF db
  <2>2. /\ Recheck => direct'.pc = "call"
        /\ \A seen : Learn(seen) =>
             direct'.seen = seen /\ direct'.job = direct.job /\ direct'.op = direct.op
    BY <1>1 DEF Recheck, Learn, Direct
  <2>3. DirectRaises => direct'.pc \in {"call", "idle"}
    BY <2>2 DEF DirectRaises, Idle
  <2>4. ~DirectFails /\ ~Redo
    BY <1>1, <2>3 DEF DirectFails, Redo, DirectHeard, Direct, Idle
  <2>5. ASSUME NEW j \in Jobs
        PROVE  ~AskStatus(j) /\ ~AskCancel(j)
    BY DEF AskStatus, AskCancel, Idle, DirectHeard
  <2>6. direct.pc = "call" /\ Known(direct.job)
    BY <1>1, <1>3, <2>4, <2>5 DEF Asking, Inquire, ServeCancel, RefsOK, DirectRefs
  <2>7. PICK t \in CodexJobs : t = Target(direct.job)
    BY <1>1, <2>6, Targets DEF RefsOK
  <2>8. PICK seen \in LocalStates : seen = direct'.seen
    <3>1. direct'.seen \in LocalStates
      BY TypeStep DEF DirectHeard, RefsOK, DirectRefs
    <3>2. QED
      BY <3>1
  <2>9. CASE Inquire
    <3>1. remote[t] # "absent" /\ Learn(View(t)) /\ UNCHANGED <<remote, released>>
      BY <2>3, <2>7, <2>9 DEF Inquire, DirectHeard, worker
    <3>2. /\ Heard(t, seen)' /\ direct'.job = direct.job /\ direct'.op = direct.op
          /\ seen = "prepared" => remote'[t] = "prepared" /\ remote[t] # "succeeded"
      BY <2>2, <2>8, <3>1, ViewHeard DEF Heard, HandedOff
    <3>3. QED
      BY <1>3, <2>1, <2>6, <2>7, <2>8, <3>2
  <2>10. CASE ServeCancel
    <3>1. ~Recheck
      BY <2>2 DEF DirectHeard
    <3>2. /\ Heard(t, seen)' /\ direct'.job = direct.job /\ direct'.op = direct.op
          /\ seen = "prepared" => remote'[t] = "prepared" /\ remote[t] # "succeeded"
      <4>1. CASE W!Cancel(t) /\ Learn("cancelled")
        <5>1. \E from : W!Move(t, from, "cancelled")
          BY <4>1 DEF W!Cancel
        <5>2. remote'[t] = "cancelled"
          BY <1>1, <5>1, MoveAt
        <5>3. QED
          BY <2>2, <2>8, <4>1, <5>2 DEF Heard
      <4>2. CASE /\ W!Release(t) /\ released' = [released EXCEPT ![t] = TRUE] /\ Learn("prepared")
        <5>1. remote[t] = "publishing" /\ remote'[t] = "prepared" /\ released'[t] = TRUE
          BY <1>1, <4>2, MoveAt DEF W!Release, TypeOK
        <5>2. QED
          BY <2>2, <2>8, <4>2, <5>1 DEF Heard, HandedOff, Terminal
      <4>3. CASE remote[t] \in Terminal /\ Learn(remote[t]) /\ UNCHANGED worker
        BY <2>2, <2>8, <4>3 DEF Heard, Terminal, worker
      <4>4. QED
        BY <2>7, <2>10, <3>1, <4>1, <4>2, <4>3 DEF ServeCancel
    <3>3. QED
      BY <1>3, <2>1, <2>6, <2>7, <2>8, <3>2
  <2>11. QED
    BY <1>3, <2>4, <2>5, <2>9, <2>10 DEF Asking
<1>4. CASE RowMoves
  <2>1. CASE EndInquiry \/ Settle
    <3>1. direct' = Idle
      BY <2>1 DEF EndInquiry, Settle
    <3>2. QED
      BY <3>1 DEF Idle, DirectHeard
  <2>2. CASE EndCancel
    <3>1. CASE Recheck
      BY <1>1, <3>1 DEF Recheck, DirectHeard, Direct
    <3>2. CASE direct' = [direct EXCEPT !.pc = "settle"]
      BY <1>1, <2>2, <3>2 DEF EndCancel, DirectHeard, Direct
    <3>3. QED
      BY <2>2, <3>1, <3>2 DEF EndCancel
  <2>3. QED
    BY <1>2, <1>4, <2>1, <2>2 DEF RowMoves, Continue, Mark, Digest, Finish, Begin, CancelQueued
<1>5. CASE Crash
  <2>1. direct'.pc \in {"again", "idle"}
    BY <1>5 DEF Crash, Idle
  <2>2. QED
    BY <2>1 DEF DirectHeard
<1>6. QED
  BY <1>2, <1>3, <1>4, <1>5, Kinds, NotifyingFrame, ExecutingFrame, WorkerFrame, SubmittingFrame
     DEF vars, core

\* What an execution and a question hold is still true after the step.
LEMMA RunTruth ==
    ASSUME IInv, [Next]_vars, RunHeard'
    PROVE  \E t \in CodexJobs, seen \in LocalStates :
             /\ t = Target(run.job)' /\ seen = run'.seen /\ Heard(t, seen)'
             /\ \/ RunHeard /\ t = Target(run.job) /\ seen = run.seen /\ run'.job = run.job
                \/ seen = "prepared" => remote'[t] = "prepared"
<1>1. CASE RunHeard /\ run'.job = run.job /\ run'.seen = run.seen
  <2>1. Known(run.job) /\ run.seen \in LocalStates /\ Heard(Target(run.job), run.seen)
    BY <1>1 DEF IInv, RefsOK, RunRefs, RunHeard, HeardOK
  <2>2. PICK t \in CodexJobs, seen \in LocalStates : t = Target(run.job) /\ seen = run.seen
    BY <2>1, Targets DEF IInv, RefsOK
  <2>3. Heard(t, seen)'
    BY <2>1, <2>2, HeardStays
  <2>4. t = Target(run.job)'
    BY <1>1, <2>1, <2>2, RowsStay DEF Target, Known
  <2>5. QED
    BY <1>1, <2>2, <2>3, <2>4
<1>2. CASE \E t \in CodexJobs, seen \in LocalStates :
             /\ run'.job = run.job /\ job' = job
             /\ t = Target(run.job) /\ seen = run'.seen /\ Heard(t, seen)'
             /\ seen = "prepared" => remote'[t] = "prepared"
  BY <1>2 DEF Target
<1>3. QED
  BY <1>1, <1>2, RunAnswer

LEMMA DirectTruth ==
    ASSUME IInv, [Next]_vars, DirectHeard'
    PROVE  \E t \in CodexJobs, seen \in LocalStates :
             /\ t = Target(direct.job)' /\ seen = direct'.seen /\ Heard(t, seen)'
             /\ \/ DirectHeard /\ t = Target(direct.job) /\ seen = direct.seen
                   /\ direct'.job = direct.job
                \/ seen = "prepared" => remote'[t] = "prepared"
<1>1. CASE DirectHeard /\ direct'.job = direct.job /\ direct'.seen = direct.seen
  <2>1. Known(direct.job) /\ direct.seen \in LocalStates /\ Heard(Target(direct.job), direct.seen)
    BY <1>1 DEF IInv, RefsOK, DirectRefs, DirectHeard, HeardOK
  <2>2. PICK t \in CodexJobs, seen \in LocalStates : t = Target(direct.job) /\ seen = direct.seen
    BY <2>1, Targets DEF IInv, RefsOK
  <2>3. Heard(t, seen)'
    BY <2>1, <2>2, HeardStays
  <2>4. t = Target(direct.job)'
    BY <1>1, <2>1, <2>2, RowsStay DEF Target, Known
  <2>5. QED
    BY <1>1, <2>2, <2>3, <2>4
<1>2. CASE \E t \in CodexJobs, seen \in LocalStates :
             /\ direct'.job = direct.job /\ job' = job
             /\ t = Target(direct.job) /\ seen = direct'.seen /\ Heard(t, seen)'
             /\ seen = "prepared" => remote'[t] = "prepared"
  BY <1>2 DEF Target
<1>3. QED
  BY <1>1, <1>2, DirectAnswer

\* An outcome is copied to a row only when the worker has it.
LEMMA CopiedIsReal ==
    ASSUME IInv, NEW c \in CodexJobs, NEW s, Cause(c, s)
    PROVE  /\ s = "succeeded" => remote[c] = "succeeded"
           /\ s = "prepared"  => remote[c] \in {"prepared", "publishing", "succeeded"} /\ HandedOff(c)
           /\ s = "failed"    => remote[c] = "failed" \/ used.failures > 0
           /\ s = "cancelled" => remote[c] = "cancelled" \/ c \in asked \/ CancelQueued(c)
<1>1. c \notin PublishJobs
  BY JobsAssumption
<1>2. CASE \E seen \in LocalStates : Heard(c, seen) /\ Copies(c, s, seen)
  BY <1>2 DEF Heard, Copies, Terminal
<1>3. CASE Continue /\ c = sync.job /\ s = "succeeded"
  BY <1>3 DEF Continue, IInv, RefsOK, SyncRefs, HeardOK
<1>4. CASE Settle /\ c = direct.job /\ s = "cancelled"
  BY <1>4 DEF Settle, IInv, RefsOK, DirectRefs, AskedOK
<1>5. CASE Finish /\ c = run.job /\ s = "failed" /\ run.seen = "error"
  BY <1>5 DEF IInv, AskedOK
<1>6. CASE (Digest \/ Finish) /\ RunHeard /\ c = Target(run.job) /\ Copies(c, s, run.seen)
  BY <1>2, <1>6 DEF IInv, HeardOK, RunHeard
<1>7. CASE (EndInquiry \/ EndCancel) /\ c = Target(direct.job) /\ Copies(c, s, direct.seen)
  <2>1. DirectHeard
    BY <1>7 DEF EndInquiry, EndCancel, DirectHeard
  <2>2. direct.seen \in LocalStates /\ Heard(c, direct.seen)
    BY <1>7, <2>1 DEF DirectHeard, IInv, HeardOK, RefsOK, DirectRefs
  <2>3. QED
    BY <1>2, <1>7, <2>2
<1>8. CASE CancelQueued(c) /\ s = "cancelled"
  BY <1>8
<1>9. CASE Begin(c) /\ s = "running"
  BY <1>9
<1>10. QED
  BY <1>1, <1>3, <1>4, <1>5, <1>6, <1>7, <1>8, <1>9 DEF Cause

\* Half of a transition waits for its other half, or for a crash.
LEMMA HalfStays ==
    ASSUME IInv, [Next]_vars, sync.rest # <<>>
    PROVE  Continue \/ Crash \/ sync' = sync
<1>1. CASE RowMoves
  BY <1>1 DEF RowMoves, Mark, Settle, Digest, Finish, EndInquiry, EndCancel, Begin, CancelQueued,
     Free, LoopFree
<1>2. QED
  BY <1>1, Kinds, NotifyingFrame, ExecutingFrame, AskingFrame, WorkerFrame, SubmittingFrame
     DEF vars, core

LEMMA CrashForgets == Crash => ~RunHeard' /\ ~DirectHeard' /\ run' = NoRun /\ sync' = NoSync
<1> SUFFICES ASSUME Crash PROVE ~RunHeard' /\ ~DirectHeard' /\ run' = NoRun /\ sync' = NoSync
  OBVIOUS
<1>1. run'.pc = "idle" /\ run' = NoRun /\ sync' = NoSync
  BY DEF Crash, NoRun
<1>2. direct'.pc \in {"idle", "again"}
  BY DEF Crash, Idle
<1>3. QED
  BY <1>1, <1>2 DEF RunHeard, DirectHeard

LEMMA HeardStep ==
    ASSUME IInv, [Next]_vars
    PROVE  HeardOK'
<1>1. TypeOK /\ RefsOK /\ HeardOK
  BY DEF IInv
<1>2. (RunHeard => Heard(Target(run.job), run.seen))'
  BY RunTruth
<1>3. (DirectHeard => Heard(Target(direct.job), direct.seen))'
  BY DirectTruth
<1>4. ASSUME NEW c \in CodexJobs
      PROVE  /\ remote'[c] = "succeeded" => exposed'[c] = "pr"
             /\ job'[c].state = "succeeded" => remote'[c] = "succeeded"
             /\ job'[c].state = "prepared" =>
                  remote'[c] \in {"prepared", "publishing", "succeeded"} /\ HandedOff(c)'
             /\ job'[c].state = "publishing" =>
                  /\ remote'[c] = "succeeded"
                  /\ \/ sync'.rest # <<>> /\ sync'.job = c
                     \/ /\ RunHeard' /\ Target(run.job)' = c => run'.seen # "prepared"
                        /\ DirectHeard' /\ Target(direct.job)' = c => direct'.seen # "prepared"
  <2>1. c \in Jobs /\ (remote[c] = "succeeded" => exposed[c] = "pr")
    BY <1>1 DEF HeardOK, Jobs
  <2>2. remote'[c] = "succeeded" => exposed'[c] = "pr"
    BY <2>1, WorkerKeeps
  <2>3. CASE job'[c].state = job[c].state
    <3>1. /\ job[c].state = "succeeded" => remote'[c] = "succeeded"
          /\ job[c].state = "prepared" =>
               remote'[c] \in {"prepared", "publishing", "succeeded"} /\ HandedOff(c)'
          /\ job[c].state = "publishing" => remote'[c] = "succeeded"
      BY <1>1, WorkerKeeps DEF HeardOK, Terminal
    <3>2. ASSUME job[c].state = "publishing"
          PROVE  \/ sync'.rest # <<>> /\ sync'.job = c
                 \/ /\ RunHeard' /\ Target(run.job)' = c => run'.seen # "prepared"
                    /\ DirectHeard' /\ Target(direct.job)' = c => direct'.seen # "prepared"
      <4>1. CASE sync.rest # <<>> /\ sync.job = c
        <5>1. ~Continue
          BY <1>1, <2>1, <2>3, <3>2, <4>1, ContinueEffect, MovesRow DEF RefsOK, LocalStates, TypeOK
        <5>2. QED
          BY <4>1, <5>1, HalfStays, CrashForgets
      <4>2. CASE /\ RunHeard /\ Target(run.job) = c => run.seen # "prepared"
                 /\ DirectHeard /\ Target(direct.job) = c => direct.seen # "prepared"
        <5>1. remote'[c] # "prepared"
          BY <3>1, <3>2
        <5>2. QED
          BY <4>2, <5>1, RunTruth, DirectTruth
      <4>3. QED
        BY <1>1, <3>2, <4>1, <4>2 DEF HeardOK
    <3>3. QED
      BY <2>2, <2>3, <3>1, <3>2
  <2>4. CASE MovedOn(c)
    <3>1. PICK s \in LocalStates, keep \in BOOLEAN :
               Transition(c, s, keep) /\ RowMoves /\ job'[c].state = s
      BY <2>4 DEF MovedOn
    <3>2. Cause(c, s) /\ UNCHANGED <<remote, released>>
      BY <3>1, RowFrame DEF Transition, worker
    <3>3. ASSUME s = "publishing"
          PROVE  job[c].state = "prepared" /\ sync'.rest # <<>> /\ sync'.job = c
      <4>1. /\ job[c].state = "prepared"
            /\ sync' = [job |-> c, rest |-> <<"succeeded">>, keep |-> keep]
        BY <3>1, <3>3 DEF Transition, Notifiable, Terminal
      <4>2. QED
        BY <4>1
    <3>4. s # "publishing"
          \/ remote[c] = "succeeded"
      <4>1. ASSUME s = "publishing"
            PROVE  \E seen \in LocalStates : Heard(c, seen) /\ seen = "succeeded"
        <5>1. \/ RunHeard /\ c = Target(run.job) /\ Copies(c, s, run.seen)
              \/ /\ EndInquiry \/ EndCancel
                 /\ c = Target(direct.job) /\ Copies(c, s, direct.seen)
          BY <3>2, <4>1, JobsAssumption DEF Cause
        <5>2. EndInquiry \/ EndCancel => DirectHeard /\ direct.seen \in LocalStates
          BY <1>1 DEF EndInquiry, EndCancel, DirectHeard, RefsOK, DirectRefs
        <5>3. QED
          BY <1>1, <4>1, <5>1, <5>2 DEF HeardOK, RunHeard, Copies, Notifiable, Terminal
      <4>2. QED
        BY <4>1 DEF Heard, Terminal
    <3>5. QED
      BY <2>2, <3>1, <3>2, <3>3, <3>4, CopiedIsReal DEF HandedOff
  <2>5. QED
    BY <2>2, <2>3, <2>4, RowChanges DEF Unmoved, Acknowledged, Submitted, Jobs
<1>5. ASSUME NEW p \in PublishJobs, job'[p].state = "succeeded"
      PROVE  remote'[job'[p].target] = "succeeded"
  <2>1. p \in Jobs /\ p \notin CodexJobs
    BY JobsAssumption DEF Jobs
  <2>2. job[p].state # "absent"
    BY <1>5, <2>1, StateChange DEF Terminal
  <2>3. PICK t \in CodexJobs : t = job[p].target /\ t = job'[p].target /\ t = Target(p)
    BY <1>1, <2>1, <2>2, Targets, RowsStay DEF RefsOK, Known, Target
  <2>4. CASE job[p].state = "succeeded"
    BY <1>1, <2>3, <2>4, WorkerKeeps DEF HeardOK, Terminal
  <2>5. CASE MovedOn(p)
    <3>1. PICK s \in LocalStates, keep \in BOOLEAN :
               Transition(p, s, keep) /\ RowMoves /\ s = "succeeded"
      BY <1>5, <2>5 DEF MovedOn
    <3>2. Finish /\ p = run.job /\ RunHeard /\ Outcome(p, run.seen) = "succeeded"
      BY <1>1, <2>1, <3>1 DEF Transition, Cause, Continue, RefsOK, SyncRefs
    <3>3. run.seen = "succeeded"
      BY <3>2 DEF Outcome
    <3>4. remote[t] = "succeeded"
      BY <1>1, <2>3, <3>2, <3>3 DEF HeardOK, Heard, Terminal
    <3>5. QED
      BY <2>3, <3>1, <3>4, RowFrame DEF worker
  <2>6. QED
    BY <1>5, <2>1, <2>4, <2>5, RowChanges DEF Unmoved, Acknowledged, Submitted
<1>6. (\A p \in PublishJobs : job[p].state = "succeeded" => remote[Target(p)] = "succeeded")'
  BY <1>5 DEF Target
<1>7. QED
  BY <1>2, <1>3, <1>4, <1>6 DEF HeardOK

-----------------------------------------------------------------------------
(* Who asked, and what failed.                                             *)

\* A cancellation stays on record.
LEMMA AskedGrows ==
    ASSUME [Next]_vars
    PROVE  /\ asked \subseteq asked'
           /\ \A j \in Jobs : AskCancel(j) \/ CancelQueued(j) => j \in asked'
<1>1. \A j \in Jobs : AskCancel(j) \/ CancelQueued(j) => asked' = asked \cup {j}
  BY DEF AskCancel, CancelQueued
<1>2. CASE Asking
  BY <1>1, <1>2 DEF Asking, Inquire, ServeCancel, DirectFails, Redo, AskStatus, ghosts
<1>3. CASE RowMoves
  BY <1>1, <1>3 DEF RowMoves, Continue, Mark, Settle, Digest, Finish, EndInquiry, EndCancel, Begin,
     ghosts
<1>4. QED
  BY <1>1, <1>2, <1>3, Kinds, NotifyingFrame, ExecutingFrame, WorkerFrame, SubmittingFrame,
     CrashFrame DEF vars, ghosts

\* A cancellation in flight is of the job it was asked for.
LEMMA CancelInFlight ==
    ASSUME IInv, [Next]_vars, direct'.op \in {"cancel", "recheck"}
    PROVE  \/ direct.op \in {"cancel", "recheck"} /\ direct'.job = direct.job
           \/ \E j \in Jobs : AskCancel(j) /\ direct'.job = j
<1> DEFINE Goes == direct.op \in {"cancel", "recheck"} /\ direct'.job = direct.job
<1>1. direct \in Direct /\ direct' # Idle
  BY DEF IInv, TypeOK, Idle
<1>2. ASSUME NEW x, Learn(x) \/ direct' = [direct EXCEPT !.pc = x]
      PROVE  Goes
  BY <1>1, <1>2 DEF Learn, Direct
<1>3. ASSUME Recheck, direct.op = "cancel"
      PROVE  Goes
  BY <1>1, <1>3 DEF Recheck, Direct
<1>4. DirectRaises => Goes
  BY <1>1, <1>3 DEF DirectRaises
<1>5. CASE direct' = direct
  BY <1>5
<1>6. CASE Asking
  <2>1. \A j \in Jobs : ~AskStatus(j) /\ (AskCancel(j) => direct'.job = j)
    BY DEF AskStatus, AskCancel, Idle
  <2>2. Inquire \/ DirectFails => Goes
    BY <1>2, <1>4 DEF Inquire, DirectFails
  <2>3. ServeCancel => Goes
    BY <1>2, <1>3 DEF ServeCancel
  <2>4. Redo => Goes
    BY <1>1, <1>2 DEF Redo
  <2>5. QED
    BY <1>6, <2>1, <2>2, <2>3, <2>4 DEF Asking
<1>7. CASE RowMoves
  <2>1. ~EndInquiry /\ ~Settle
    BY <1>1 DEF EndInquiry, Settle
  <2>2. EndCancel => Goes
    BY <1>2, <1>3 DEF EndCancel
  <2>3. QED
    BY <1>5, <1>7, <2>1, <2>2 DEF RowMoves, Continue, Mark, Digest, Finish, Begin, CancelQueued
<1>8. CASE Crash
  <2>1. direct' = [job |-> direct.job, pc |-> "again", seen |-> "none",
                   op |-> IF direct.op = "recheck" THEN "cancel" ELSE direct.op]
    BY <1>1, <1>8 DEF Crash, Idle
  <2>2. QED
    BY <2>1
<1>9. QED
  BY <1>5, <1>6, <1>7, <1>8, Kinds, NotifyingFrame, ExecutingFrame, WorkerFrame, SubmittingFrame
     DEF vars, core

\* How an execution comes to be stopped, to have raised, or to poll.
LEMMA HowItEnds ==
    ASSUME IInv, [Next]_vars
    PROVE  /\ run'.seen = "stopped" =>
                \/ run'.job = run.job /\ run.seen = "stopped" /\ run.pc # "idle"
                \/ Settle /\ run'.job = run.job /\ run.job = direct.job
           /\ run'.seen = "error" =>
                \/ run'.job = run.job /\ run.seen = "error"
                \/ CallFails
                \/ run'.job = run.job /\ run.job \in PublishJobs
           /\ run'.pc = "poll" =>
                \/ run'.job = run.job /\ run.pc = "poll"
                \/ run'.job = run.job /\ RunHeard
<1> DEFINE Stopped == \/ run'.job = run.job /\ run.seen = "stopped" /\ run.pc # "idle"
                      \/ Settle /\ run'.job = run.job /\ run.job = direct.job
           Failed  == \/ run'.job = run.job /\ run.seen = "error"
                      \/ CallFails
                      \/ run'.job = run.job /\ run.job \in PublishJobs
           Polls   == \/ run'.job = run.job /\ run.pc = "poll"
                      \/ run'.job = run.job /\ RunHeard
           Shown   == /\ run'.seen = "stopped" => Stopped
                      /\ run'.seen = "error" => Failed
                      /\ run'.pc = "poll" => Polls
<1>1. run \in Run /\ TypeOK /\ RunRefs /\ (run.seen = "stopped" => run.pc # "idle")
  BY DEF IInv, TypeOK, RefsOK, RunRefs, NoRun
<1>2. CASE run' = run
  BY <1>1, <1>2
<1>3. ASSUME NEW s \in LocalStates, Answered(s)
      PROVE  Shown
  BY <1>1, <1>3 DEF Answered, Run, LocalStates
<1>4. CASE Executing
  <2>1. ASSUME NEW p \in {"lookup", "create", "claim"}, run' = [run EXCEPT !.pc = p]
        PROVE  Shown
    BY <1>1, <2>1 DEF Run
  <2>2. ASSUME NEW k \in BOOLEAN, run' = [run EXCEPT !.pc = "publish", !.keep = k]
        PROVE  Shown
    BY <1>1, <2>2 DEF Run
  <2>3. Raised /\ run.job \in PublishJobs => Shown
    BY <1>1 DEF Raised, Run
  <2>4. CallFails => Shown
    BY <1>1 DEF CallFails, Raised, Run
  <2>5. CASE Start
    <3>1. run.job \in Jobs /\ job[run.job].state # "absent"
      BY <1>1, <2>5 DEF Start, RunRefs, Known
    <3>2. Target(run.job) \in Jobs
      BY <3>1, Targets DEF Known, IInv, RefsOK, Jobs
    <3>3. job[Target(run.job)].acked \in BOOLEAN
      BY <1>1, <3>2 DEF TypeOK
    <3>4. QED
      BY <2>1, <2>2, <2>5, <3>3 DEF Start
  <2>6. ASSUME run.pc \in {"lookup", "create", "poll", "publish", "claim"}
        PROVE  \A v : v = Target(run.job) => v \in CodexJobs /\ remote[v] \in LocalStates /\ View(v) \in LocalStates
    BY <1>1, <2>6, Targets DEF RunRefs, IInv, RefsOK, TypeOK, View, LocalStates
  <2>7. Look \/ Create => Shown
    BY <1>3, <2>1, <2>6 DEF Look, Create, LocalStates
  <2>8. OrderPublication \/ ClaimPublication => Shown
    BY <1>1, <1>3, <2>1, <2>3, <2>6 DEF OrderPublication, ClaimPublication, RunRefs, LocalStates
  <2>9. QED
    BY <1>4, <2>4, <2>5, <2>7, <2>8 DEF Executing
<1>5. CASE RowMoves
  <2>1. CASE Digest
    <3>1. RunHeard
      BY <1>1, <2>1 DEF Digest, RunRefs, RunHeard
    <3>2. CASE run' = [run EXCEPT !.pc = "done"]
      BY <1>1, <3>1, <3>2 DEF Run, RunHeard, LocalStates
    <3>3. CASE run' = [run EXCEPT !.pc = "poll", !.seen = "none"]
      BY <1>1, <3>1, <3>3 DEF Run
    <3>4. QED
      BY <2>1, <3>2, <3>3 DEF Digest
  <2>2. CASE Finish
    BY <2>2 DEF Finish, NoRun
  <2>3. CASE Settle
    <3>1. CASE run.job = direct.job /\ run' = [run EXCEPT !.pc = "done", !.seen = "stopped"]
      BY <1>1, <2>3, <3>1 DEF Run
    <3>2. QED
      BY <1>2, <2>3, <3>1 DEF Settle
  <2>4. ASSUME NEW j \in Jobs, Begin(j)
        PROVE  Shown
    BY <2>4, BeginAlone
  <2>5. QED
    BY <1>2, <1>5, <2>1, <2>2, <2>3, <2>4 DEF RowMoves, Continue, Mark, EndInquiry, EndCancel,
       CancelQueued
<1>6. CASE Crash
  BY <1>6 DEF Crash, NoRun
<1>7. QED
  BY <1>2, <1>4, <1>5, <1>6, Kinds, NotifyingFrame, AskingFrame, WorkerFrame, SubmittingFrame
     DEF vars, core

LEMMA ClosedStays ==
    ASSUME IInv, [Next]_vars, NEW j \in Jobs
    PROVE  /\ job[j].state \in Closed => job'[j].state \in Closed
           /\ job[j].state \in Terminal => job'[j].state = job[j].state
BY StateChange DEF Closed, Submitted, Notifiable, Terminal

\* A cancellation is answered by what the worker did.
LEMMA CancelAnswer ==
    ASSUME IInv, Asking, direct.pc = "call", direct.op = "cancel", direct'.op = "cancel"
    PROVE  /\ ServeCancel
           /\ \/ Learn("cancelled")
              \/ Learn("prepared") /\ W!Release(Target(direct.job))
              \/ \E s \in Terminal : Learn(s)
<1>1. direct \in Direct
  BY DEF IInv, TypeOK
<1>2. ~Recheck
  BY <1>1 DEF Recheck, Direct
<1>3. ~DirectFails
  BY <1>2 DEF DirectFails, DirectRaises
<1>4. ~Inquire /\ ~Redo /\ \A j \in Jobs : ~AskStatus(j) /\ ~AskCancel(j)
  <2>1. direct # Idle
    BY DEF Idle
  <2>2. QED
    BY <2>1 DEF Inquire, Redo, AskStatus, AskCancel, Free
<1>5. ServeCancel
  BY <1>3, <1>4 DEF Asking
<1>6. QED
  BY <1>2, <1>5 DEF ServeCancel

\* Only an accepted cancellation settles.
LEMMA SettleNext ==
    ASSUME IInv, [Next]_vars, direct'.pc = "settle"
    PROVE  \/ direct' = direct
           \/ EndCancel /\ CancelAccepted(direct.job, direct.seen)
              /\ direct'.job = direct.job /\ direct'.seen = direct.seen
<1>1. direct \in Direct /\ direct' # Idle
  BY DEF IInv, TypeOK, Idle
<1>2. ~Recheck
  BY <1>1 DEF Recheck, Direct
<1>3. ~DirectRaises /\ \A s : ~Learn(s)
  BY <1>1, <1>2 DEF DirectRaises, Learn, Direct
<1>4. CASE Asking
  <2>1. ~Redo
    BY <1>1 DEF Redo, Direct
  <2>2. \A j \in Jobs : ~AskStatus(j) /\ ~AskCancel(j)
    BY DEF AskStatus, AskCancel, Idle
  <2>3. QED
    BY <1>2, <1>3, <1>4, <2>1, <2>2 DEF Asking, Inquire, ServeCancel, DirectFails
<1>5. CASE RowMoves
  <2>1. CASE EndCancel
    <3>1. CancelAccepted(direct.job, direct.seen) /\ direct' = [direct EXCEPT !.pc = "settle"]
      BY <1>2, <2>1 DEF EndCancel
    <3>2. QED
      BY <1>1, <2>1, <3>1 DEF Direct
  <2>2. QED
    BY <1>1, <1>5, <2>1 DEF RowMoves, Continue, Mark, Settle, Digest, Finish, EndInquiry, Begin,
       CancelQueued
<1>6. CASE Crash
  <2>1. direct'.pc \in {"idle", "again"}
    BY <1>6 DEF Crash, Idle
  <2>2. QED
    BY <2>1
<1>7. QED
  BY <1>4, <1>5, <1>6, Kinds, NotifyingFrame, ExecutingFrame, WorkerFrame, SubmittingFrame
     DEF vars, core

LEMMA AskedStep ==
    ASSUME IInv, [Next]_vars
    PROVE  AskedOK'
<1>1. TypeOK /\ RefsOK /\ RowsOK /\ HeardOK /\ AskedOK
  BY DEF IInv
<1>2. ASSUME direct'.op \in {"cancel", "recheck"}
      PROVE  /\ direct'.job \in asked' /\ job'[direct'.job].state # "queued"
             /\ direct'.job \in PublishJobs => job'[job'[direct'.job].target].state \in Closed
  <2>1. CASE direct.op \in {"cancel", "recheck"} /\ direct'.job = direct.job
    <3>1. Known(direct.job)
      BY <1>1, <2>1 DEF RefsOK, DirectRefs, Idle
    <3>2. PICK t \in CodexJobs : t = Target(direct.job) /\ t = job'[direct.job].target
      BY <1>1, <3>1, Targets, RowsStay DEF RefsOK, Target, Known
    <3>3. direct.job \in PublishJobs => job'[t].state \in Closed
      BY <1>1, <2>1, <3>2, ClosedStays DEF AskedOK, Jobs
    <3>4. job'[direct.job].state # "queued"
      BY <1>1, <2>1, <3>1, StateChange DEF AskedOK, Known, Submitted, Notifiable, Terminal
    <3>5. QED
      BY <1>1, <2>1, <3>2, <3>3, <3>4, AskedGrows DEF AskedOK
  <2>2. ASSUME NEW j \in Jobs, AskCancel(j), direct'.job = j
        PROVE  /\ direct'.job \in asked' /\ job'[direct'.job].state # "queued"
               /\ direct'.job \in PublishJobs => job'[job'[direct'.job].target].state \in Closed
    <3>1. job' = job /\ job[j].state \in {"running", "prepared", "publishing"}
      BY <2>2 DEF AskCancel, db
    <3>2. j \in PublishJobs => job[Target(j)].state \in Closed
      BY <1>1, <3>1 DEF RowsOK
    <3>3. QED
      BY <2>2, <3>1, <3>2, AskedGrows DEF Target
  <2>3. QED
    BY <1>2, <2>1, <2>2, CancelInFlight
<1>3. ASSUME run'.seen = "stopped"
      PROVE  run'.job \in asked' /\ job'[run'.job].state \in Terminal
  <2>1. CASE run'.job = run.job /\ run.seen = "stopped" /\ run.pc # "idle"
    <3>1. run.job \in Jobs /\ run.job \in asked /\ job[run.job].state \in Terminal
      BY <1>1, <2>1 DEF RefsOK, RunRefs, Known, AskedOK
    <3>2. QED
      BY <2>1, <3>1, AskedGrows, ClosedStays
  <2>2. CASE Settle /\ run'.job = run.job /\ run.job = direct.job
    <3>1. direct.job \in Jobs /\ direct.job \in asked
      BY <1>1, <2>2 DEF RefsOK, DirectRefs, Known, AskedOK, Settle
    <3>2. job'[direct.job].state \in Terminal
      <4>1. CASE job[direct.job].state \in Terminal
        BY <3>1, <4>1, ClosedStays
      <4>2. CASE job[direct.job].state \notin Terminal
        <5>1. Moves(direct.job, "cancelled", FALSE)
          BY <2>2, <4>2 DEF Settle, Moves
        <5>2. QED
          BY <1>1, <3>1, <5>1, MovesRow DEF LocalStates, Terminal
      <4>3. QED
        BY <4>1, <4>2
    <3>3. QED
      BY <2>2, <3>1, <3>2, AskedGrows
  <2>3. QED
    BY <1>3, <2>1, <2>2, HowItEnds
<1>4. ASSUME NEW c \in CodexJobs, remote'[c] = "cancelled"
      PROVE  c \in asked' \/ job'[c].state \in Terminal
  <2>1. c \in Jobs
    BY DEF Jobs
  <2>2. CASE remote[c] = "cancelled"
    BY <1>1, <2>1, <2>2, AskedGrows, ClosedStays DEF AskedOK
  <2>3. CASE Cancelled(c)
    <3>1. direct.pc = "call" /\ direct.op = "cancel" /\ job' = job
      BY <2>3 DEF Cancelled, ServeCancel, db
    <3>2. direct.job \in Jobs /\ direct.job \in asked /\ Known(direct.job)
      BY <1>1, <3>1 DEF RefsOK, DirectRefs, Known, AskedOK
    <3>3. CASE direct.job \in CodexJobs
      BY <1>1, <2>3, <3>2, <3>3, Targets, AskedGrows DEF Cancelled, RefsOK
    <3>4. CASE direct.job \in PublishJobs
      <4>1. job[c].state \in Closed
        BY <1>1, <2>3, <3>1, <3>4 DEF Cancelled, AskedOK
      <4>2. job[c].state \notin {"prepared", "publishing"}
        BY <1>1, <2>3 DEF Cancelled, HeardOK, IsHandoff, HandedOff
      <4>3. QED
        BY <3>1, <4>1, <4>2 DEF Closed
    <3>5. QED
      BY <3>2, <3>3, <3>4 DEF Jobs
  <2>4. QED
    BY <1>4, <2>2, <2>3, WorkerChanges DEF WorkerChange, Kept, Accepted, Worked, Claimed, Unclaimed,
       Completed
<1>5. ASSUME NEW j \in Jobs, job'[j].state = "cancelled"
      PROVE  j \in asked'
  <2>1. CASE job[j].state = "cancelled"
    BY <1>1, <2>1, AskedGrows DEF AskedOK
  <2>2. CASE MovedOn(j)
    <3>1. PICK keep \in BOOLEAN : Transition(j, "cancelled", keep)
      BY <1>5, <2>2 DEF MovedOn
    <3>2. Cause(j, "cancelled") /\ job[j].state \notin Terminal
      BY <3>1 DEF Transition
    <3>3. CASE j \in CodexJobs
      BY <1>1, <3>2, <3>3, CopiedIsReal, AskedGrows DEF AskedOK
    <3>4. CASE j \in PublishJobs
      <4>1. j \notin CodexJobs
        BY <3>4, JobsAssumption
      <4>2. CASE Settle /\ j = direct.job
        BY <1>1, <4>2, AskedGrows DEF Settle, RefsOK, DirectRefs, AskedOK
      <4>3. CASE CancelQueued(j)
        BY <4>3, AskedGrows
      <4>4. ~(/\ Finish /\ j = run.job /\ RunHeard /\ Outcome(j, run.seen) = "cancelled")
        <5> SUFFICES ASSUME j = run.job, RunHeard, Outcome(j, run.seen) = "cancelled" PROVE FALSE
          OBVIOUS
        <5>1. run.seen = "cancelled"
          BY DEF Outcome
        <5>2. remote[Target(run.job)] = "cancelled" /\ Published(Target(run.job))
          BY <1>1, <3>4, <5>1 DEF HeardOK, Heard, Terminal, AskedOK
        <5>3. QED
          BY <5>2 DEF Published
      <4>5. QED
        BY <3>2, <4>1, <4>2, <4>3, <4>4 DEF Cause
    <3>5. QED
      BY <3>3, <3>4 DEF Jobs
  <2>3. QED
    BY <1>5, <2>1, <2>2, RowChanges DEF Unmoved, Acknowledged, Submitted
<1>6. ASSUME run'.job \in PublishJobs, run'.pc = "poll" \/ RunHeard'
      PROVE  Published(Target(run.job))'
  <2>1. ASSUME run'.job = run.job, run.pc = "poll" \/ RunHeard
        PROVE  Published(Target(run.job))'
    <3>1. Known(run.job) /\ Published(Target(run.job))
      BY <1>1, <1>6, <2>1 DEF RefsOK, RunRefs, RunHeard, AskedOK
    <3>2. PICK t \in CodexJobs : t = Target(run.job)
      BY <1>1, <3>1, Targets DEF RefsOK
    <3>3. Published(t)'
      BY <3>1, <3>2, WorkerKeeps
    <3>4. t = Target(run.job)'
      BY <2>1, <3>1, <3>2, RowsStay DEF Target, Known
    <3>5. QED
      BY <3>3, <3>4
  <2>2. ASSUME NEW t \in CodexJobs, run'.job = run.job, job' = job, t = Target(run.job), Published(t)'
        PROVE  Published(Target(run.job))'
    BY <2>2 DEF Target
  <2>3. CASE RunHeard'
    BY <1>6, <2>1, <2>2, <2>3, RunAnswer
  <2>4. CASE run'.pc = "poll"
    BY <2>1, <2>4, HowItEnds
  <2>5. QED
    BY <1>6, <2>3, <2>4
<1>7. ASSUME run'.job \in CodexJobs, run'.seen = "error"
      PROVE  used'.failures > 0
  <2>1. /\ used.failures \in Nat /\ used'.failures \in Nat /\ used'.failures >= used.failures
    BY <1>1, UsedStep DEF TypeOK
  <2>2. CASE run'.job = run.job /\ run.seen = "error"
    BY <1>1, <1>7, <2>1, <2>2 DEF AskedOK
  <2>3. CASE CallFails
    <3>1. Spend("failures", MaxFailures)
      BY <2>3 DEF CallFails
    <3>2. used'.failures = used.failures + 1
      BY <1>1, <3>1, SpendType
    <3>3. QED
      BY <2>1, <3>2
  <2>4. QED
    BY <1>7, <2>2, <2>3, HowItEnds, JobsAssumption
<1>8. ASSUME NEW c \in CodexJobs, job'[c].state = "failed"
      PROVE  remote'[c] = "failed" \/ used'.failures > 0
  <2>1. /\ used.failures \in Nat /\ used'.failures \in Nat /\ used'.failures >= used.failures
        /\ c \in Jobs
    BY <1>1, UsedStep DEF TypeOK, Jobs
  <2>2. CASE job[c].state = "failed"
    BY <1>1, <2>1, <2>2, WorkerKeeps DEF AskedOK, Terminal
  <2>3. CASE MovedOn(c)
    <3>1. PICK keep \in BOOLEAN : Transition(c, "failed", keep) /\ RowMoves
      BY <1>8, <2>3 DEF MovedOn
    <3>2. remote[c] = "failed" \/ used.failures > 0
      BY <3>1, CopiedIsReal DEF Transition
    <3>3. QED
      BY <2>1, <3>1, <3>2, RowFrame DEF worker
  <2>4. QED
    BY <1>8, <2>1, <2>2, <2>3, RowChanges DEF Unmoved, Acknowledged, Submitted
<1>9. (direct.op \in {"cancel", "recheck"} /\ direct.job \in PublishJobs
       => job[Target(direct.job)].state \in Closed)'
  BY <1>2 DEF Target
<1>10. (run.job \in PublishJobs /\ (run.pc = "poll" \/ RunHeard) => Published(Target(run.job)))'
  BY <1>6
<1>11. ASSUME DirectHeard', direct'.op = "cancel"
       PROVE  direct'.seen \in Notifiable
  <2>1. CASE DirectHeard /\ direct'.seen = direct.seen /\ direct'.op = direct.op
    BY <1>1, <1>11, <2>1 DEF AskedOK
  <2>2. CASE direct.pc = "call" /\ Asking /\ direct'.op = direct.op
    <3>1. \E s \in Notifiable : Learn(s)
      BY <1>11, <2>2, CancelAnswer DEF Notifiable, Terminal
    <3>2. \A s : Learn(s) => direct'.seen = s
      BY <1>1 DEF Learn, TypeOK, Direct
    <3>3. QED
      BY <3>1, <3>2
  <2>3. QED
    BY <1>11, <2>1, <2>2, DirectAnswer
<1>12. ASSUME direct'.pc = "settle"
       PROVE  CancelAccepted(direct.job, direct.seen)'
  BY <1>1, <1>12, SettleNext DEF AskedOK, CancelAccepted
<1>13. QED
  BY <1>2, <1>3, <1>4, <1>5, <1>7, <1>8, <1>9, <1>10, <1>11, <1>12 DEF AskedOK

-----------------------------------------------------------------------------
(* What the owner has been told.                                           *)

\* An outbox row is stored for a row that is not acknowledged, and then awaits its mark.
LEMMA ToldStays ==
    ASSUME IInv, [Next]_vars
    PROVE  \/ told' = told
           \/ Tell /\ job' = job /\ notice'.job = notice.job /\ ~job[notice.job].acked
              /\ told' = [told EXCEPT ![notice.job] = job[notice.job].state]
<1>1. notice \in [job: Jobs \cup {None}, pc: {"idle", "tell", "mark"}]
  BY DEF IInv, TypeOK
<1>2. CASE Tell
  BY <1>1, <1>2 DEF Tell
<1>3. CASE Notifying
  BY <1>2, <1>3 DEF Notifying, NotifyFails, TakeNotice, SchedulerStarts, Connect, RetryDue, db
<1>4. QED
  BY <1>3, Kinds, ExecutingFrame, AskingFrame, WorkerFrame, SubmittingFrame, RowFrame, CrashFrame
     DEF vars, db

\* Between an outbox row and its mark no row moves.
LEMMA MarkIsNext ==
    ASSUME IInv, [Next]_vars, notice'.pc = "mark"
    PROVE  \/ Tell /\ job' = job /\ notice'.job = notice.job /\ notice.job \in Jobs
              /\ told' = [told EXCEPT ![notice.job] = job[notice.job].state]
           \/ notice' = notice /\ job' = job /\ told' = told
<1>1. /\ notice \in [job: Jobs \cup {None}, pc: {"idle", "tell", "mark"}]
      /\ notice.pc # "idle" => notice.job \in Jobs
      /\ notice.pc = "mark" => sync.rest = <<>> /\ direct.pc # "settle"
  BY DEF IInv, TypeOK, RefsOK, NoticeRefs
<1>2. notice' # NoNotice /\ \A j : ~Announce(j)
  BY DEF NoNotice, Announce
<1>3. \A j : ~TryAgain(j)
  BY <1>2 DEF TryAgain
<1>4. CASE Notifying
  <2>1. CASE Tell
    BY <1>1, <1>2, <1>3, <2>1 DEF Tell
  <2>2. QED
    BY <1>2, <1>3, <1>4, <2>1, NotifyingFrame DEF Notifying, NotifyFails, TakeNotice, SchedulerStarts,
       Connect, RetryDue, db
<1>5. CASE RowMoves
  BY <1>1, <1>2, <1>3, <1>5 DEF RowMoves, Continue, Mark, Settle, Digest, Finish, EndInquiry,
     EndCancel, Begin, CancelQueued, Free, LoopFree
<1>6. CASE Submitting
  BY <1>1, <1>6, SubmittingFrame DEF Submitting, SubmitCodex, SubmitPublish, Free, LoopFree, core
<1>7. CASE Crash
  BY <1>2, <1>7 DEF Crash
<1>8. QED
  BY <1>4, <1>5, <1>6, <1>7, Kinds, ExecutingFrame, AskingFrame, WorkerFrame DEF vars, db, core

\* Only a publication remembers what had been announced.
LEMMA KeepStep ==
    ASSUME IInv, [Next]_vars, run'.keep
    PROVE  run'.job \in PublishJobs
<1>1. run \in Run /\ (run.keep => run.job \in PublishJobs)
  BY DEF IInv, TypeOK, ToldOK
<1>2. CASE run' = run
  BY <1>1, <1>2
<1>3. CASE Executing
  <2>1. CASE Start
    <3>1. run.job \in Jobs
      BY <2>1 DEF Start, IInv, RefsOK, RunRefs, Known
    <3>2. CASE run.job \in CodexJobs
      <4>1. run' = [run EXCEPT !.pc = "lookup"]
        BY <2>1, <3>2 DEF Start
      <4>2. QED
        BY <1>1, <4>1 DEF Run
    <3>3. CASE run.job \notin CodexJobs
      <4>1. run' = [run EXCEPT !.pc = "publish", !.keep = job[Target(run.job)].acked]
        BY <2>1, <3>3 DEF Start
      <4>2. run'.job = run.job
        BY <1>1, <4>1 DEF Run
      <4>3. QED
        BY <3>1, <3>3, <4>2 DEF Jobs
    <3>4. QED
      BY <3>2, <3>3
  <2>2. CASE ~Start
    <3>1. run'.job = run.job /\ run'.keep = run.keep
      BY <1>1, <1>3, <2>2 DEF Executing, Look, Create, OrderPublication, ClaimPublication, CallFails,
         Answered, Raised, Run
    <3>2. QED
      BY <1>1, <3>1
  <2>3. QED
    BY <2>1, <2>2
<1>4. CASE RowMoves
  <2>1. CASE Digest
    <3>1. run'.job = run.job /\ run'.keep = run.keep
      BY <1>1, <2>1 DEF Digest, Run
    <3>2. QED
      BY <1>1, <3>1
  <2>2. CASE Finish
    BY <2>2 DEF Finish, NoRun
  <2>3. CASE Settle
    <3>1. CASE run' = [run EXCEPT !.pc = "done", !.seen = "stopped"]
      <4>1. run'.job = run.job /\ run'.keep = run.keep
        BY <1>1, <3>1 DEF Run
      <4>2. QED
        BY <1>1, <4>1
    <3>2. QED
      BY <1>2, <2>3, <3>1 DEF Settle
  <2>4. ASSUME NEW j \in Jobs, Begin(j)
        PROVE  FALSE
    <3>1. run' = [job |-> j, pc |-> "start", seen |-> "none", keep |-> FALSE]
      BY <2>4, BeginEffect
    <3>2. ~run'.keep
      BY <3>1
    <3>3. QED
      BY <3>2
  <2>5. QED
    BY <1>2, <1>4, <2>1, <2>2, <2>3, <2>4 DEF RowMoves, Continue, Mark, EndInquiry, EndCancel,
       CancelQueued
<1>5. CASE Crash
  BY <1>5 DEF Crash, NoRun
<1>6. QED
  BY <1>2, <1>3, <1>4, <1>5, Kinds, NotifyingFrame, AskingFrame, WorkerFrame, SubmittingFrame
     DEF vars, core

\* A prepared change moves on, its acknowledgement kept, only in its publication.
LEMMA KeptByPublication ==
    ASSUME IInv, NEW j \in Jobs, NEW s \in LocalStates, Transition(j, s, TRUE)
    PROVE  \/ job[j].state = "publishing"
           \/ /\ job[j].state \in {"running", "prepared", "publishing"} /\ run.job \in PublishJobs
              /\ Target(run.job) = j /\ job[run.job].state # "queued"
<1>1. TypeOK /\ RefsOK /\ RowsOK /\ Moves(j, s, TRUE) /\ job[j].state # s
  BY DEF IInv, Transition
<1>2. CASE Continue
  <2>1. sync # NoSync /\ job[sync.job].state = "publishing"
    BY <1>1, <1>2, ContinueEffect DEF RefsOK, NoSync
  <2>2. QED
    BY <2>1 DEF Transition
<1>3. CASE Digest /\ run.keep
  <2>1. Known(run.job) /\ run.job \in PublishJobs /\ job[run.job].state # "queued"
    BY <1>1, <1>3 DEF Digest, RefsOK, RunRefs, RowsOK, IInv, ToldOK
  <2>2. PICK t \in CodexJobs : t = Target(run.job)
    BY <1>1, <2>1, Targets DEF RefsOK
  <2>3. job'[j].state # job[j].state
    BY <1>1, MovesRow
  <2>4. Copied(t, run.seen, run.keep)
    BY <1>3, <2>2, <2>3, DigestEffect
  <2>5. PICK z \in {"publishing", run.seen} :
             /\ Moves(t, z, run.keep) /\ job[t].state \in {"running", "prepared", "publishing"}
             /\ z \in LocalStates
    BY <2>3, <2>4 DEF Copied, Notifiable, Terminal, LocalStates
  <2>6. run.keep \in BOOLEAN /\ t \in Jobs
    BY <1>1 DEF TypeOK, Run, Jobs
  <2>7. \A k \in Jobs \ {t} : job'[k] = job[k]
    BY <1>1, <2>5, <2>6, MovesRow
  <2>8. j = t
    BY <2>3, <2>7
  <2>9. QED
    BY <2>1, <2>2, <2>5, <2>8
<1>4. QED
  BY <1>2, <1>3 DEF Transition

LEMMA ToldStep ==
    ASSUME IInv, [Next]_vars
    PROVE  ToldOK'
<1>1. TypeOK /\ RefsOK /\ ToldOK /\ told \in [Jobs -> Notifiable \cup {"none"}]
  BY DEF IInv, TypeOK
<1>2. ASSUME NEW p \in PublishJobs, NEW j \in Jobs, job[p].target = j, job[p].state # "queued"
      PROVE  job'[p].target = j /\ job'[p].state # "queued"
  <2>1. p \in Jobs /\ job[p].state # "absent"
    BY <1>1, <1>2, JobsAssumption DEF RefsOK, RowRefs, Jobs
  <2>2. QED
    BY <1>2, <2>1, RowsStay, StateChange DEF Submitted, Notifiable, Terminal
<1>3. ASSUME NEW j \in Jobs, job'[j].acked
      PROVE  \/ told'[j] = job'[j].state
             \/ /\ told'[j] = "prepared"
                /\ \E p \in PublishJobs : job'[p].target = j /\ job'[p].state # "queued"
  <2>1. ASSUME job[j].acked
        PROVE  \/ told[j] = job[j].state
               \/ /\ told[j] = "prepared"
                  /\ \E p \in PublishJobs : job'[p].target = j /\ job'[p].state # "queued"
    BY <1>1, <1>2, <2>1 DEF ToldOK, AcknowledgedIsTold, Target
  <2>2. CASE Unmoved(j)
    <3>1. told'[j] = told[j]
      BY <1>1, <1>3, <2>2, ToldStays DEF Unmoved
    <3>2. QED
      BY <1>3, <2>1, <2>2, <3>1 DEF Unmoved
  <2>3. CASE Acknowledged(j)
    <3>1. told' = told /\ told[j] = job[j].state
      BY <1>1, <2>3, RowFrame DEF Acknowledged, Mark, RowMoves, ToldOK
    <3>2. QED
      BY <2>3, <3>1 DEF Acknowledged
  <2>4. CASE MovedOn(j)
    <3>1. PICK s \in LocalStates : Transition(j, s, TRUE) /\ RowMoves /\ job[j].acked
      BY <1>3, <2>4 DEF MovedOn
    <3>2. told' = told /\ told[j] \notin {"running", "publishing"}
      BY <1>1, <3>1, RowFrame DEF Notifiable, Terminal
    <3>3. CASE job[j].state = "publishing"
      BY <2>1, <3>1, <3>2, <3>3
    <3>4. CASE /\ job[j].state \in {"running", "prepared", "publishing"} /\ run.job \in PublishJobs
               /\ Target(run.job) = j /\ job[run.job].state # "queued"
      <4>1. told[j] = "prepared"
        BY <2>1, <3>1, <3>2, <3>4
      <4>2. job'[run.job].target = j /\ job'[run.job].state # "queued"
        BY <1>2, <3>4 DEF Target
      <4>3. QED
        BY <3>2, <3>4, <4>1, <4>2
    <3>5. QED
      BY <3>1, <3>3, <3>4, KeptByPublication
  <2>5. QED
    BY <1>3, <2>2, <2>3, <2>4, RowChanges DEF Submitted
<1>4. AcknowledgedIsTold'
  BY <1>3 DEF AcknowledgedIsTold, Target
<1>5. ASSUME notice'.pc = "mark"
      PROVE  told'[notice'.job] = job'[notice'.job].state
  BY <1>1, <1>5, MarkIsNext DEF ToldOK
<1>6. QED
  BY <1>4, <1>5, KeepStep DEF ToldOK

-----------------------------------------------------------------------------
(* A cancelled publication stops.                                          *)

\* Nothing failed, crashed or was reclaimed in a step after which all is quiet.
LEMMA QuietStep ==
    ASSUME IInv, [Next]_vars, Quiet'
    PROVE  /\ Quiet /\ used.failures = 0
           /\ ~Crash /\ ~CallFails /\ used'.reclaims # used.reclaims + 1
<1>1. /\ used \in [directs: Nat, failures: Nat, crashes: Nat, retries: Nat, reclaims: Nat]
      /\ used' \in [directs: Nat, failures: Nat, crashes: Nat, retries: Nat, reclaims: Nat]
      /\ used'.failures >= used.failures /\ used'.crashes >= used.crashes
      /\ used'.reclaims >= used.reclaims
  BY UsedStep DEF IInv, TypeOK
<1>2. /\ used'.failures = 0 /\ used'.crashes = 0 /\ used'.reclaims = 0
  BY <1>1 DEF Quiet
<1>3. Quiet /\ used.failures = 0 /\ used.crashes = 0 /\ used.reclaims = 0
  BY <1>1, <1>2 DEF Quiet
<1>4. ~Crash
  <2>1. Crash => Spend("crashes", MaxCrashes)
    BY DEF Crash, Spend
  <2>2. Crash => used'.crashes = used.crashes + 1
    BY <2>1, SpendType DEF IInv
  <2>3. QED
    BY <1>2, <1>3, <2>2
<1>5. ~CallFails
  <2>1. CallFails => used'.failures = used.failures + 1
    BY SpendType DEF CallFails, IInv
  <2>2. QED
    BY <1>2, <1>3, <2>1
<1>6. QED
  BY <1>2, <1>3, <1>4, <1>5

\* Only the dispatcher makes a publication able to claim, and an execution that is
\* over stays over.
LEMMA ClaimingStep ==
    ASSUME IInv, [Next]_vars
    PROVE  /\ \A p \in PublishJobs : Claiming(p)' => Claiming(p) \/ Begin(p)
           /\ run.pc = "done" => run'.pc \in {"done", "idle"}
<1> DEFINE Open == {"start", "publish", "claim"}
           Right == /\ run'.pc \in Open => (run.pc \in Open /\ run'.job = run.job)
                    /\ run.pc = "done" => run'.pc \in {"done", "idle"}
<1>1. run \in Run
  BY DEF IInv, TypeOK
<1>2. CASE run' = run
  BY <1>1, <1>2 DEF Claiming
<1>3. Right => /\ \A p \in PublishJobs : Claiming(p)' => Claiming(p)
               /\ run.pc = "done" => run'.pc \in {"done", "idle"}
  BY DEF Claiming
<1>4. CASE Executing
  <2>1. CASE Start
    <3>1. run.pc = "start" /\ run'.job = run.job
      BY <1>1, <2>1 DEF Start, Run
    <3>2. QED
      BY <1>3, <3>1
  <2>2. CASE ~Start
    <3>1. Right
      BY <1>1, <1>4, <2>2 DEF Executing, Look, Create, OrderPublication, ClaimPublication, CallFails,
         Answered, Raised, Run, Calls
    <3>2. QED
      BY <1>3, <3>1
  <2>3. QED
    BY <2>1, <2>2
<1>5. CASE RowMoves
  <2>1. CASE Digest
    <3>1. run'.pc \in {"done", "poll"} /\ run.pc = "answered"
      BY <1>1, <2>1 DEF Digest, Run
    <3>2. QED
      BY <1>3, <3>1
  <2>2. CASE Finish
    <3>1. run'.pc = "idle"
      BY <2>2 DEF Finish, NoRun
    <3>2. QED
      BY <1>3, <3>1
  <2>3. CASE Settle
    <3>1. CASE run' = [run EXCEPT !.pc = "done", !.seen = "stopped"]
      <4>1. run'.pc = "done"
        BY <1>1, <3>1 DEF Run
      <4>2. QED
        BY <1>3, <4>1
    <3>2. QED
      BY <1>2, <2>3, <3>1 DEF Settle
  <2>4. ASSUME NEW j \in Jobs, Begin(j)
        PROVE  /\ \A p \in PublishJobs : Claiming(p)' => Claiming(p) \/ Begin(p)
               /\ run.pc = "done" => run'.pc \in {"done", "idle"}
    <3>1. run'.job = j /\ run.pc = "idle"
      BY <2>4, BeginAlone, BeginEffect
    <3>2. QED
      BY <2>4, <3>1 DEF Claiming
  <2>5. QED
    BY <1>2, <1>5, <2>1, <2>2, <2>3, <2>4 DEF RowMoves, Continue, Mark, EndInquiry, EndCancel,
       CancelQueued
<1>6. CASE Crash
  <2>1. run'.pc = "idle"
    BY <1>6 DEF Crash, NoRun
  <2>2. QED
    BY <1>3, <2>1
<1>7. QED
  BY <1>2, <1>4, <1>5, <1>6, Kinds, NotifyingFrame, AskingFrame, WorkerFrame, SubmittingFrame
     DEF vars, core

\* In quiet times a publication goes out by the claim of its job's execution.
LEMMA GoesOut ==
    ASSUME IInv, [Next]_vars, Quiet', NEW c \in CodexJobs
    PROVE  /\ GoneOut(c)' => \/ GoneOut(c)
                             \/ ClaimPublication /\ c = Target(run.job)
           /\ remote[c] = "prepared" /\ HandedOff(c) =>
                \/ remote'[c] = "prepared"
                \/ ClaimPublication /\ c = Target(run.job)
<1>1. WorkerChange(c) /\ used'.reclaims # used.reclaims + 1
  BY WorkerChanges, QuietStep
<1>2. CASE Kept(c)
  BY <1>2 DEF Kept, GoneOut, HandedOff
<1>3. CASE Accepted(c)
  BY <1>3 DEF Accepted, GoneOut
<1>4. CASE Worked(c)
  BY <1>4 DEF Worked, GoneOut
<1>5. CASE Cancelled(c)
  BY <1>5 DEF Cancelled, GoneOut, IsHandoff, HandedOff
<1>6. CASE Claimed(c)
  BY <1>1, <1>6 DEF Claimed, GoneOut, IsHandoff, HandedOff
<1>7. CASE Unclaimed(c)
  BY <1>7 DEF Unclaimed, GoneOut
<1>8. CASE Completed(c)
  BY <1>8 DEF Completed, GoneOut, HandedOff
<1>9. QED
  BY <1>1, <1>2, <1>3, <1>4, <1>5, <1>6, <1>7, <1>8 DEF WorkerChange

\* The jobs that publish the same change only become more.
LEMMA OnlyBefore ==
    ASSUME IInv, [Next]_vars, NEW p \in PublishJobs, Known(p)
    PROVE  /\ Known(p)' /\ Target(p)' = Target(p) /\ Target(p) \in CodexJobs
           /\ Only(p)' => Only(p)
<1>1. p \in Jobs /\ RefsOK
  BY DEF Jobs, IInv
<1>2. Known(p)' /\ Target(p)' = Target(p) /\ Target(p) \in CodexJobs
  BY <1>1, RowsStay, Targets DEF Known, Target, RefsOK
<1>3. ASSUME NEW q \in PublishJobs, Target(q) = Target(p)
      PROVE  Target(q)' = Target(q)
  <2>1. q \in Jobs /\ Target(q) # None
    BY <1>2, <1>3, JobsAssumption DEF Jobs
  <2>2. job[q].state # "absent"
    BY <1>1, <2>1 DEF RefsOK, RowRefs, Target
  <2>3. QED
    BY <2>1, <2>2, RowsStay DEF Target
<1>4. QED
  BY <1>2, <1>3 DEF Only

\* A claim is made for the publication job the dispatcher executes.
LEMMA ClaimsFor ==
    ASSUME IInv, ClaimPublication
    PROVE  /\ run.job \in PublishJobs /\ Known(run.job) /\ Claiming(run.job)
           /\ job[run.job].state # "queued" /\ job' = job
           /\ \A p : ~Claiming(p)'
<1>1. run \in Run /\ run.pc = "claim"
  BY DEF IInv, TypeOK, ClaimPublication
<1>2. run'.pc \in {"answered", "done"}
  BY <1>1 DEF ClaimPublication, Answered, Raised, Run
<1>3. QED
  BY <1>1, <1>2, ExecutingFrame DEF Executing, IInv, RefsOK, RunRefs, RowsOK, Claiming, db

\* Who moves a publication job to CANCELLED, in quiet times.
LEMMA PublicationCancelled ==
    ASSUME IInv, NEW p \in PublishJobs, NEW keep \in BOOLEAN, Transition(p, "cancelled", keep)
    PROVE  \/ Settle /\ p = direct.job /\ direct.seen \in {"cancelled", "prepared"}
           \/ CancelQueued(p)
<1>1. p \notin CodexJobs /\ Cause(p, "cancelled")
  BY JobsAssumption DEF Transition
<1>2. CASE Settle /\ p = direct.job
  BY <1>2 DEF Settle, IInv, AskedOK, CancelAccepted
<1>3. CASE CancelQueued(p)
  BY <1>3
<1>4. CASE Finish /\ p = run.job /\ RunHeard /\ Outcome(p, run.seen) = "cancelled"
  <2>1. run.seen = "cancelled"
    BY <1>4 DEF Outcome
  <2>2. remote[Target(run.job)] = "cancelled" /\ Published(Target(run.job))
    BY <1>4, <2>1 DEF IInv, HeardOK, Heard, Terminal, AskedOK
  <2>3. QED
    BY <2>2 DEF Published
<1>5. QED
  BY <1>1, <1>2, <1>3, <1>4 DEF Cause

LEMMA SettledPublication ==
    ASSUME IInv, Quiet, NEW p \in PublishJobs, Known(p), Only(p), Settle, p = direct.job,
           direct.seen \in {"cancelled", "prepared"}
    PROVE  ~GoneOut(Target(p))
<1>1. DirectHeard /\ direct.op = "cancel"
  BY DEF DirectHeard, Settle, IInv, RefsOK, DirectRefs
<1>2. CASE direct.seen = "cancelled"
  BY <1>1, <1>2 DEF IInv, HeardOK, Heard, Terminal, GoneOut
<1>3. CASE direct.seen = "prepared"
  BY <1>1, <1>3 DEF IInv, StopOK, GoneOut
<1>4. QED
  BY <1>2, <1>3

LEMMA OwnerStep ==
    ASSUME IInv, [Next]_vars, Quiet', NEW c \in CodexJobs, GoneOut(c)'
    PROVE  \E p \in PublishJobs : Target(p)' = c
<1>1. CASE GoneOut(c)
  <2>1. PICK p \in PublishJobs : Target(p) = c
    BY <1>1, QuietStep DEF IInv, StopOK
  <2>2. Known(p)
    BY <2>1, JobsAssumption DEF Known, Jobs, Target, IInv, RefsOK, RowRefs
  <2>3. QED
    BY <2>1, <2>2, OnlyBefore
<1>2. CASE ClaimPublication /\ c = Target(run.job)
  BY <1>2, ClaimsFor, OnlyBefore
<1>3. QED
  BY <1>1, <1>2, GoesOut

LEMMA GoneStep ==
    ASSUME IInv, [Next]_vars, Quiet', NEW p \in PublishJobs, Known(p)', Only(p)', GoneOut(Target(p))'
    PROVE  job'[p].state \notin {"queued", "cancelled"} /\ ~Claiming(p)'
<1>1. p \in Jobs /\ Quiet /\ TypeOK /\ RefsOK /\ RowsOK /\ StopOK
  BY QuietStep DEF Jobs, IInv
<1>2. CASE ~Known(p)
  <2>1. Submitted(p)
    BY <1>1, <1>2, RowChanges DEF Known, Unmoved, Acknowledged, MovedOn, Transition
  <2>2. UNCHANGED <<remote, released>>
    BY <2>1, SubmittingFrame DEF Submitted, worker
  <2>3. PICK c \in CodexJobs : c = Target(p)'
    BY <2>1, TypeStep, Targets, RowsStay DEF Known, RefsOK, RowRefs, Target, Submitted
  <2>4. GoneOut(c)
    BY <2>2, <2>3 DEF GoneOut, HandedOff
  <2>5. PICK q \in PublishJobs : Target(q) = c
    BY <1>1, <2>4 DEF StopOK
  <2>6. Known(q)
    BY <1>1, <2>5, JobsAssumption DEF Known, Jobs, Target, RefsOK, RowRefs
  <2>7. Target(q)' = c /\ q # p
    BY <1>2, <2>5, <2>6, OnlyBefore
  <2>8. QED
    BY <2>3, <2>7 DEF Only
<1>3. CASE Known(p)
  <2>1. PICK t \in CodexJobs : t = Target(p) /\ t = Target(p)'
    BY <1>3, OnlyBefore
  <2>2. Only(p) /\ GoneOut(t)'
    BY <1>3, <2>1, OnlyBefore DEF GoneOut, HandedOff
  <2>3. CASE GoneOut(t)
    <3>1. job[p].state \notin {"queued", "cancelled"} /\ ~Claiming(p)
      BY <1>1, <1>3, <2>1, <2>2, <2>3 DEF StopOK
    <3>2. job'[p].state # "queued"
      BY <1>1, <1>3, <3>1, StateChange DEF Known, Submitted, Notifiable, Terminal
    <3>3. job'[p].state # "cancelled"
      <4>1. ASSUME NEW keep \in BOOLEAN, Transition(p, "cancelled", keep)
            PROVE  FALSE
        <5>1. ~CancelQueued(p)
          BY <3>1 DEF CancelQueued
        <5>2. QED
          BY <1>1, <1>3, <2>1, <2>2, <2>3, <4>1, <5>1, PublicationCancelled, SettledPublication
      <4>2. QED
        BY <1>1, <3>1, <4>1, RowChanges DEF Unmoved, Acknowledged, Submitted, MovedOn
    <3>4. ~Begin(p)
      BY <1>1, <3>1, BeginAlone, JobsAssumption DEF StopOK, RowsOK, NoRun
    <3>5. QED
      BY <3>1, <3>2, <3>3, <3>4, ClaimingStep
  <2>4. CASE ClaimPublication /\ t = Target(run.job)
    <3>1. p = run.job
      BY <2>1, <2>2, <2>4, ClaimsFor DEF Only
    <3>2. job[p].state # "cancelled"
      BY <1>1, <2>4, <3>1, ClaimsFor DEF StopOK
    <3>3. QED
      BY <2>4, <3>1, <3>2, ClaimsFor
  <2>5. QED
    BY <2>2, <2>3, <2>4, GoesOut
<1>4. QED
  BY <1>2, <1>3

LEMMA CancelledClaimsNot ==
    ASSUME IInv, [Next]_vars, Quiet', NEW p \in PublishJobs, job'[p].state = "cancelled"
    PROVE  ~Claiming(p)'
<1>1. p \in Jobs /\ Quiet /\ TypeOK /\ RefsOK /\ RowsOK /\ StopOK
  BY QuietStep DEF Jobs, IInv
<1>2. ~Begin(p)
  <2>1. ASSUME Begin(p) PROVE job'[p].state \in {"queued", "running", "publishing"}
    BY <1>1, <2>1, BeginEffect, BeginAlone, MovesRow DEF LocalStates
  <2>2. QED
    BY <2>1
<1>3. CASE job[p].state = "cancelled"
  BY <1>1, <1>2, <1>3, ClaimingStep DEF StopOK
<1>4. CASE job[p].state # "cancelled"
  <2>1. PICK keep \in BOOLEAN : Transition(p, "cancelled", keep)
    BY <1>1, <1>4, RowChanges DEF Unmoved, Acknowledged, Submitted, MovedOn
  <2>2. ASSUME Claiming(p)
        PROVE  ~Claiming(p)'
    <3>1. ~CancelQueued(p)
      BY <1>1, <2>2 DEF CancelQueued, RowsOK, Claiming
    <3>2. Settle /\ p = direct.job
      BY <2>1, <3>1, PublicationCancelled
    <3>3. run' = [run EXCEPT !.pc = "done", !.seen = "stopped"]
      BY <2>2, <3>2 DEF Settle, Claiming
    <3>4. run'.pc = "done"
      BY <1>1, <3>3 DEF TypeOK, Run
    <3>5. QED
      BY <3>4 DEF Claiming
  <2>3. QED
    BY <1>2, <2>2, ClaimingStep
<1>5. QED
  BY <1>3, <1>4

LEMMA RunningIsExecuted ==
    ASSUME IInv, [Next]_vars, Quiet', NEW p \in PublishJobs, job'[p].state = "running"
    PROVE  run'.job = p
<1>1. p \in Jobs /\ Quiet /\ TypeOK /\ RefsOK /\ RowsOK /\ StopOK /\ p # None
  BY QuietStep, JobsAssumption DEF Jobs, IInv
<1>2. CASE job[p].state = "running"
  <2>1. run.job = p
    BY <1>1, <1>2 DEF StopOK
  <2>2. run # NoRun
    BY <1>1, <2>1 DEF NoRun
  <2>3. ~Finish
    <3>1. ASSUME Finish PROVE job'[p].state \in Terminal
      <4>1. /\ \/ UNCHANGED <<job, sync>> /\ job[p].state \in Terminal
               \/ Moves(p, "failed", FALSE)
               \/ p \in CodexJobs
               \/ /\ run.seen \in Notifiable /\ p \in PublishJobs
                  /\ Moves(p, Outcome(p, run.seen), FALSE)
        BY <2>1, <3>1, FinishEffect
      <4>2. p \notin CodexJobs
        BY JobsAssumption
      <4>3. run.seen \in Notifiable => Outcome(p, run.seen) \in Terminal
        BY DEF Outcome, Notifiable, Terminal
      <4>4. \A s \in Terminal : Moves(p, s, FALSE) => job'[p].state = s
        BY <1>1, MovesRow DEF LocalStates, Terminal
      <4>5. QED
        BY <1>2, <4>1, <4>2, <4>3, <4>4 DEF Terminal
    <3>2. QED
      BY <3>1 DEF Terminal
  <2>4. run'.job = run.job
    <3>1. run \in Run
      BY <1>1 DEF TypeOK
    <3>2. \A j \in Jobs : ~Begin(j)
      BY <2>2, BeginAlone
    <3>3. CASE run' = run
      BY <3>3
    <3>4. run'.pc # "idle" => run'.job = run.job
      BY <3>2, RunKeepsJob
    <3>5. CASE Executing
      BY <3>1, <3>5 DEF Executing, Start, Look, Create, OrderPublication, ClaimPublication,
         CallFails, Answered, Raised, Run
    <3>6. CASE RowMoves
      <4>1. Digest => run'.job = run.job
        BY <3>1 DEF Digest, Run
      <4>2. Settle => run'.job = run.job
        BY <3>1 DEF Settle, Run
      <4>3. QED
        BY <2>3, <3>2, <3>3, <3>6, <4>1, <4>2 DEF RowMoves, Continue, Mark, EndInquiry, EndCancel,
           CancelQueued
    <3>7. QED
      BY <3>3, <3>5, <3>6, QuietStep, Kinds, NotifyingFrame, AskingFrame, WorkerFrame,
         SubmittingFrame DEF vars, core
  <2>5. QED
    BY <2>1, <2>4
<1>3. CASE job[p].state # "running"
  <2>1. Begin(p)
    BY <1>1, <1>3, StateChange DEF Notifiable, Terminal
  <2>2. QED
    BY <1>1, <2>1, BeginAlone
<1>4. QED
  BY <1>2, <1>3

LEMMA TakenBack ==
    ASSUME IInv, [Next]_vars, Quiet', DirectHeard', direct'.op = "cancel",
           direct'.seen = "prepared", NEW p \in PublishJobs, p = direct'.job, Only(p)'
    PROVE  remote'[Target(p)'] = "prepared" /\ HandedOff(Target(p))' /\ ~Claiming(p)'
<1>1. p \in Jobs /\ Quiet /\ TypeOK /\ RefsOK /\ RowsOK /\ StopOK /\ AskedOK /\ p # None
  BY QuietStep, JobsAssumption DEF Jobs, IInv
<1>2. direct.job = p /\ direct.op = "cancel" /\ Known(p)
  BY <1>1, DirectAnswer DEF RefsOK, DirectRefs, DirectHeard
<1>3. PICK t \in CodexJobs : t = Target(p) /\ t = Target(p)'
  BY <1>2, OnlyBefore
<1>4. Only(p)
  BY <1>2, OnlyBefore
<1>5. ~Begin(p)
  <2>1. job[p].state # "queued"
    BY <1>1, <1>2 DEF AskedOK
  <2>2. QED
    BY <1>1, <2>1, BeginAlone DEF StopOK, RowsOK, NoRun
<1>6. CASE DirectHeard /\ direct.seen = "prepared"
  <2>1. remote[t] = "prepared" /\ HandedOff(t) /\ ~Claiming(p)
    BY <1>1, <1>2, <1>3, <1>4, <1>6 DEF StopOK
  <2>2. ~(ClaimPublication /\ t = Target(run.job))
    <3>1. ASSUME ClaimPublication, t = Target(run.job)
          PROVE  FALSE
      BY <1>3, <1>4, <2>1, <3>1, ClaimsFor DEF Only
    <3>2. QED
      BY <3>1
  <2>3. remote'[t] = "prepared" /\ HandedOff(t)'
    BY <2>1, <2>2, GoesOut, WorkerKeeps
  <2>4. HandedOff(Target(p))'
    BY <1>3, <2>3 DEF HandedOff
  <2>5. QED
    BY <1>3, <1>5, <2>1, <2>3, <2>4, ClaimingStep
<1>7. CASE /\ direct.pc = "call" /\ Asking /\ direct'.op = direct.op
           /\ Heard(t, "prepared")' /\ remote'[t] = "prepared"
  <2>1. W!Release(t)
    <3>1. \A s : Learn(s) => direct'.seen = s
      BY <1>1 DEF Learn, TypeOK, Direct
    <3>2. ~Learn("cancelled") /\ \A s \in Terminal : ~Learn(s)
      BY <3>1 DEF Terminal
    <3>3. QED
      BY <1>2, <1>3, <1>7, <3>2, CancelAnswer
  <2>2. remote[t] = "publishing"
    BY <1>1, <2>1, MoveAt DEF W!Release
  <2>3. HandedOff(t)
    <3>1. job[t].state \in Closed
      BY <1>1, <1>2, <1>3 DEF AskedOK
    <3>2. QED
      BY <1>1, <2>2, <3>1 DEF StopOK, HandedOff, Terminal
  <2>4. ~Claiming(p)
    BY <1>1, <1>2, <1>3, <1>4, <2>2, <2>3 DEF StopOK, GoneOut
  <2>5. HandedOff(Target(p))'
    BY <1>3, <1>7 DEF HandedOff, Heard
  <2>6. QED
    BY <1>3, <1>5, <1>7, <2>4, <2>5, ClaimingStep
<1>8. QED
  <2>1. \A v : v = Target(direct.job) => v = t
    BY <1>2, <1>3
  <2>2. CASE DirectHeard /\ direct'.seen = direct.seen
    BY <1>6, <2>2
  <2>3. ASSUME NEW u \in CodexJobs, NEW seen \in LocalStates,
               direct.pc = "call", Asking, direct'.op = direct.op,
               u = Target(direct.job), seen = direct'.seen, Heard(u, seen)',
               seen = "prepared" => remote'[u] = "prepared"
        PROVE  remote'[Target(p)'] = "prepared" /\ HandedOff(Target(p))' /\ ~Claiming(p)'
    <3>1. u = t /\ seen = "prepared"
      BY <2>1, <2>3
    <3>2. Heard(t, "prepared")' /\ remote'[t] = "prepared"
      BY <2>3, <3>1
    <3>3. QED
      BY <1>7, <2>3, <3>2
  <2>4. QED
    BY <2>2, <2>3, DirectAnswer

\* After the execution of an automatic job its hand-off is over.
LEMMA HandOffOver ==
    ASSUME IInv, [Next]_vars, Quiet', NEW c \in AutoJobs, job'[c].state \in Closed
    PROVE  \/ released'[c] \/ remote'[c] \in Terminal
           \/ /\ remote'[c] = "absent" /\ LateCreate(c) \notin late'
              /\ run'.job = c => run'.pc \in {"done", "idle"}
<1>1. /\ c \in CodexJobs /\ c \in Jobs /\ c # None /\ c \notin PublishJobs
      /\ Quiet /\ TypeOK /\ RefsOK /\ RowsOK /\ HeardOK /\ StopOK
  BY QuietStep, JobsAssumption DEF Jobs, IInv
<1>2. CASE released[c]
  <2>1. HandedOff(c)'
    BY <1>1, <1>2, WorkerKeeps DEF HandedOff
  <2>2. QED
    BY <1>1, <2>1 DEF HandedOff
<1>3. CASE remote[c] \in Terminal
  BY <1>1, <1>3, WorkerKeeps
<1>4. CASE /\ remote[c] = "absent" /\ LateCreate(c) \notin late
           /\ run.job = c => run.pc \in {"done", "idle"}
  <2>1. ~(run.pc = "create" /\ c = Target(run.job))
    <3>1. ASSUME run.pc = "create" PROVE run.job \in CodexJobs /\ Known(run.job)
      BY <1>1, <3>1 DEF RefsOK, RunRefs
    <3>2. QED
      BY <1>1, <1>4, <3>1, Targets DEF RefsOK
  <2>2. remote'[c] = "absent"
    BY <1>1, <1>4, <2>1, WorkerChanges DEF WorkerChange, Kept, Accepted, Worked, Cancelled, Claimed,
       Unclaimed, Completed, Create, IsHandoff
  <2>3. LateCreate(c) \notin late'
    BY <1>4, <2>1, LateStep DEF LateCreate
  <2>4. job'[c].state # "publishing"
    BY <2>2, HeardStep, <1>1 DEF HeardOK
  <2>5. ASSUME run'.job = c
        PROVE  run'.pc \in {"done", "idle"}
    <3>1. CASE run'.pc = "idle"
      BY <3>1
    <3>2. CASE run.pc # "idle" /\ run'.job = run.job
      BY <1>4, <2>5, <3>2, ClaimingStep
    <3>3. ASSUME NEW j \in Jobs, Begin(j)
          PROVE  FALSE
      <4>1. j = c /\ job[c].state \in {"queued", "running", "publishing"}
        BY <2>5, <3>3, BeginAlone
      <4>2. job'[c].state \in {"running", "publishing"}
        BY <1>1, <3>3, <4>1, BeginEffect, MovesRow DEF LocalStates
      <4>3. QED
        BY <2>4, <4>2 DEF Closed, Terminal
    <3>4. QED
      BY <3>1, <3>2, <3>3, RunKeepsJob
  <2>6. QED
    BY <2>2, <2>3, <2>5
<1>5. CASE job[c].state \in Closed
  BY <1>1, <1>2, <1>3, <1>4, <1>5 DEF StopOK
<1>6. CASE job[c].state \notin Closed
  <2>1. PICK s \in LocalStates, keep \in BOOLEAN : Transition(c, s, keep) /\ s = job'[c].state
    BY <1>1, <1>6, RowChanges DEF Unmoved, Acknowledged, Submitted, MovedOn, Closed, Terminal
  <2>2. job[c].state \notin {"prepared", "publishing"} /\ Cause(c, s) /\ s # "running" /\ s # "publishing"
    BY <1>6, <2>1 DEF Transition, Closed, Notifiable, Terminal
  <2>3. ASSUME NEW seen \in Notifiable, Heard(c, seen)
        PROVE  released[c] \/ remote[c] \in Terminal
    BY <1>1, <2>3 DEF Heard, HandedOff, Notifiable, Terminal
  <2>4. CASE Settle /\ c = direct.job
    <3>1. DirectHeard /\ direct.op = "cancel" /\ Known(direct.job)
      BY <1>1, <2>4 DEF DirectHeard, Settle, RefsOK, DirectRefs
    <3>2. direct.seen \in Notifiable /\ Heard(c, direct.seen)
      BY <1>1, <2>4, <3>1, Targets DEF IInv, AskedOK, HeardOK, RefsOK
    <3>3. QED
      BY <1>2, <1>3, <2>3, <3>2
  <2>5. CASE CancelQueued(c)
    <3>1. remote[c] = "absent" /\ LateCreate(c) \notin late
      BY <1>1, <2>5 DEF CancelQueued, RowsOK
    <3>2. run.job = c => run.pc = "idle"
      BY <1>1, <2>5 DEF CancelQueued, RowsOK
    <3>3. QED
      BY <1>4, <3>1, <3>2
  <2>6. CASE RunHeard /\ c = Target(run.job) /\ Copies(c, s, run.seen)
    <3>1. run.seen \in Notifiable /\ Heard(c, run.seen)
      BY <1>1, <2>2, <2>6 DEF HeardOK, Copies
    <3>2. QED
      BY <1>2, <1>3, <2>3, <3>1
  <2>7. CASE (EndInquiry \/ EndCancel) /\ c = Target(direct.job) /\ Copies(c, s, direct.seen)
    <3>1. DirectHeard
      BY <2>7 DEF EndInquiry, EndCancel, DirectHeard
    <3>2. direct.seen \in Notifiable /\ Heard(c, direct.seen)
      BY <1>1, <2>2, <2>7, <3>1 DEF HeardOK, Copies
    <3>3. QED
      BY <1>2, <1>3, <2>3, <3>2
  <2>8. ~(c = run.job /\ run.seen = "error")
    BY <1>1, QuietStep DEF IInv, AskedOK
  <2>9. ~(Continue /\ c = sync.job)
    BY <1>1, <2>2, ContinueEffect DEF RefsOK
  <2>10. QED
    BY <1>1, <2>2, <2>4, <2>5, <2>6, <2>7, <2>8, <2>9 DEF Cause
<1>7. QED
  BY <1>5, <1>6

LEMMA StopStep ==
    ASSUME IInv, [Next]_vars
    PROVE  StopOK'
<1> SUFFICES ASSUME Quiet' PROVE StopOK'
  BY DEF StopOK
<1>1. (\A c \in CodexJobs : GoneOut(c) => \E p \in PublishJobs : Target(p) = c)'
  BY OwnerStep
<1>2. (\A p \in PublishJobs : Known(p) /\ Only(p) /\ GoneOut(Target(p)) =>
         job[p].state \notin {"queued", "cancelled"} /\ ~Claiming(p))'
  BY GoneStep
<1>3. (\A p \in PublishJobs : job[p].state = "cancelled" => ~Claiming(p))'
  BY CancelledClaimsNot
<1>4. (\A p \in PublishJobs : job[p].state = "running" => run.job = p)'
  BY RunningIsExecuted
<1>5. (/\ DirectHeard /\ direct.op = "cancel" /\ direct.seen = "prepared"
       /\ direct.job \in PublishJobs /\ Only(direct.job)
       => /\ remote[Target(direct.job)] = "prepared" /\ HandedOff(Target(direct.job))
          /\ ~Claiming(direct.job))'
  <2> SUFFICES ASSUME (/\ DirectHeard /\ direct.op = "cancel" /\ direct.seen = "prepared"
                       /\ direct.job \in PublishJobs /\ Only(direct.job))'
               PROVE  (/\ remote[Target(direct.job)] = "prepared" /\ HandedOff(Target(direct.job))
                       /\ ~Claiming(direct.job))'
    OBVIOUS
  <2>1. PICK p \in PublishJobs : p = direct'.job
    OBVIOUS
  <2>2. Only(p)'
    BY <2>1 DEF Only, Target
  <2>3. remote'[Target(p)'] = "prepared" /\ HandedOff(Target(p))' /\ ~Claiming(p)'
    BY <2>1, <2>2, TakenBack
  <2>4. QED
    BY <2>1, <2>3 DEF HandedOff, Target, Claiming
<1>6. (\A c \in AutoJobs : job[c].state \in Closed =>
         \/ released[c] \/ remote[c] \in Terminal
         \/ /\ remote[c] = "absent" /\ LateCreate(c) \notin late
            /\ run.job = c => run.pc \in {"done", "idle"})'
  BY HandOffOver DEF LateCreate
<1>7. QED
  BY <1>1, <1>2, <1>3, <1>4, <1>5, <1>6 DEF StopOK

-----------------------------------------------------------------------------
(* The theorems.                                                           *)

LEMMA InitInv == Init => IInv
<1> SUFFICES ASSUME Init PROVE IInv
  OBVIOUS
<1>1. TypeOK
  BY TypeInit
<1>2. /\ \A j \in Jobs : job[j].state = "absent" /\ job[j].target = None /\ ~job[j].acked
      /\ \A c \in CodexJobs : remote[c] = "absent"
      /\ late = {} /\ asked = {} /\ used.failures = 0
      /\ CodexJobs \subseteq Jobs /\ PublishJobs \subseteq Jobs
  BY DEF Init, W!Init, Jobs
<1>3. /\ run = NoRun /\ run.pc = "idle" /\ run.seen = "none" /\ run.job = None /\ ~run.keep
      /\ direct = Idle /\ direct.pc = "idle" /\ direct.op = "none"
      /\ sync = NoSync /\ sync.rest = <<>> /\ notice = NoNotice /\ notice.pc = "idle"
      /\ Range(queue) = {} /\ retry = {}
  BY DEF Init, NoRun, Idle, NoSync, NoNotice, Range
<1>4. RefsOK
  BY <1>2, <1>3 DEF RefsOK, RowRefs, RunRefs, DirectRefs, SyncRefs, NoticeRefs
<1>5. RowsOK
  BY <1>2, <1>3 DEF RowsOK, OneRunning
<1>6. ~RunHeard /\ ~DirectHeard
  BY <1>3 DEF RunHeard, DirectHeard
<1>7. HeardOK
  BY <1>2, <1>3, <1>6 DEF HeardOK
<1>8. AskedOK
  BY <1>2, <1>3, <1>6, JobsAssumption DEF AskedOK
<1>9. ToldOK
  BY <1>2, <1>3 DEF ToldOK, AcknowledgedIsTold
<1>10. StopOK
  BY <1>2, <1>3, <1>6, JobsAssumption DEF StopOK, GoneOut, Known, Claiming, Closed, Terminal
<1>11. QED
  BY <1>1, <1>4, <1>5, <1>7, <1>8, <1>9, <1>10 DEF IInv

\* The invariant holds in every reachable state of the core and its worker.
THEOREM CoreJobsInvariant == Spec => []IInv
<1>1. Init => IInv
  BY InitInv
<1>2. IInv /\ [Next]_vars => IInv'
  BY TypeStep, RowsStep, HeardStep, AskedStep, ToldStep, StopStep DEF IInv
<1>3. QED
  BY <1>1, <1>2, PTL DEF Spec

\* The rows, the calls in flight, the notifications and the worker's manifests keep
\* the shapes that storage.py and scheduler.py give them.
THEOREM CoreJobsTypeCorrect == Spec => []TypeOK
<1>1. IInv => TypeOK
  BY DEF IInv
<1>2. QED
  BY <1>1, CoreJobsInvariant, PTL

\* _next_runnable and claim_next_job never leave two jobs RUNNING in SQLite, before or
\* after a restart of the core.
THEOREM OneJobRuns == Spec => []OneRunning
<1>1. IInv => OneRunning
  BY DEF IInv, RowsOK
<1>2. QED
  BY <1>1, CoreJobsInvariant, PTL

\* However old the answer of the worker is that _synchronize_worker_manifest copies to
\* a row, what the row says has happened at the worker or was asked for by the owner.
THEOREM RowsAreReal == Spec => []OutcomesAreReal
<1>1. IInv => OutcomesAreReal
  <2> SUFFICES ASSUME IInv PROVE OutcomesAreReal
    OBVIOUS
  <2>1. HeardOK /\ AskedOK /\ CodexJobs \subseteq Jobs /\ PublishJobs \subseteq Jobs
    BY DEF IInv, Jobs
  <2>2. QED
    BY <2>1 DEF OutcomesAreReal, HeardOK, AskedOK
<1>2. QED
  BY <1>1, CoreJobsInvariant, PTL

\* mark_job_notification_completed is called only for an outcome that is in the outbox,
\* and an acknowledgement is kept only over the publication of a prepared change.
THEOREM OwnerWasTold == Spec => []AcknowledgedIsTold
<1>1. IInv => AcknowledgedIsTold
  BY DEF IInv, ToldOK
<1>2. QED
  BY <1>1, CoreJobsInvariant, PTL

\* The first transition to copy a current answer is allowed.
LEMMA CopyAllowed ==
    ASSUME TypeOK, RowsOK, HeardOK, NEW t \in CodexJobs, NEW seen \in LocalStates,
           Heard(t, seen), job[t].state = "publishing" => seen # "prepared"
    PROVE  Writable(job[t].state, SyncPath(job[t].state, seen))
<1> DEFINE s == job[t].state
<1>1. CASE s \in Terminal \/ seen \notin Notifiable \/ s = seen
  BY <1>1 DEF SyncPath, Writable
<1>2. CASE ~(s \in Terminal \/ seen \notin Notifiable \/ s = seen)
  <2>1. CASE s = "prepared" /\ seen = "succeeded"
    <3>1. SyncPath(s, seen) = <<"publishing", "succeeded">>
      BY <1>2, <2>1 DEF SyncPath
    <3>2. Head(SyncPath(s, seen)) = "publishing" /\ "publishing" \in Allowed[s]
      BY <2>1, <3>1 DEF Allowed, LocalStates
    <3>3. QED
      BY <3>2 DEF Writable
  <2>2. CASE s = "running" \/ (s = "publishing" /\ seen = "succeeded")
    <3>1. SyncPath(s, seen) = <<seen>>
      BY <1>2, <2>2 DEF SyncPath
    <3>2. Head(SyncPath(s, seen)) = seen /\ seen \in Allowed[s]
      BY <1>2, <2>2, <3>1 DEF Allowed, LocalStates, Notifiable, Terminal
    <3>3. QED
      BY <3>2 DEF Writable
  <2>3. QED
    BY <1>2, <2>1, <2>2, CopyTarget
<1>3. QED
  BY <1>1, <1>2

\* transition_job refuses nothing that _synchronize_worker_manifest makes of an answer,
\* whoever else has copied one to the row since it was read.
THEOREM AnswersCanBeCopied == Spec => []WritesAreAllowed
<1>1. IInv => WritesAreAllowed
  <2> SUFFICES ASSUME IInv PROVE WritesAreAllowed
    OBVIOUS
  <2>1. TypeOK /\ RefsOK /\ RowsOK /\ HeardOK
    BY DEF IInv
  <2>2. ASSUME LoopFree, run.pc = "answered"
        PROVE  Writable(job[Target(run.job)].state, SyncPath(job[Target(run.job)].state, run.seen))
    <3>1. RunHeard
      BY <2>1, <2>2 DEF RunHeard, RefsOK, RunRefs
    <3>2. QED
      BY <2>1, <2>2, <3>1, AnswerOfRun, CopyAllowed DEF RunHeard
  <2>3. ASSUME LoopFree, direct.pc = "answered"
        PROVE  Writable(job[Target(direct.job)].state,
                        SyncPath(job[Target(direct.job)].state, direct.seen))
    <3>1. DirectHeard
      BY <2>3 DEF DirectHeard
    <3>2. QED
      BY <2>1, <2>3, <3>1, AnswerOfDirect, CopyAllowed
  <2>4. ASSUME sync.rest # <<>>
        PROVE  Writable(job[sync.job].state, sync.rest)
    <3>1. sync.rest = <<"succeeded">> /\ job[sync.job].state = "publishing"
      BY <2>1, <2>4 DEF RefsOK, SyncRefs
    <3>2. Head(sync.rest) = "succeeded" /\ "succeeded" \in Allowed["publishing"]
      BY <3>1 DEF Allowed, LocalStates
    <3>3. QED
      BY <3>1, <3>2 DEF Writable
  <2>5. QED
    BY <2>2, <2>3, <2>4 DEF WritesAreAllowed
<1>2. QED
  BY <1>1, CoreJobsInvariant, PTL

\* When scheduler.cancel has made a publication job CANCELLED and nothing failed, crashed
\* or was reclaimed, the worker is not publishing the change and has not published it.
THEOREM CancelledStaysUnpublished == Spec => []CancelledPublicationStops
<1>1. IInv => CancelledPublicationStops
  <2> SUFFICES ASSUME IInv, NEW p \in PublishJobs, job[p].state = "cancelled",
                      Target(p) \in AutoJobs => released[Target(p)],
                      \A q \in PublishJobs \ {p} : Target(q) # Target(p),
                      used.failures + used.crashes + used.reclaims = 0
               PROVE  remote[Target(p)] \notin {"publishing", "succeeded"}
    BY DEF CancelledPublicationStops
  <2>1. Quiet /\ Known(p) /\ Only(p) /\ HandedOff(Target(p))
    BY DEF Quiet, Known, Only, HandedOff, Jobs
  <2>2. ~GoneOut(Target(p))
    BY <2>1 DEF IInv, StopOK
  <2>3. QED
    BY <2>1, <2>2 DEF GoneOut
<1>2. QED
  BY <1>1, CoreJobsInvariant, PTL

\* What copying makes of a row is one transition of the graph.
LEMMA CopiedAlong ==
    ASSUME TypeOK, NEW t \in CodexJobs, NEW seen \in LocalStates, NEW keep \in BOOLEAN,
           Copied(t, seen, keep), job'[t].state # job[t].state
    PROVE  job'[t].state \in Allowed[job[t].state]
<1>1. t \in Jobs
  BY DEF Jobs
<1>2. CASE job[t].state = "prepared" /\ Moves(t, "publishing", keep)
  <2>1. job'[t].state = "publishing"
    BY <1>1, <1>2, MovesRow DEF LocalStates
  <2>2. QED
    BY <1>2, <2>1 DEF Allowed, LocalStates
<1>3. CASE /\ job[t].state \in {"running", "publishing"} /\ seen \in Notifiable
           /\ job[t].state = "publishing" => seen = "succeeded"
           /\ Moves(t, seen, keep)
  <2>1. job'[t].state = seen
    BY <1>1, <1>3, MovesRow
  <2>2. QED
    BY <1>3, <2>1 DEF Allowed, LocalStates, Notifiable, Terminal
<1>4. QED
  BY <1>2, <1>3 DEF Copied

\* Every write of a state goes along _ALLOWED_JOB_TRANSITIONS: transition_job would
\* accept each of them, whichever coroutine makes it.
THEOREM TransitionsAreAllowed ==
    Spec => [][\A j \in Jobs : job'[j].state # job[j].state =>
                  job'[j].state \in Allowed[job[j].state]]_vars
<1>1. ASSUME IInv, [Next]_vars, NEW j \in Jobs, job'[j].state # job[j].state
      PROVE  job'[j].state \in Allowed[job[j].state]
  <2>1. TypeOK /\ RefsOK /\ RowsOK
    BY <1>1 DEF IInv
  <2>2. CASE Submitted(j)
    BY <2>2 DEF Submitted, Allowed, LocalStates
  <2>3. CASE MovedOn(j)
    <3>1. PICK s \in LocalStates, keep \in BOOLEAN : Transition(j, s, keep) /\ job'[j].state = s
      BY <2>3 DEF MovedOn
    <3>2. Cause(j, s) /\ job[j].state \in LocalStates \ {"absent", s} /\ (s \in Notifiable => job[j].state \notin Terminal)
      BY <2>1, <3>1 DEF Transition, TypeOK, Notifiable, Terminal
    <3>3. CASE Continue /\ j = sync.job /\ s = "succeeded"
      <4>1. job[j].state = "publishing"
        BY <2>1, <3>3, ContinueEffect DEF RefsOK
      <4>2. QED
        BY <3>1, <3>3, <4>1 DEF Allowed, LocalStates
    <3>4. CASE s = "cancelled"
      BY <3>1, <3>2, <3>4 DEF Allowed, LocalStates, Notifiable, Terminal
    <3>5. CASE s = "running" /\ job[j].state = "queued"
      BY <3>1, <3>5 DEF Allowed, LocalStates
    <3>6. CASE Digest /\ RunHeard /\ j = Target(run.job) /\ j \in CodexJobs
      <4>1. Copied(j, run.seen, run.keep) /\ run.keep \in BOOLEAN
        BY <1>1, <2>1, <3>6, DigestEffect DEF Copied, TypeOK, Run
      <4>2. QED
        BY <1>1, <2>1, <3>6, <4>1, CopiedAlong DEF RunHeard
    <3>7. CASE Finish
      <4>1. Known(run.job) /\ job[run.job].state # "queued"
        BY <1>1, <2>1, <3>7, FinishEffect DEF RowsOK
      <4>2. CASE run.seen = "error" /\ Moves(run.job, "failed", FALSE)
        <5>1. j = run.job /\ s = "failed"
          BY <1>1, <2>1, <3>1, <4>1, <4>2, MovesRow DEF Known, LocalStates
        <5>2. QED
          BY <3>1, <3>2, <4>1, <5>1 DEF Allowed, LocalStates, Notifiable, Terminal
      <4>3. CASE run.job \in CodexJobs /\ RunHeard /\ Copied(run.job, run.seen, FALSE)
        <5>1. j = run.job
          <6>1. \A z \in LocalStates : Moves(run.job, z, FALSE) => \A k \in Jobs \ {run.job} : job'[k] = job[k]
            BY <2>1, <4>1, MovesRow DEF Known
          <6>2. "publishing" \in LocalStates /\ run.seen \in LocalStates
            BY <4>3 DEF LocalStates, RunHeard
          <6>3. job' = job \/ Moves(run.job, "publishing", FALSE) \/ Moves(run.job, run.seen, FALSE)
            BY <4>3 DEF Copied
          <6>4. QED
            BY <1>1, <6>1, <6>2, <6>3
        <5>2. QED
          BY <1>1, <2>1, <4>3, <5>1, CopiedAlong DEF RunHeard
      <4>4. CASE /\ run.job \in PublishJobs /\ job[run.job].state = "running" /\ run.seen \in Notifiable
                 /\ Moves(run.job, Outcome(run.job, run.seen), FALSE)
        <5>1. Outcome(run.job, run.seen) \in Terminal
          BY <4>4 DEF Outcome, Notifiable, Terminal
        <5>2. j = run.job /\ s = Outcome(run.job, run.seen)
          BY <1>1, <2>1, <3>1, <4>1, <4>4, <5>1, MovesRow DEF Known, LocalStates, Terminal
        <5>3. QED
          BY <3>1, <4>4, <5>1, <5>2 DEF Allowed, LocalStates, Terminal
      <4>5. QED
        BY <1>1, <3>7, <4>2, <4>3, <4>4, FinishEffect
    <3>8. CASE (EndInquiry \/ EndCancel) /\ j = Target(direct.job) /\ j \in CodexJobs
      <4>1. Copied(j, direct.seen, FALSE) /\ direct.seen \in LocalStates
        BY <1>1, <2>1, <3>8, InquiryEffect DEF RefsOK, DirectRefs, EndInquiry, EndCancel
      <4>2. QED
        BY <1>1, <2>1, <3>8, <4>1, CopiedAlong
    <3>9. QED
      BY <3>2, <3>3, <3>4, <3>5, <3>6, <3>7, <3>8 DEF Cause
  <2>4. QED
    BY <1>1, <2>2, <2>3, RowChanges DEF Unmoved, Acknowledged
<1>2. IInv /\ [Next]_vars =>
        [\A j \in Jobs : job'[j].state # job[j].state => job'[j].state \in Allowed[job[j].state]]_vars
  BY <1>1
<1>3. QED
  BY <1>2, CoreJobsInvariant, PTL DEF Spec
=============================================================================
