------------------------------- MODULE WorkerJobs -------------------------------
(***************************************************************************)
(* The Poo-IA host worker: the asyncio JobManager (worker/manager.py), the *)
(* detached children it launches (worker/job_process.py, which run         *)
(* CodexRunner and GitHubPublisher), and what they share: the manifest of  *)
(* each job, the publication.json sidecar, the job lease, the worktree and *)
(* the branch and pull request at GitHub.                                  *)
(*                                                                         *)
(* The manager is one thread: its dispatcher and its API handlers only     *)
(* interleave where they await.  A step of theirs that keeps the event     *)
(* loop leaves a program counter that makes LoopFree false.  The children  *)
(* are other processes and may step between any two store operations.      *)
(***************************************************************************)
EXTENDS Naturals

CONSTANTS
    Jobs,        \* job numbers, in the order of (created_at, job_id)
    AutoJobs,        \* the jobs whose request has publish = True
    Pids,        \* process ids
    None,        \* Python's None
    Sandbox,     \* VALIDATION_ENABLED: _cleanup_validation really awaits
    MaxOrders,   \* bound: publication orders accepted from the core
    MaxCrashes,  \* bound: children that die without being told to
    MaxRestarts  \* bound: restarts of the manager process

ASSUME JobsAssumption == Jobs \subseteq Nat /\ AutoJobs \subseteq Jobs
ASSUME NoneAssumption == None \notin Pids /\ None \notin Jobs
ASSUME SandboxAssumption == Sandbox \in BOOLEAN
ASSUME BoundsAssumption ==
    MaxOrders \in Nat /\ MaxCrashes \in Nat /\ MaxRestarts \in Nat

VARIABLES
    man,      \* job -> its manifest
    intent,   \* job -> its publication.json
    tree,     \* job -> its git worktree
    origin,   \* job -> what GitHub holds of it
    proc,     \* pid -> the detached child it belongs to
    lease,    \* job -> the pid holding .leases/<job>.lock
    disp,     \* the dispatcher coroutine
    cancel,   \* one DELETE/cancel handler in flight
    publish,  \* one publish handler in flight
    order,    \* history: what the core ordered about publishing each job
    used      \* how much of each bound has been spent

vars == <<man, intent, tree, origin, proc, lease, disp, cancel, publish, order, used>>

world  == <<tree, origin>>
child  == <<proc, lease>>
loop   == <<disp, cancel, publish>>
ghosts == <<order, used>>

-----------------------------------------------------------------------------
States   == {"absent", "queued", "running", "prepared", "publishing",
             "succeeded", "failed", "cancelled"}
Terminal == {"succeeded", "failed", "cancelled"}

Manifest == [state: States, pid: Pids \cup {None}, attempts: Nat,
             recorded: BOOLEAN, blocked: BOOLEAN]
Absent   == [state |-> "absent", pid |-> None, attempts |-> 0,
             recorded |-> FALSE, blocked |-> FALSE]

Intent   == [saved: BOOLEAN, override: BOOLEAN, pending: BOOLEAN]
NoIntent == [saved |-> FALSE, override |-> FALSE, pending |-> FALSE]

CodexPc   == {"prepare", "note", "editing", "result"}
PublishPc == {"gate", "commit", "push", "pr", "succeed"}
ChildPc   == CodexPc \cup PublishPc \cup
             {"dead", "lease", "claim", "fail", "after", "pubclaim", "pubfail",
              "finread", "finwrite"}
Child  == [job: Jobs \cup {None}, task: {"codex", "publish"}, pc: ChildPc,
           override: BOOLEAN, seen: Intent]
NoChild == [job |-> None, task |-> "codex", pc |-> "dead",
            override |-> FALSE, seen |-> NoIntent]

DispPc == {"scan", "rescan", "reread", "cleanup", "decide", "handoff", "own",
           "lost", "unsafe", "requeue", "giveup", "claim", "start", "spawn",
           "record", "finish"}
Dispatcher == [pc: DispPc, job: Jobs \cup {None}, latest: Manifest,
               task: {"codex", "publish"}, override: BOOLEAN,
               pid: Pids \cup {None}]
Scanning == [pc |-> "scan", job |-> None, latest |-> Absent, task |-> "codex",
             override |-> FALSE, pid |-> None]

Canceller == [pc: {"idle", "handoff", "drop", "close", "kill", "stop", "cleanup",
                   "settle", "release", "finish"},
              job: Jobs \cup {None}, pid: Pids \cup {None}]
NoCancel  == [pc |-> "idle", job |-> None, pid |-> None]
Publisher == [pc: {"idle", "claim"}, job: Jobs \cup {None}]
NoPublish == [pc |-> "idle", job |-> None]

Order   == [asked: BOOLEAN, forced: BOOLEAN, last: BOOLEAN, spent: BOOLEAN]
NoOrder == [asked |-> FALSE, forced |-> FALSE, last |-> FALSE, spent |-> FALSE]

\* DetachedProcessController.is_job_process: the pid is alive and its command
\* line names this job.
Live(p, j) == p \in Pids /\ proc[p].pc # "dead" /\ proc[p].job = j

\* JobManager._is_active_manifest
IsActive(j) ==
    \/ man[j].state \in {"running", "publishing"}
    \/ man[j].state = "prepared" /\ j \in AutoJobs /\ man[j].pid # None

\* Mutant: a recovered publication does not look for other processes.
HasActiveProcessUnchecked(j) == FALSE

\* JobManager._has_active_process(excluding=j)
HasActiveProcess(j) == \E k \in Jobs \ {j} : IsActive(k) /\ Live(man[k].pid, k)

\* next(item for item in manifests if ...): the scan is sorted by creation.
First(j, S) == j \in S /\ \A k \in S : j <= k

Active  == {j \in Jobs : IsActive(j)}
Queued  == {j \in Jobs : man[j].state = "queued"}

\* Mutant: a pending publication is forgotten once its claim is lost.
PendingIgnored == {}

Pending == {j \in Jobs : man[j].state = "prepared" /\ intent[j].pending}

\* Mutant: off by one, a third execution is allowed.
MayRetryTwice(latest) == latest.attempts <= 2

MayRetry(latest) == latest.attempts < 2

\* RepositoryResolver.interrupted_retry_is_safe, on the manifest read earlier.
RetryIsSafe(j, latest) ==
    \/ tree[j] = "absent" /\ ~latest.recorded
    \/ tree[j] = "clean" /\ latest.recorded

\* No coroutine of the manager is between two awaits.
LoopFree ==
    /\ disp.pc \in {"scan", "rescan", "reread", "cleanup"}
    /\ cancel.pc \in {"idle", "cleanup"}
    /\ publish.pc = "idle"

\* The manifest gets a state and the process that owns it.
Become(j, s, p) == man' = [man EXCEPT ![j].state = s, ![j].pid = p]

\* save_publication_request and finish_publication_request
SaveIntent(j, o) ==
    intent' = [intent EXCEPT ![j] = [saved |-> TRUE, override |-> o, pending |-> TRUE]]
FinishIntent(j) == intent' = [intent EXCEPT ![j].pending = FALSE]

\* The process is gone and the kernel has released its flock.
Dies(p) ==
    /\ proc' = [proc EXCEPT ![p] = NoChild]
    /\ lease' = [k \in Jobs |-> IF lease[k] = p THEN None ELSE lease[k]]

\* Mutant: the signal is never sent.
TerminateGroupForgotten(p, j) == UNCHANGED child

\* is_job_process(pid, job) followed by terminate_group(pid)
TerminateGroup(p, j) ==
    \/ Live(p, j) /\ Dies(p)
    \/ ~Live(p, j) /\ UNCHANGED child

Init ==
    /\ man = [j \in Jobs |-> Absent]
    /\ intent = [j \in Jobs |-> NoIntent]
    /\ tree = [j \in Jobs |-> "absent"]
    /\ origin = [j \in Jobs |-> "none"]
    /\ proc = [p \in Pids |-> NoChild]
    /\ lease = [j \in Jobs |-> None]
    /\ disp = Scanning
    /\ cancel = NoCancel
    /\ publish = NoPublish
    /\ order = [j \in Jobs |-> NoOrder]
    /\ used = [orders |-> 0, crashes |-> 0, restarts |-> 0]

-----------------------------------------------------------------------------
(* JobManager._dispatch_loop.                                              *)

\* The first active job has no live process: yield once, then look again.
\* (While that process lives the loop only waits, which changes nothing.)
ScanOrphan ==
    /\ disp.pc = "scan" /\ LoopFree
    /\ \E j \in Jobs : /\ First(j, Active)
                       /\ ~Live(man[j].pid, j)
                       /\ disp' = [disp EXCEPT !.pc = "reread", !.job = j]
    /\ UNCHANGED <<man, intent, world, child, cancel, publish, ghosts>>

\* Retention is due: _run_retention awaits, then the manifests are read again
\* but the active check is not repeated.
ScanRetention ==
    /\ disp.pc = "scan" /\ LoopFree
    /\ Active = {}
    /\ disp' = [disp EXCEPT !.pc = "rescan"]
    /\ UNCHANGED <<man, intent, world, child, cancel, publish, ghosts>>

\* A pending publication goes before the queue.
Choose ==
    /\ LoopFree
    /\ disp.pc = "rescan" \/ (disp.pc = "scan" /\ Active = {})
    /\ \/ \E j \in Jobs : /\ First(j, Pending)
                          /\ disp' = [Scanning EXCEPT !.pc = "claim", !.job = j,
                                          !.override = intent[j].override]
       \/ /\ Pending = {}
          /\ \E j \in Jobs : /\ First(j, Queued)
                             /\ disp' = [Scanning EXCEPT !.pc = "start", !.job = j]
       \/ /\ Pending = {} /\ Queued = {} /\ disp.pc = "rescan"
          /\ disp' = Scanning
    /\ UNCHANGED <<man, intent, world, child, cancel, publish, ghosts>>

\* latest = store.get(...); with the sandbox, _cleanup_validation awaits while
\* `latest` grows old.
Reread ==
    /\ disp.pc = "reread" /\ LoopFree
    /\ disp' = [disp EXCEPT
                  !.latest = man[disp.job],
                  !.pc = IF Sandbox /\ man[disp.job].state \in {"running", "publishing"}
                         THEN "cleanup" ELSE "decide"]
    /\ UNCHANGED <<man, intent, world, child, cancel, publish, ghosts>>

Deciding(s) ==
    /\ disp.pc = "decide" \/ (disp.pc = "cleanup" /\ LoopFree)
    /\ disp.latest.state = s

\* PREPARED with a pid is Codex's hand-off to automatic publication.
IsHandoff(j, m) == m.state = "prepared" /\ j \in AutoJobs /\ m.pid # None

DecideHandoff ==
    LET j == disp.job IN
    /\ Deciding("prepared") /\ IsHandoff(j, disp.latest)
    /\ \/ /\ HasActiveProcess(j)
          /\ disp' = Scanning
          /\ UNCHANGED intent
       \/ /\ ~HasActiveProcess(j)
          /\ SaveIntent(j, FALSE)
          /\ disp' = [Scanning EXCEPT !.pc = "handoff", !.job = j]
    /\ UNCHANGED <<man, world, child, cancel, publish, ghosts>>

\* A publication that lost its process resumes with its durable override.
DecidePublishing ==
    LET j == disp.job
        own == [Scanning EXCEPT !.pc = "own", !.job = j, !.override = intent[j].override]
    IN
    /\ Deciding("publishing")
    /\ \/ /\ HasActiveProcess(j)
          /\ disp' = Scanning
          /\ UNCHANGED intent
       \/ /\ ~HasActiveProcess(j)
          /\ IF intent[j].saved \/ j \notin AutoJobs THEN UNCHANGED intent ELSE SaveIntent(j, FALSE)
          /\ disp' = IF intent[j].saved \/ j \in AutoJobs THEN own
                     ELSE [Scanning EXCEPT !.pc = "lost", !.job = j]
    /\ UNCHANGED <<man, world, child, cancel, publish, ghosts>>

\* An interrupted execution is resumed once, and only over an untouched tree.
DecideRunning ==
    LET j == disp.job IN
    /\ Deciding("running")
    /\ disp' = [Scanning EXCEPT !.job = j,
                  !.pc = IF ~MayRetry(disp.latest) THEN "giveup"
                         ELSE IF RetryIsSafe(j, disp.latest) THEN "requeue" ELSE "unsafe"]
    /\ UNCHANGED <<man, intent, world, child, cancel, publish, ghosts>>

DecideNothing ==
    /\ disp.pc = "decide"
    /\ disp.latest.state \notin {"running", "publishing"}
    /\ ~IsHandoff(disp.job, disp.latest)
    /\ disp' = Scanning
    /\ UNCHANGED <<man, intent, world, child, cancel, publish, ghosts>>

\* What each decision expects of the manifest and makes of it.
From == [lost |-> "publishing", unsafe |-> "running", requeue |-> "running",
         giveup |-> "running", handoff |-> "prepared", own |-> "publishing",
         claim |-> "prepared"]

\* Mutant: the resumed execution gets a state JobState does not have.
ToUnknown == [lost |-> "prepared", unsafe |-> "failed", requeue |-> "resumed",
              giveup |-> "failed", handoff |-> "publishing", own |-> "publishing",
              claim |-> "publishing"]

To   == [lost |-> "prepared", unsafe |-> "failed", requeue |-> "queued",
         giveup |-> "failed", handoff |-> "publishing", own |-> "publishing",
         claim |-> "publishing"]

\* store.update under the dispatcher's decision; a ManifestStateError means
\* somebody else moved the job first, and the loop starts over.
DispatchUpdate ==
    LET j == disp.job IN
    /\ disp.pc \in DOMAIN From
    /\ \/ /\ man[j].state = From[disp.pc]
          /\ Become(j, To[disp.pc], None)
          /\ disp' = IF disp.pc \in {"handoff", "own", "claim"}
                     THEN [disp EXCEPT !.pc = "spawn", !.task = "publish"]
                     ELSE Scanning
       \/ /\ man[j].state # From[disp.pc]
          /\ disp' = Scanning
          /\ UNCHANGED man
    /\ UNCHANGED <<intent, world, child, cancel, publish, ghosts>>

\* JobManager._launch, its first update
DispatchStart ==
    LET j == disp.job IN
    /\ disp.pc = "start"
    /\ \/ /\ man[j].state = "queued"
          /\ man' = [man EXCEPT ![j].state = "running", ![j].pid = None,
                                ![j].attempts = @ + 1]
          /\ disp' = [disp EXCEPT !.pc = "spawn", !.task = "codex"]
       \/ /\ man[j].state # "queued"
          /\ disp' = Scanning
          /\ UNCHANGED man
    /\ UNCHANGED <<intent, world, child, cancel, publish, ghosts>>

\* processes.launch in _launch and _launch_publication.  The kernel gives a
\* pid no process has; pids that a manifest still names are not given again.
Spawn ==
    /\ disp.pc = "spawn"
    /\ \E p \in Pids :
        /\ proc[p].pc = "dead" /\ \A j \in Jobs : man[j].pid # p
        /\ proc' = [proc EXCEPT ![p] = [job |-> disp.job, task |-> disp.task,
                       pc |-> "lease", override |-> disp.override, seen |-> NoIntent]]
        /\ disp' = [disp EXCEPT !.pc = "record", !.pid = p]
    /\ UNCHANGED <<man, intent, world, lease, cancel, publish, ghosts>>

Launched == IF disp.task = "codex" THEN "running" ELSE "publishing"

\* OSError: the job fails, or goes back to PREPARED with its request finished.
SpawnFails ==
    LET j == disp.job IN
    /\ disp.pc = "spawn"
    /\ \/ man[j].state = Launched
          /\ Become(j, IF disp.task = "codex" THEN "failed" ELSE "prepared", None)
       \/ man[j].state # Launched /\ UNCHANGED man
    /\ disp' = IF disp.task = "codex" THEN Scanning ELSE [disp EXCEPT !.pc = "finish"]
    /\ order' = IF disp.task = "codex" THEN order ELSE [order EXCEPT ![j].spent = TRUE]
    /\ UNCHANGED <<intent, world, child, cancel, publish, used>>

DispatchFinish ==
    /\ disp.pc = "finish"
    /\ FinishIntent(disp.job)
    /\ disp' = Scanning
    /\ UNCHANGED <<man, world, child, cancel, publish, ghosts>>

\* The child may already have claimed the job, or finished it.
RecordPid ==
    /\ disp.pc = "record"
    /\ \/ man[disp.job].state = Launched /\ Become(disp.job, Launched, disp.pid)
       \/ man[disp.job].state # Launched /\ UNCHANGED man
    /\ disp' = Scanning
    /\ UNCHANGED <<intent, world, child, cancel, publish, ghosts>>

Dispatch ==
    \/ ScanOrphan \/ ScanRetention \/ Choose \/ Reread
    \/ DecideHandoff \/ DecidePublishing \/ DecideRunning \/ DecideNothing
    \/ DispatchUpdate \/ DispatchStart \/ Spawn \/ SpawnFails
    \/ DispatchFinish \/ RecordPid

-----------------------------------------------------------------------------
(* The HTTP handlers of JobManager.                                        *)

\* create: idempotent, so only the first call for a job changes anything.
Create(j) ==
    /\ LoopFree
    /\ man[j].state = "absent"
    /\ \A k \in Jobs : k < j => man[k].state # "absent"
    /\ man' = [man EXCEPT ![j].state = "queued"]
    /\ UNCHANGED <<intent, world, child, loop, ghosts>>

\* cancel: what it does follows from the manifest it reads first.  (A terminal
\* job is returned as it is; a PREPARED one that is not a hand-off is a 409.)
CancelRead(j) ==
    /\ LoopFree /\ cancel.pc = "idle"
    /\ \/ IsHandoff(j, man[j])
       \/ man[j].state \in {"queued", "running", "publishing"}
    /\ cancel' = [job |-> j, pid |-> man[j].pid,
                  pc |-> CASE man[j].state = "prepared"   -> "handoff"
                           [] man[j].state = "publishing" -> "stop"
                           [] OTHER                       -> "close"]
    /\ UNCHANGED <<man, intent, world, child, disp, publish, ghosts>>

\* The hand-off, a queued or a running job becomes CANCELLED before its process
\* is stopped; a ManifestStateError is a 409.
CancelClose ==
    LET j == cancel.job
        expected == IF cancel.pc = "handoff" THEN {"prepared"} ELSE {"queued", "running"}
    IN
    /\ cancel.pc \in {"handoff", "close"}
    /\ \/ /\ man[j].state \in expected
          /\ Become(j, "cancelled", None)
          /\ cancel' = [cancel EXCEPT !.pc = IF cancel.pc = "handoff" THEN "drop" ELSE "kill"]
       \/ /\ man[j].state \notin expected
          /\ cancel' = NoCancel
          /\ UNCHANGED man
    /\ UNCHANGED <<intent, world, child, disp, publish, ghosts>>

\* The signal goes to the pid that was read before the update.
CancelKill ==
    LET j == cancel.job IN
    /\ cancel.pc \in {"drop", "kill"}
    /\ TerminateGroup(cancel.pid, j)
    /\ IF cancel.pc = "drop" THEN FinishIntent(j) ELSE UNCHANGED intent
    /\ cancel' = NoCancel
    /\ UNCHANGED <<man, world, disp, publish, ghosts>>

\* A publication is stopped first and its claim released afterwards.
CancelStop ==
    /\ cancel.pc = "stop"
    /\ TerminateGroup(cancel.pid, cancel.job)
    /\ cancel' = [cancel EXCEPT !.pc = IF Sandbox THEN "cleanup" ELSE "settle"]
    /\ UNCHANGED <<man, intent, world, disp, publish, ghosts>>

CancelSettle ==
    LET j == cancel.job IN
    /\ cancel.pc = "settle" \/ (cancel.pc = "cleanup" /\ LoopFree)
    /\ \/ /\ man[j].state \in Terminal \cup {"prepared"}
          /\ FinishIntent(j)
          /\ cancel' = NoCancel
       \/ /\ man[j].state \notin Terminal \cup {"prepared"}
          /\ cancel' = [cancel EXCEPT !.pc = "release"]
          /\ UNCHANGED intent
    /\ UNCHANGED <<man, world, child, disp, publish, ghosts>>

CancelRelease ==
    LET j == cancel.job IN
    /\ cancel.pc = "release"
    /\ \/ /\ man[j].state = "publishing"
          /\ Become(j, "prepared", None)
          /\ order' = [order EXCEPT ![j].spent = TRUE]
          /\ cancel' = [cancel EXCEPT !.pc = "finish"]
       \/ /\ man[j].state # "publishing"
          /\ cancel' = NoCancel
          /\ UNCHANGED <<man, order>>
    /\ UNCHANGED <<intent, world, child, disp, publish, used>>

CancelFinish ==
    /\ cancel.pc = "finish"
    /\ FinishIntent(cancel.job)
    /\ cancel' = NoCancel
    /\ UNCHANGED <<man, world, child, disp, publish, ghosts>>

\* publish: the request is durable before the manifest is claimed.  (A published
\* or publishing job is returned as it is; any other state is a 409.)
PublishRead(j, override) ==
    /\ LoopFree
    /\ used.orders < MaxOrders
    /\ man[j].state = "prepared"
    /\ SaveIntent(j, override)
    /\ publish' = [pc |-> "claim", job |-> j]
    /\ order' = [order EXCEPT ![j] = [asked |-> TRUE, forced |-> @.forced \/ override,
                                      last |-> override, spent |-> FALSE]]
    /\ used' = [used EXCEPT !.orders = @ + 1]
    /\ UNCHANGED <<man, world, child, disp, cancel>>

\* An automatic publisher may have claimed the hand-off in between.
PublishClaim ==
    LET j == publish.job IN
    /\ publish.pc = "claim"
    /\ \/ man[j].state = "prepared" /\ Become(j, "publishing", None)
       \/ man[j].state # "prepared" /\ UNCHANGED man
    /\ publish' = NoPublish
    /\ UNCHANGED <<intent, world, child, disp, cancel, ghosts>>

Handlers ==
    \/ CancelClose \/ CancelKill \/ CancelStop \/ CancelSettle
    \/ CancelRelease \/ CancelFinish \/ PublishClaim

\* The manager process ends at any point and systemd starts it again; its
\* children live on (KillMode=process).
ManagerRestart ==
    /\ used.restarts < MaxRestarts
    /\ used' = [used EXCEPT !.restarts = @ + 1]
    /\ disp' = Scanning
    /\ cancel' = NoCancel
    /\ publish' = NoPublish
    /\ UNCHANGED <<man, intent, world, child, order>>

-----------------------------------------------------------------------------
(* worker/job_process.py: one detached child.                              *)

At(p, pc) == proc[p].pc = pc
JobOf(p)  == proc[p].job
Go(p, pc) == proc' = [proc EXCEPT ![p].pc = pc]

\* main() returns or raises: the lease is released and the process is gone.
Exit(p) == Dies(p)

\* Mutant: the children of one job do not exclude each other.
LeaseFreeAlways(j) == TRUE

LeaseFree(j) == lease[j] = None

\* with job_lease(...): the children of one job take turns.
TakeLease(p) ==
    /\ At(p, "lease")
    /\ LeaseFree(JobOf(p))
    /\ lease' = [lease EXCEPT ![JobOf(p)] = p]
    /\ Go(p, IF proc[p].task = "codex" THEN "claim" ELSE "pubclaim")
    /\ UNCHANGED <<man, intent, world, loop, ghosts>>

\* Mutant: a prepared job may be executed once more.
ClaimableAgain(p) == LET m == man[JobOf(p)] IN
    \/ m.state \in {"queued", "prepared"}
    \/ m.state = "running" /\ m.pid \in {None, p}

Claimable(p) == LET m == man[JobOf(p)] IN
    m.state = "queued" \/ (m.state = "running" /\ m.pid \in {None, p})

\* CodexRunner.run, `claim`
ChildClaim(p) ==
    /\ At(p, "claim")
    /\ \/ /\ Claimable(p)
          /\ Become(JobOf(p), "running", p)
          /\ Go(p, "prepare")
       \/ /\ ~Claimable(p)
          /\ Go(p, "after")
          /\ UNCHANGED man
    /\ UNCHANGED <<intent, world, lease, loop, ghosts>>

\* Mutant: the worktree of an earlier attempt is taken over as it is.
ResumableAlways(j) == TRUE

\* An existing worktree is only taken over without local changes.
Resumable(j) == tree[j] \in {"absent", "clean"}

\* RepositoryResolver.resolve and prepare, and the checks on the result; any of
\* them may raise, with or without a new worktree.
PrepareTree(p) ==
    LET j == JobOf(p) IN
    /\ At(p, "prepare")
    /\ \/ /\ Resumable(j)
          /\ tree' = [tree EXCEPT ![j] = IF @ = "absent" THEN "clean" ELSE @]
          /\ Go(p, "note") \/ Go(p, "fail")
       \/ Go(p, "fail") /\ UNCHANGED tree
    /\ UNCHANGED <<man, intent, origin, lease, loop, ghosts>>

\* The worktree goes into the manifest and Codex starts.
NoteTree(p) ==
    LET j == JobOf(p) IN
    /\ At(p, "note")
    /\ \/ /\ man[j].state = "running"
          /\ man' = [man EXCEPT ![j].recorded = TRUE]
          /\ Go(p, "editing")
       \/ man[j].state # "running" /\ Go(p, "after") /\ UNCHANGED man
    /\ UNCHANGED <<intent, world, lease, loop, ghosts>>

CodexEdits(p) ==
    /\ At(p, "editing")
    /\ tree' = [tree EXCEPT ![JobOf(p)] = "dirty"]
    /\ UNCHANGED <<man, intent, origin, child, loop, ghosts>>

\* Codex exits with 0, or fails or times out; so may validation and the diff.
CodexEnds(p) ==
    /\ At(p, "editing")
    /\ Go(p, "result") \/ Go(p, "fail")
    /\ UNCHANGED <<man, intent, world, lease, loop, ghosts>>

\* The last update of run: PREPARED when something changed, else FAILED.  The
\* validation and the diff budget may block its publication.
RecordResult(p) ==
    LET j == JobOf(p) IN
    /\ At(p, "result")
    /\ \/ /\ man[j].state = "running" /\ tree[j] = "dirty"
          /\ \E b \in BOOLEAN :
                man' = [man EXCEPT ![j].state = "prepared", ![j].blocked = b,
                                   ![j].pid = IF j \in AutoJobs THEN p ELSE None]
       \/ man[j].state = "running" /\ tree[j] # "dirty" /\ Become(j, "failed", None)
       \/ man[j].state # "running" /\ UNCHANGED man
    /\ Go(p, "after")
    /\ UNCHANGED <<intent, world, lease, loop, ghosts>>

\* Mutant: a late failure overwrites whatever the job became.
FailableAlways(j) == TRUE

Failable(j) == man[j].state \in {"queued", "running"}

\* CodexRunner._fail
RecordFailure(p) ==
    LET j == JobOf(p) IN
    /\ At(p, "fail")
    /\ \/ Failable(j) /\ Become(j, "failed", None)
       \/ ~Failable(j) /\ UNCHANGED man
    /\ Go(p, "after")
    /\ UNCHANGED <<intent, world, lease, loop, ghosts>>

\* Automatic publication in the Codex child: GitHubPublisher.publish claims a
\* PREPARED manifest, whoever prepared it.
AutoPublish(p) ==
    LET j == JobOf(p) IN
    /\ At(p, "after")
    /\ \/ /\ j \in AutoJobs /\ man[j].state = "prepared"
          /\ Become(j, "publishing", p)
          /\ Go(p, "pubclaim")
          /\ UNCHANGED lease
       \/ /\ ~(j \in AutoJobs /\ man[j].state = "prepared")
          /\ Exit(p)
          /\ UNCHANGED man
    /\ UNCHANGED <<intent, world, loop, ghosts>>

Publishable(p) == LET m == man[JobOf(p)] IN
    m.state = "publishing" /\ m.pid \in {None, p}

\* Only a --publish-only child finishes the publication request.
Leave(p) ==
    \/ proc[p].task = "publish" /\ Go(p, "finread") /\ UNCHANGED lease
    \/ proc[p].task = "codex" /\ Exit(p)

\* GitHubPublisher.publish_claimed
PublishClaimed(p) ==
    /\ At(p, "pubclaim")
    /\ \/ /\ Publishable(p)
          /\ Become(JobOf(p), "publishing", p)
          /\ Go(p, "gate")
          /\ UNCHANGED lease
       \/ ~Publishable(p) /\ Leave(p) /\ UNCHANGED man
    /\ UNCHANGED <<intent, world, loop, ghosts>>

\* Mutant: the publication gate is not looked at.
GateAlwaysOpen(blocked, override) == TRUE

\* _check_gate: validation failed or timed out, or the diff is over its budget.
GateOpen(blocked, override) == blocked => override

\* _check_gate, then _refresh_validation_and_diff records what it measured, then
\* _check_gate again on that.
CheckGate(p) ==
    LET j == JobOf(p) IN
    /\ At(p, "gate")
    /\ man[j].state = "publishing"
    /\ GateOpen(man[j].blocked, proc[p].override)
    /\ \E b \in BOOLEAN :
        /\ man' = [man EXCEPT ![j].blocked = b]
        /\ Go(p, IF GateOpen(b, proc[p].override) THEN "commit" ELSE "pubfail")
    /\ UNCHANGED <<intent, world, lease, loop, ghosts>>

\* Mutant: what is pushed was never committed.
CommitSkipped(p) ==
    /\ At(p, "commit")
    /\ Go(p, "push")
    /\ UNCHANGED <<man, intent, world, lease, loop, ghosts>>

\* git commit, or the verified commit of an earlier attempt
Commit(p) ==
    /\ At(p, "commit")
    /\ tree[JobOf(p)] \in {"dirty", "committed"}
    /\ tree' = [tree EXCEPT ![JobOf(p)] = "committed"]
    /\ Go(p, "push")
    /\ UNCHANGED <<man, intent, origin, lease, loop, ghosts>>

\* git push, unless the remote branch already is that commit
Push(p) ==
    LET j == JobOf(p) IN
    /\ At(p, "push")
    /\ origin' = [origin EXCEPT ![j] = IF @ = "none" THEN "branch" ELSE @]
    /\ Go(p, "pr")
    /\ UNCHANGED <<man, intent, tree, lease, loop, ghosts>>

\* gh pr create, unless gh pr view finds one
OpenPr(p) ==
    /\ At(p, "pr")
    /\ origin' = [origin EXCEPT ![JobOf(p)] = "pr"]
    /\ Go(p, "succeed")
    /\ UNCHANGED <<man, intent, tree, lease, loop, ghosts>>

\* _succeed
Succeed(p) ==
    /\ At(p, "succeed")
    /\ \/ /\ man[JobOf(p)].state = "publishing"
          /\ Become(JobOf(p), "succeeded", None)
          /\ Leave(p)
       \/ man[JobOf(p)].state # "publishing" /\ Go(p, "pubfail") /\ UNCHANGED <<man, lease>>
    /\ UNCHANGED <<intent, world, loop, ghosts>>

\* Any step of a publication may raise, before or after its effect.
PublishRaises(p) ==
    /\ proc[p].pc \in PublishPc
    /\ Go(p, "pubfail")
    /\ UNCHANGED <<man, intent, world, lease, loop, ghosts>>

\* The except clause of publish_claimed: back to PREPARED with the error.
PublishFails(p) ==
    LET j == JobOf(p) IN
    /\ At(p, "pubfail")
    /\ \/ /\ man[j].state = "publishing"
          /\ Become(j, "prepared", None)
          /\ order' = [order EXCEPT ![j].spent = TRUE]
       \/ man[j].state # "publishing" /\ UNCHANGED <<man, order>>
    /\ Leave(p)
    /\ UNCHANGED <<intent, world, loop, used>>

\* finish_publication_request reads the sidecar ...
FinishRead(p) ==
    /\ At(p, "finread")
    /\ IF intent[JobOf(p)].saved
       THEN /\ proc' = [proc EXCEPT ![p].pc = "finwrite", ![p].seen = intent[JobOf(p)]]
            /\ UNCHANGED lease
       ELSE Exit(p)
    /\ UNCHANGED <<man, intent, world, loop, ghosts>>

\* ... and replaces it with pending = False and the override it read.
FinishWrite(p) ==
    /\ At(p, "finwrite")
    /\ intent' = [intent EXCEPT ![JobOf(p)] = [proc[p].seen EXCEPT !.pending = FALSE]]
    /\ Exit(p)
    /\ UNCHANGED <<man, world, loop, ghosts>>

ChildStep(p) ==
    \/ TakeLease(p) \/ ChildClaim(p) \/ PrepareTree(p) \/ NoteTree(p)
    \/ CodexEdits(p) \/ CodexEnds(p) \/ RecordResult(p) \/ RecordFailure(p)
    \/ AutoPublish(p) \/ PublishClaimed(p) \/ CheckGate(p) \/ Commit(p) \/ Push(p)
    \/ OpenPr(p) \/ Succeed(p) \/ PublishRaises(p) \/ PublishFails(p)
    \/ FinishRead(p) \/ FinishWrite(p)

\* The machine kills a child (out of memory, power loss of its session).
Crash(p) ==
    /\ proc[p].pc # "dead"
    /\ used.crashes < MaxCrashes
    /\ used' = [used EXCEPT !.crashes = @ + 1]
    /\ Dies(p)
    /\ UNCHANGED <<man, intent, world, loop, order>>

Next ==
    \/ Dispatch
    \/ Handlers
    \/ \E j \in Jobs : Create(j) \/ CancelRead(j)
    \/ \E j \in Jobs, o \in BOOLEAN : PublishRead(j, o)
    \/ \E p \in Pids : ChildStep(p) \/ Crash(p)
    \/ ManagerRestart

Spec == Init /\ [][Next]_vars

\* The event loop runs what is ready, and every external command of a child
\* (Codex, git, gh, the validation) has a timeout.
FairSpec ==
    /\ Spec
    /\ WF_vars(Dispatch)
    /\ WF_vars(Handlers)
    /\ \A p \in Pids : WF_vars(ChildStep(p))

-----------------------------------------------------------------------------
(* What must hold.                                                         *)

StoreType == man \in [Jobs -> Manifest] /\ intent \in [Jobs -> Intent]

WorldType ==
    /\ tree \in [Jobs -> {"absent", "clean", "dirty", "committed"}]
    /\ origin \in [Jobs -> {"none", "branch", "pr"}]

ChildType ==
    /\ proc \in [Pids -> Child]
    /\ \A p \in Pids : proc[p].job \in Jobs \/ proc[p] = NoChild
    /\ lease \in [Jobs -> Pids \cup {None}]

DispType ==
    /\ disp \in Dispatcher
    /\ disp.job \in Jobs \/ disp.pc \in {"scan", "rescan"}
    /\ disp.pc = "record" => disp.pid \in Pids

HandlerType ==
    /\ cancel \in Canceller
    /\ cancel.job \in Jobs \/ cancel.pc = "idle"
    /\ publish \in Publisher
    /\ publish.job \in Jobs \/ publish.pc = "idle"

GhostType ==
    /\ order \in [Jobs -> Order]
    /\ used \in [orders: Nat, crashes: Nat, restarts: Nat]

\* Every variable has its type, a step in flight always names its job, and a
\* dead process leaves nothing behind.
TypeOK ==
    StoreType /\ WorldType /\ ChildType /\ DispType /\ HandlerType /\ GhostType

Working(p)  == proc[p].pc \in CodexPc \cup PublishPc
Occupied(j) == \E p \in Pids : JobOf(p) = j /\ Working(p)

\* At most one child edits or publishes at any moment, over all jobs: the
\* dispatcher's active scan and _has_active_process are its only guard.
OneHeavyProcess == \A p, q \in Pids : Working(p) /\ Working(q) => p = q

\* Once cancel has answered, nothing works on a CANCELLED job any more.
CancelStopsWork ==
    \A j \in Jobs : man[j].state = "cancelled" /\ cancel.job # j => ~Occupied(j)

\* Codex never runs in the worktree of a job whose result is recorded, under
\* review or being pushed: a late child of an interrupted attempt stays away.
EditsOnlyUnprepared ==
    \A p \in Pids : proc[p].pc \in CodexPc =>
        man[JobOf(p)].state \notin {"prepared", "publishing", "succeeded"}

\* Codex only starts over a worktree without changes of an earlier attempt.
CodexStartsClean ==
    \A p \in Pids : proc[p].pc = "note" => tree[JobOf(p)] = "clean"

\* Once the branch is at GitHub the worktree holds exactly that commit.
PublishedTreeIsFrozen ==
    \A j \in Jobs : origin[j] # "none" => tree[j] = "committed"

\* Nothing of a CANCELLED job ever reaches GitHub.
CancelledStaysPrivate ==
    \A j \in Jobs : man[j].state = "cancelled" => origin[j] = "none"

\* Nothing of a job that never got a result reaches GitHub, nor of one that was
\* cancelled when only an explicit order could publish it.
RefusedStaysPrivate ==
    \A j \in Jobs :
        \/ man[j].state \in {"absent", "queued", "running", "failed"}
        \/ man[j].state = "cancelled" /\ j \notin AutoJobs
        => origin[j] = "none"

\* An execution is resumed once: no restart, crash or lost pid makes it three.
AtMostTwoRuns == \A j \in Jobs : man[j].attempts <= 2

\* A pull request over a failed validation or an exceeded budget was forced by
\* an order with override, however many attempts and processes it took.
BlockedNeedsForce ==
    [][\A j \in Jobs : origin[j] # "pr" /\ origin'[j] = "pr" =>
            ~man[j].blocked \/ order[j].forced]_vars

\* manager.py:159 "Stop the external Git/GitHub process before releasing its
\* durable claim."
StoppedBeforeReleased ==
    [][cancel.pc = "release" /\ cancel'.pc = "finish" => ~Occupied(cancel.job)]_vars

PublisherStarts(p) ==
    At(p, "dead") /\ proc'[p].pc = "lease" /\ proc'[p].task = "publish"

\* publication.py:90 "Prevent a normal prepared failure from being retried
\* without new approval."
RetriesAreOrdered ==
    [][\A p \in Pids : PublisherStarts(p) => ~order[proc'[p].job].spent]_vars

\* publication.py:79 "Return the durable override option": the process that is
\* started has the override of the latest accepted order.
LatestOrderWins ==
    [][\A p \in Pids : PublisherStarts(p) =>
            proc'[p].override = order[proc'[p].job].last]_vars

\* What JobManager.get answers: it reports a hand-off as PUBLISHING.
Reported(j) == IF IsHandoff(j, man[j]) THEN "publishing" ELSE man[j].state

AtRest(j) ==
    \/ Reported(j) \in Terminal \cup {"absent"}
    \/ Reported(j) = "prepared" /\ ~intent[j].pending

\* Whatever crashes and restarts happen, every accepted job ends in a state a
\* poller takes as final and stays there: none is stuck QUEUED, RUNNING or
\* PUBLISHING, or PREPARED with an order nobody executes.
EveryJobComesToRest == <>[](\A j \in Jobs : AtRest(j))

\* The worker implements the life cycle it promises to the core.
LC == INSTANCE JobLifecycle WITH
        state   <- [j \in Jobs |-> man[j].state],
        exposed <- origin,
        ordered <- [j \in Jobs |-> order[j].asked]

\* Polled states only move along the promised life cycle, nothing is exposed
\* without an order and a claim, and SUCCEEDED means there is a pull request.
ImplementsLifecycle == LC!Spec

-----------------------------------------------------------------------------
(* The inductive invariant behind the theorems of WorkerJobsProofs.        *)

Authorised(j) == j \in AutoJobs \/ order[j].asked

\* Whoever works on a job holds its lease, so it is alone.
LeaseHeld ==
    \A p \in Pids : proc[p].pc \notin {"dead", "lease"} => lease[JobOf(p)] = p

\* What each point of a child's program may rely on.
CodexChild(p) == LET j == JobOf(p) IN
    /\ man[j].state \in {"queued", "running", "failed", "cancelled"}
    /\ origin[j] = "none"
    /\ proc[p].pc = "note" => tree[j] = "clean"

PublishChild(p) == LET j == JobOf(p) IN
    /\ Authorised(j)
    /\ \/ man[j].state = "publishing"
       \/ man[j].state = "prepared" /\ man[j].pid = None
    /\ proc[p].pc \in {"commit", "push", "pr"} => GateOpen(man[j].blocked, order[j].forced)
    /\ proc[p].pc \in {"push", "pr", "succeed"} => tree[j] = "committed"
    /\ proc[p].pc = "pr" => origin[j] # "none"
    /\ proc[p].pc = "succeed" => origin[j] = "pr"

ChildOK(p) ==
    /\ proc[p].pc \in CodexPc => CodexChild(p)
    /\ proc[p].pc \in PublishPc => PublishChild(p)

\* A recorded hand-off belongs to an automatic job nobody publishes yet, and a
\* branch at GitHub is the commit of a job that was ordered to publish.
JobOK(j) ==
    /\ man[j].state = "prepared" /\ man[j].pid # None =>
        /\ j \in AutoJobs
        /\ \A p \in Pids : JobOf(p) = j => proc[p].pc \notin PublishPc
    /\ origin[j] # "none" =>
        /\ tree[j] = "committed"
        /\ Authorised(j)
        /\ \/ man[j].state \in {"publishing", "succeeded"}
           \/ man[j].state = "prepared" /\ man[j].pid = None
           \/ man[j].state = "cancelled" /\ j \in AutoJobs

ChildrenOK == \A p \in Pids : ChildOK(p)
JobsOK     == \A j \in Jobs : JobOK(j)

\* Every claim of a publication, made or about to be made, was ordered.
OrdersOK ==
    /\ \A j \in Jobs : man[j].state = "publishing" \/ intent[j].pending => Authorised(j)
    /\ disp.pc \in {"claim", "handoff"} => Authorised(disp.job)
    /\ publish.pc = "claim" => Authorised(publish.job)

\* A cancellation of a hand-off holds the event loop, so no order is in flight
\* and a publisher that started meanwhile still owns its claim.
CancelOK ==
    cancel.pc = "handoff" =>
        /\ cancel.job \in AutoJobs
        /\ disp.pc \in {"scan", "rescan", "reread", "cleanup"}
        /\ publish.pc = "idle"
        /\ \A p \in Pids : JobOf(p) = cancel.job /\ proc[p].pc \in PublishPc
                           => man[cancel.job].state = "publishing"

\* Every override on its way to a gate was asked for.
ForceOK ==
    /\ \A j \in Jobs : intent[j].override => order[j].forced
    /\ disp.override => disp.pc \notin {"scan", "rescan"} /\ order[disp.job].forced
    /\ \A p \in Pids : proc[p].override \/ proc[p].seen.override => order[JobOf(p)].forced

\* QUEUED leaves one execution to spend, however old the decision to requeue.
AttemptsOK ==
    /\ \A j \in Jobs : /\ man[j].attempts <= 2
                       /\ man[j].state \in {"absent", "queued"} => man[j].attempts <= 1
    /\ disp.pc = "requeue" => man[disp.job].attempts <= 1
    /\ disp.pc \in {"decide", "cleanup"} /\ disp.latest.state = "running" =>
            disp.latest.attempts = man[disp.job].attempts

\* Together they are inductive.
IInv ==
    /\ TypeOK
    /\ LeaseHeld
    /\ ChildrenOK
    /\ JobsOK
    /\ OrdersOK
    /\ CancelOK
    /\ ForceOK
    /\ AttemptsOK

-----------------------------------------------------------------------------
(* One heavy process at a time has an inductive invariant of its own.       *)

\* The children that work, or will work without being told again: they execute
\* Codex, they publish, or they go on to publish what they have prepared.
Executes(p) == \/ At(p, "lease") /\ proc[p].task = "codex"
               \/ proc[p].pc \in CodexPc \cup {"claim", "fail"}
Publishes(p) == \/ At(p, "lease") /\ proc[p].task = "publish"
                \/ proc[p].pc \in PublishPc \cup {"pubclaim", "pubfail"}
HandsOff(p) == At(p, "after") /\ JobOf(p) \in AutoJobs /\ man[JobOf(p)].state = "prepared"
Runs(p)     == Executes(p) \/ Publishes(p) \/ HandsOff(p)

\* The three windows in which two children can come to work at once are closed here.
\* The manager does not die between launching a child and recording it, nor between
\* closing a job and sending its signal.
RestartsBetween ==
    used'.restarts # used.restarts => disp.pc # "record" /\ cancel.pc # "kill"

\* The core orders what it was told is PREPARED, and get reports a hand-off as
\* PUBLISHING: nobody orders what is about to publish itself.
OrdersAfterHandoff ==
    publish.pc = "idle" /\ publish'.pc = "claim" =>
        \A p \in Pids : JobOf(p) = publish'.job => ~HandsOff(p)

\* No publisher is launched for a publication whose cancellation awaits the sandbox.
LaunchesElsewhere ==
    cancel.pc = "cleanup" =>
        \A p \in Pids : At(p, "dead") /\ proc'[p].pc = "lease" => proc'[p].job # cancel.job

Considerate == RestartsBetween /\ OrdersAfterHandoff /\ LaunchesElsewhere

CarefulSpec == Init /\ [][Next /\ Considerate]_vars

\* Nobody works for j.
Unserved(j) == \A p \in Pids : JobOf(p) = j => ~Runs(p)

\* The manifest names the child, unless the dispatcher is about to record it.
Named(p) == LET j == JobOf(p) IN
    \/ man[j].pid = p
    \/ man[j].pid = None /\ disp.pc = "record" /\ disp.pid = p /\ disp.job = j

\* A child that works is the process of an active manifest, or about to be killed.
NamedOK ==
    \A p \in Pids : LET j == JobOf(p) IN
        /\ Executes(p) => \/ man[j].state = "running" /\ Named(p)
                          \/ man[j].state = "cancelled" /\ cancel.pc = "kill" /\ cancel.job = j
        /\ Publishes(p) => man[j].state = "publishing" /\ Named(p)
        /\ At(p, "after") /\ j \in AutoJobs =>
              \/ man[j].state \in {"failed", "cancelled"}
              \/ man[j].state = "prepared" /\ man[j].pid = p

OneRuns == \A p, q \in Pids : Runs(p) /\ Runs(q) => p = q

\* The event loop is in one coroutine at a time.
Awaiting == disp.pc \in {"scan", "rescan", "reread", "cleanup"}
Waiting  == cancel.pc \in {"idle", "cleanup"}
TurnsOK ==
    /\ ~Waiting => Awaiting /\ publish.pc = "idle"
    /\ publish.pc # "idle" => Awaiting /\ Waiting

\* Where the dispatcher launches a child no other one works, and a job whose process it
\* missed at its first look has none.
LaunchOK ==
    /\ disp.pc \in {"rescan", "claim", "start", "handoff", "own", "spawn"} =>
          \A p \in Pids : ~Runs(p)
    /\ disp.pc \in {"reread", "cleanup", "decide", "lost", "unsafe", "requeue", "giveup"} =>
          Unserved(disp.job)
    /\ disp.pc = "spawn" => man[disp.job].state = Launched /\ man[disp.job].pid = None
    /\ disp.pc = "record" => \A p \in Pids : Runs(p) =>
          /\ p = disp.pid
          /\ man[disp.job].pid = None => man[disp.job].state = Launched

\* A cancellation has read the right pid, and has stopped it before it releases.
KillOK ==
    /\ cancel.pc \in {"handoff", "close", "stop", "drop", "kill"} =>
          \A p \in Pids : Runs(p) /\ JobOf(p) = cancel.job => p = cancel.pid
    /\ cancel.pc \in {"cleanup", "settle", "release", "finish"} => Unserved(cancel.job)

\* An order claims a job nobody works for.
ClaimOK == publish.pc # "idle" => Unserved(publish.job)

TurnInv == TypeOK /\ TurnsOK /\ NamedOK /\ OneRuns /\ LaunchOK /\ KillOK /\ ClaimOK
=============================================================================
