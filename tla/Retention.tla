------------------------------- MODULE Retention -------------------------------
(***************************************************************************)
(* How the worker forgets jobs (worker/retention.py): a sweep deletes the  *)
(* worktree, the branch, the artifacts, the lease file and at last the     *)
(* manifest of each job that ended long ago, while the detached processes  *)
(* of the jobs hold a lease on what they work on (worker/job_process.py).  *)
(*                                                                         *)
(* A lease is an flock, and an flock is on the file that was opened: after *)
(* the sweep has unlinked a lease file the same name is another file.      *)
(***************************************************************************)
EXTENDS Integers, FiniteSets

CONSTANTS
    Jobs,
    Processes,    \* detached processes of jobs
    Reapers,      \* worker processes that may sweep
    Stuck,        \* jobs whose worktree cannot be proved to be theirs
    Nobody,       \* holder of a free lock
    Limit,        \* DEFAULT_RETENTION_BATCH_SIZE
    MaxRuns,      \* bound: processes started
    MaxFailures,  \* bound: steps of a cleanup that raise
    MaxCrashes    \* bound: crashes of a worker

Owners == Processes \cup Reapers

\* As many files as can be open or in place at a time, and none.
Files  == 1..(Cardinality(Jobs) + Cardinality(Owners))
NoFile == 0

ASSUME OwnersAssumption ==
    /\ Nobody \notin Owners \cup Jobs /\ Processes \cap Reapers = {}
    /\ IsFiniteSet(Owners \cup Jobs)
ASSUME BoundsAssumption ==
    /\ Stuck \subseteq Jobs /\ Limit \in Nat \ {0}
    /\ {MaxRuns, MaxFailures, MaxCrashes} \subseteq Nat

VARIABLES
    manifest,   \* job -> "absent", "active", "ended", or "expired": ended long ago
    before,     \* job that ended -> the jobs with an earlier terminal_time
    worktree,   \* the jobs with a worktree
    branch,     \* the jobs with a local branch
    recorded,   \* the jobs whose manifest, the last one if it is gone, names both
    artifacts,  \* the jobs with a directory of artifacts
    trash,      \* the jobs with a directory in .trash
    lease,      \* job -> the file its lease has now
    holder,     \* file -> who has locked it
    sweeper,    \* who holds the lock of the retention
    process,    \* process -> its job, the lease file it opened, what it does
    reaper,     \* reaper -> what is left of its batch, its job, the lease file it
                \* opened, what it does
    used        \* how much of each bound has been spent

files == <<worktree, branch, artifacts, trash>>
vars  == <<manifest, recorded, before, files, lease, holder, sweeper, process, reaper, used>>

NoProcess == [job |-> Nobody, file |-> NoFile, does |-> "nothing"]
NoSweep   == [batch |-> {}, job |-> Nobody, file |-> NoFile, does |-> "nothing"]

Init ==
    /\ manifest = [j \in Jobs |-> "absent"]
    /\ before = [j \in Jobs |-> {}]
    /\ worktree = {} /\ branch = {} /\ artifacts = {} /\ trash = {} /\ recorded = {}
    /\ lease = [j \in Jobs |-> NoFile]
    /\ holder = [f \in Files |-> Nobody]
    /\ sweeper = Nobody
    /\ process = [p \in Processes |-> NoProcess]
    /\ reaper = [r \in Reapers |-> NoSweep]
    /\ used = [runs |-> 0, failures |-> 0, crashes |-> 0]

Spend(what, max) ==
    /\ used[what] < max
    /\ used' = [used EXCEPT ![what] = @ + 1]

\* A file that nobody has open and no lease is.
Fresh ==
    LET open == {process[p].file : p \in Processes} \cup {reaper[r].file : r \in Reapers}
                    \cup {lease[j] : j \in Jobs}
    IN  CHOOSE f \in Files : f \notin open

\* os.open with O_CREAT
Opened(j) == IF lease[j] = NoFile THEN Fresh ELSE lease[j]

-----------------------------------------------------------------------------
(* Jobs and their processes.                                               *)

\* create_or_get: a job that was forgotten is new again.
Create(j) ==
    /\ manifest[j] = "absent"
    /\ manifest' = [manifest EXCEPT ![j] = "active"]
    /\ recorded' = recorded \ {j}
    /\ UNCHANGED <<before, files, lease, holder, sweeper, process, reaper, used>>

\* The worker makes the directory of a job for the log and starts a process for it, after
\* a restart perhaps one too many; the process opens the lease file and waits for the lock.
StartProcess(p, j) ==
    /\ process[p] = NoProcess /\ manifest[j] = "active"
    /\ Spend("runs", MaxRuns)
    /\ process' = [process EXCEPT ![p] = [job |-> j, file |-> Opened(j), does |-> "wait"]]
    /\ lease' = [lease EXCEPT ![j] = Opened(j)]
    /\ artifacts' = artifacts \cup {j}
    /\ UNCHANGED <<manifest, recorded, before, worktree, branch, trash, holder, sweeper, reaper>>

TakeLease(p) ==
    LET f == process[p].file IN
    /\ process[p].does = "wait" /\ holder[f] = Nobody
    /\ holder' = [holder EXCEPT ![f] = p]
    /\ process' = [process EXCEPT ![p].does =
            IF manifest[process[p].job] = "active" THEN "work" ELSE "exit"]
    /\ UNCHANGED <<manifest, recorded, before, files, lease, sweeper, reaper, used>>

\* A process works, be its job still wanted or not: `git worktree add -b` makes the branch,
\* then the worktree; a branch that is there is taken.
AddBranch(p) ==
    LET j == process[p].job IN
    /\ process[p].does = "work" /\ j \notin worktree \cup branch
    /\ branch' = branch \cup {j}
    /\ UNCHANGED <<manifest, recorded, before, worktree, artifacts, trash, lease, holder,
                   sweeper, process, reaper, used>>

AddWorktree(p) ==
    LET j == process[p].job IN
    /\ process[p].does = "work" /\ j \in branch \ worktree
    /\ worktree' = worktree \cup {j}
    /\ UNCHANGED <<manifest, recorded, before, branch, artifacts, trash, lease, holder,
                   sweeper, process, reaper, used>>

\* Both go into the manifest afterwards, if the job still runs.
Record(p) ==
    LET j == process[p].job IN
    /\ process[p].does = "work" /\ manifest[j] = "active" /\ j \in worktree \ recorded
    /\ recorded' = recorded \cup {j}
    /\ UNCHANGED <<manifest, before, files, lease, holder, sweeper, process, reaper, used>>

WriteArtifacts(p) ==
    LET j == process[p].job IN
    /\ process[p].does = "work" /\ j \in recorded
    /\ artifacts' = artifacts \cup {j}
    /\ UNCHANGED <<manifest, recorded, before, worktree, branch, trash, lease, holder, sweeper,
                   process, reaper, used>>

Work(p) == AddBranch(p) \/ AddWorktree(p) \/ Record(p) \/ WriteArtifacts(p)

\* A job ends by its process, by a cancellation, or because its process died.
End(j) ==
    /\ manifest[j] = "active"
    /\ manifest' = [manifest EXCEPT ![j] = "ended"]
    /\ before' = [before EXCEPT ![j] = {i \in Jobs : manifest[i] \in {"ended", "expired"}}]
    /\ UNCHANGED <<recorded, files, lease, holder, sweeper, process, reaper, used>>

\* The process ends, by itself or by an exception, or is killed, at any point.
Exit(p) ==
    /\ process[p].does \in {"work", "exit", "wait"}
    /\ process' = [process EXCEPT ![p] = NoProcess]
    /\ holder' = [f \in Files |-> IF holder[f] = p THEN Nobody ELSE holder[f]]
    /\ UNCHANGED <<manifest, recorded, before, files, lease, sweeper, reaper, used>>

\* retention_days pass.  By then no process waits for the lease any more: it got it
\* when the one before it exited.  One that holds it may still be there.
Expire(j) ==
    /\ manifest[j] = "ended"
    /\ \A p \in Processes : process[p].job = j => process[p].does # "wait"
    /\ manifest' = [manifest EXCEPT ![j] = "expired"]
    /\ UNCHANGED <<recorded, before, files, lease, holder, sweeper, process, reaper, used>>

-----------------------------------------------------------------------------
(* A sweep (prune_once).                                                   *)

\* Mutant: whatever has ended is old enough.
IsOver(j) == manifest[j] \in {"ended", "expired"}

\* is_expired_terminal
IsExpired(j) == manifest[j] = "expired"

Candidates == {j \in Jobs : IsExpired(j)}

\* The oldest of them, in the order of terminal_time.
Batch == {j \in Candidates : Cardinality(before[j] \cap Candidates) < Limit}

Becomes(r, does) == reaper' = [reaper EXCEPT ![r].does = does]

\* Only one worker sweeps.
Sweep(r) ==
    /\ reaper[r] = NoSweep /\ sweeper = Nobody /\ Candidates # {}
    /\ sweeper' = r
    /\ reaper' = [reaper EXCEPT ![r].batch = Batch, ![r].does = "next"]
    /\ UNCHANGED <<manifest, recorded, before, files, lease, holder, process, used>>

EndSweep(r) ==
    /\ reaper[r].does = "next" /\ reaper[r].batch = {}
    /\ sweeper' = Nobody
    /\ reaper' = [reaper EXCEPT ![r] = NoSweep]
    /\ UNCHANGED <<manifest, recorded, before, files, lease, holder, process, used>>

\* Mutant: the lease is not waited for and not looked at.
LeaseIgnored(f) == TRUE

LeaseFree(f) == holder[f] = Nobody

\* job_lease(blocking=False) for the oldest job that is left.
Claim(r, j) ==
    LET f == Opened(j) IN
    /\ reaper[r].does = "next" /\ j \in reaper[r].batch
    /\ before[j] \cap reaper[r].batch = {}
    /\ lease' = [lease EXCEPT ![j] = f]
    /\ IF LeaseFree(f)
       THEN /\ holder' = [holder EXCEPT ![f] = r]
            /\ reaper' = [reaper EXCEPT ![r] =
                    [batch |-> @.batch \ {j}, job |-> j, file |-> f, does |-> "check"]]
       ELSE /\ reaper' = [reaper EXCEPT ![r].batch = @ \ {j}]
            /\ UNCHANGED holder
    /\ UNCHANGED <<manifest, recorded, before, files, sweeper, process, used>>

\* Mutant: the sweep ends with the first job it has left.
ReleaseAll(r) ==
    /\ holder' = [holder EXCEPT ![reaper[r].file] = Nobody]
    /\ reaper' = [reaper EXCEPT ![r].batch = {}, ![r].job = Nobody, ![r].file = NoFile,
                                ![r].does = "next"]

\* Leave the job and its lease.
Release(r) ==
    /\ holder' = [holder EXCEPT ![reaper[r].file] = Nobody]
    /\ reaper' = [reaper EXCEPT ![r].job = Nobody, ![r].file = NoFile, ![r].does = "next"]

\* The manifest is read again under the lease.
Check(r) ==
    /\ reaper[r].does = "check"
    /\ IF IsExpired(reaper[r].job)
       THEN Becomes(r, "worktree") /\ UNCHANGED holder
       ELSE Release(r)
    /\ UNCHANGED <<manifest, recorded, before, files, lease, sweeper, process, used>>

\* A worktree is deleted only if the manifest names it and it is provably the job's.
Refuses(j) == j \in worktree /\ (j \in Stuck \/ j \notin recorded)

\* Without a worktree and a recorded branch there is nothing to delete, or to look for.
RemoveWorktree(r) ==
    LET j == reaper[r].job IN
    /\ reaper[r].does = "worktree" /\ ~Refuses(j)
    /\ worktree' = worktree \ {j}
    /\ Becomes(r, IF j \in recorded THEN "branch" ELSE "trash")
    /\ UNCHANGED <<manifest, recorded, before, branch, artifacts, trash, lease, holder, sweeper,
                   process, used>>

RemoveBranch(r) ==
    /\ reaper[r].does = "branch"
    /\ branch' = branch \ {reaper[r].job}
    /\ Becomes(r, "trash")
    /\ UNCHANGED <<manifest, recorded, before, worktree, artifacts, trash, lease, holder, sweeper,
                   process, used>>

\* Mutant: the trash is emptied before the artifacts come, not after.
EmptyTrashBefore(r) ==
    /\ reaper[r].does \in {"trash", "trashed"}
    /\ trash' = IF reaper[r].does = "trash" THEN trash \ {reaper[r].job} ELSE trash
    /\ Becomes(r, IF reaper[r].does = "trash" THEN "artifacts" ELSE "lease")
    /\ UNCHANGED <<manifest, recorded, before, worktree, branch, artifacts, lease, holder, sweeper,
                   process, used>>

\* What an interrupted cleanup left in the trash goes first: the artifacts are moved
\* to its place.
EmptyTrash(r) ==
    /\ reaper[r].does \in {"trash", "trashed"}
    /\ trash' = trash \ {reaper[r].job}
    /\ Becomes(r, IF reaper[r].does = "trash" THEN "artifacts" ELSE "lease")
    /\ UNCHANGED <<manifest, recorded, before, worktree, branch, artifacts, lease, holder, sweeper,
                   process, used>>

MoveArtifacts(r) ==
    LET j == reaper[r].job IN
    /\ reaper[r].does = "artifacts"
    /\ trash' = IF j \in artifacts THEN trash \cup {j} ELSE trash
    /\ artifacts' = artifacts \ {j}
    /\ Becomes(r, "trashed")
    /\ UNCHANGED <<manifest, recorded, before, worktree, branch, lease, holder, sweeper, process, used>>

\* _cleanup_job_lease_file: the lock stays on the file that is gone.
UnlinkLease(r) ==
    /\ reaper[r].does = "lease"
    /\ lease' = [lease EXCEPT ![reaper[r].job] = NoFile]
    /\ Becomes(r, "manifest")
    /\ UNCHANGED <<manifest, recorded, before, files, holder, sweeper, process, used>>

\* delete_if_expired_terminal
DeleteManifest(r) ==
    LET j == reaper[r].job IN
    /\ reaper[r].does = "manifest"
    /\ IF IsExpired(j)
       THEN /\ manifest' = [manifest EXCEPT ![j] = "absent"]
            /\ before' = [i \in Jobs |-> IF i = j THEN {} ELSE before[i] \ {j}]
       ELSE UNCHANGED <<manifest, before>>
    /\ Release(r)
    /\ UNCHANGED <<recorded, files, lease, sweeper, process, used>>

Cleaning == {"worktree", "branch", "trash", "artifacts", "trashed", "lease", "manifest"}

\* A step raises, always so if the worktree is refused; the sweep goes on with the next job.
GiveUp(r) ==
    /\ reaper[r].does \in Cleaning
    /\ \/ Spend("failures", MaxFailures)
       \/ /\ reaper[r].does = "worktree" /\ Refuses(reaper[r].job)
          /\ UNCHANGED used
    /\ Release(r)
    /\ UNCHANGED <<manifest, recorded, before, files, lease, sweeper, process>>

\* The worker dies; the kernel gives up its locks.
Crash(r) ==
    /\ reaper[r] # NoSweep
    /\ Spend("crashes", MaxCrashes)
    /\ reaper' = [reaper EXCEPT ![r] = NoSweep]
    /\ holder' = [f \in Files |-> IF holder[f] = r THEN Nobody ELSE holder[f]]
    /\ sweeper' = Nobody
    /\ UNCHANGED <<manifest, recorded, before, files, lease, process>>

Reap(r) ==
    \/ EndSweep(r) \/ (\E j \in Jobs : Claim(r, j)) \/ Check(r)
    \/ RemoveWorktree(r) \/ RemoveBranch(r) \/ EmptyTrash(r) \/ MoveArtifacts(r)
    \/ UnlinkLease(r) \/ DeleteManifest(r)

Refused(r) == reaper[r].does = "worktree" /\ Refuses(reaper[r].job) /\ GiveUp(r)

Next ==
    \/ \E j \in Jobs : Create(j) \/ End(j) \/ Expire(j)
    \/ \E p \in Processes :
        TakeLease(p) \/ Work(p) \/ Exit(p) \/ \E j \in Jobs : StartProcess(p, j)
    \/ \E r \in Reapers : Sweep(r) \/ Reap(r) \/ GiveUp(r) \/ Crash(r)

\* The dispatcher sweeps at intervals, a sweep goes on, a process exits: its commands
\* have timeouts.
Fairness ==
    /\ WF_vars(\E r \in Reapers : Sweep(r))
    /\ \A r \in Reapers : WF_vars(Reap(r) \/ Refused(r))
    /\ \A p \in Processes : WF_vars(Exit(p))

Spec     == Init /\ [][Next]_vars
FairSpec == Spec /\ Fairness

-----------------------------------------------------------------------------
(* Properties.                                                             *)

\* Types, and who works or cleans up under a lease holds its lock.
TypeOK ==
    /\ manifest \in [Jobs -> {"absent", "active", "ended", "expired"}]
    /\ before \in [Jobs -> SUBSET Jobs]
    /\ worktree \subseteq Jobs /\ branch \subseteq Jobs
    /\ artifacts \subseteq Jobs /\ trash \subseteq Jobs /\ recorded \subseteq Jobs
    /\ lease \in [Jobs -> Files \cup {NoFile}]
    /\ holder \in [Files -> Owners \cup {Nobody}]
    /\ sweeper \in Reapers \cup {Nobody}
    /\ process \in [Processes -> [job: Jobs \cup {Nobody}, file: Files \cup {NoFile},
                                  does: {"nothing", "wait", "work", "exit"}]]
    /\ reaper \in [Reapers -> [batch: SUBSET Jobs, job: Jobs \cup {Nobody},
                               file: Files \cup {NoFile},
                               does: {"nothing", "next", "check"} \cup Cleaning]]
    /\ used \in [runs: Nat, failures: Nat, crashes: Nat]
    /\ \A p \in Processes : process[p].does \in {"work", "exit"} =>
        holder[process[p].file] = p
    /\ \A r \in Reapers : reaper[r].does \in {"check"} \cup Cleaning =>
        holder[reaper[r].file] = r /\ sweeper = r

\* No process works on a job while a sweep cleans it up, whichever lease files the two
\* have locked.
NotUnderProcess ==
    \A r \in Reapers, p \in Processes :
        reaper[r].does \in Cleaning /\ process[p].does = "work"
        => process[p].job # reaper[r].job

\* A job is forgotten only when nothing of it is left on disk but, if its process came to
\* an end between making the branch and recording it, that branch; over crashes and
\* failures of sweeps between any two steps.
ForgottenLeavesNothing ==
    \A j \in Jobs : manifest[j] = "absent" =>
        /\ j \notin worktree \cup artifacts \cup trash
        /\ j \in branch => j \notin recorded

\* Nothing of a job goes before the job has been over for retention_days.
OnlyExpiredIsDeleted ==
    [][\A j \in Jobs :
        \/ j \in worktree /\ j \notin worktree'
        \/ j \in branch /\ j \notin branch'
        \/ j \in artifacts /\ j \notin artifacts'
        \/ manifest[j] # "absent" /\ manifest'[j] = "absent"
        => manifest[j] = "expired"]_vars

\* The jobs every sweep begins with in vain.
InTheWay == {j \in Jobs : manifest[j] = "expired" /\ Refuses(j)}

\* Whatever was interrupted before, a job that expired is forgotten at last, unless its
\* worktree is refused or those of the jobs that are fill a batch.
EveryExpiredIsForgotten ==
    \A j \in Jobs :
        manifest[j] = "expired"
        ~> manifest[j] = "absent" \/ j \in InTheWay \/ Cardinality(InTheWay) >= Limit
=============================================================================
