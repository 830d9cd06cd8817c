-------------------------------- MODULE CoreJobs --------------------------------
(***************************************************************************)
(* How the Poo-IA core runs its jobs: the rows of the SQLite table jobs    *)
(* (app/storage.py), the scheduler that executes one job at a time and     *)
(* announces how each one ended (app/scheduler.py), and the execution,     *)
(* status and cancellation of worker jobs (app/orchestrator.py).           *)
(*                                                                         *)
(* The worker is what JobLifecycle promises of it; the core knows it by    *)
(* HTTP calls whose request or answer may be lost or late.                 *)
(*                                                                         *)
(* The core is one asyncio thread: an action is what a coroutine does      *)
(* between two awaits, or up to a SQLite transaction after which a crash   *)
(* of the process makes a difference.                                      *)
(***************************************************************************)
EXTENDS Integers, Sequences, FiniteSets, Functions

CONSTANTS
    CodexJobs,    \* jobs of kind CODEX, numbered in the order of arrival
    PublishJobs,  \* jobs of kind PUBLISH, numbered in the same order
    AutoJobs,     \* CODEX jobs whose payload says publish
    None,         \* Python's None
    MaxDirects,   \* bound: status questions and cancellations
    MaxFailures,  \* bound: failed calls and failed notifications
    MaxCrashes,   \* bound: crashes of the core
    MaxRetries,   \* bound: executions the worker starts again
    MaxReclaims   \* bound: publications the worker starts again by itself

Jobs == CodexJobs \cup PublishJobs

ASSUME JobsAssumption ==
    /\ Jobs \subseteq Nat /\ IsFiniteSet(Jobs) /\ CodexJobs \cap PublishJobs = {}
    /\ AutoJobs \subseteq CodexJobs /\ None \notin Jobs
ASSUME BoundsAssumption ==
    {MaxDirects, MaxFailures, MaxCrashes, MaxRetries, MaxReclaims} \subseteq Nat

VARIABLES
    \* the SQLite database
    job,       \* job -> state, notification_completed_at (acked), target
    told,      \* job -> the outcome in its final outbox row
    \* the worker
    remote,    \* job -> the state of its manifest
    exposed,   \* job -> what GitHub shows of it
    ordered,   \* job -> its publication has been ordered
    released,  \* job -> a publication failed: PREPARED with an error
    late,      \* requests whose caller is gone and that may still arrive
    \* the core process
    phase,     \* what of its start the core has behind it
    run,       \* the execution of the dispatcher's active job
    direct,    \* the status question or cancellation in flight
    sync,      \* transitions that follow in the running piece of code
    notice,    \* the call of _notify_finished in progress
    queue,     \* _pending_notifications
    retry,     \* the jobs with a notification retry timer
    \* history and bounds
    asked,     \* the jobs the owner wanted to cancel
    used       \* how much of each bound has been spent

db     == <<job, told>>
worker == <<remote, exposed, ordered, released>>
core   == <<phase, run, direct, sync, notice, queue, retry>>
ghosts == <<asked, used>>
vars   == <<job, told, remote, exposed, ordered, released, late, phase, run,
            direct, sync, notice, queue, retry, asked, used>>

W == INSTANCE JobLifecycle WITH Jobs <- CodexJobs, state <- remote

-----------------------------------------------------------------------------
LocalStates == {"absent", "queued", "running", "prepared", "publishing",
                "succeeded", "failed", "cancelled"}

\* JobStatus.is_terminal
Terminal == {"succeeded", "failed", "cancelled"}

\* _NOTIFIABLE_JOB_STATES
Notifiable == Terminal \cup {"prepared"}

\* _ALLOWED_JOB_TRANSITIONS
Allowed == [s \in LocalStates |->
    CASE s = "absent"     -> {"queued"}
      [] s = "queued"     -> {"running", "cancelled"}
      [] s = "running"    -> {"prepared", "succeeded", "failed", "cancelled"}
      [] s = "prepared"   -> {"publishing", "failed", "cancelled"}
      [] s = "publishing" -> {"succeeded", "failed", "cancelled"}
      [] OTHER            -> {}]

\* What an execution awaits, or has been answered.  "error": it raised;
\* "stopped": scheduler.cancel ended it.
Calls   == {"lookup", "create", "publish", "claim", "poll"}
RunPc   == Calls \cup {"idle", "start", "answered", "done"}
Seen    == LocalStates \cup {"error", "stopped", "none"}
Run     == [job: Jobs \cup {None}, pc: RunPc, seen: Seen, keep: BOOLEAN]
NoRun   == [job |-> None, pc |-> "idle", seen |-> "none", keep |-> FALSE]

Direct  == [job: Jobs \cup {None}, op: {"none", "status", "cancel", "recheck"},
            pc: {"idle", "again", "call", "answered", "settle"}, seen: LocalStates \cup {"none"}]
Idle    == [job |-> None, op |-> "none", pc |-> "idle", seen |-> "none"]

NoSync   == [job |-> None, rest |-> <<>>, keep |-> FALSE]
NoNotice == [job |-> None, pc |-> "idle"]

Late == [op: {"create", "publish"}, job: CodexJobs]

\* The job of the worker a job of the core is about.
Target(j) == job[j].target

\* No coroutine is in the middle of a piece of code.
LoopFree == sync.rest = <<>> /\ notice.pc = "idle" /\ direct.pc # "settle"

\* What JobManager.get reports: the hand-off between Codex and the automatic
\* publication is shown as PUBLISHING.
IsHandoff(j) == remote[j] = "prepared" /\ j \in AutoJobs /\ ~released[j]
\* Mutant: the hand-off is shown as it is.
RawView(j) == remote[j]

View(j) == IF IsHandoff(j) THEN "publishing" ELSE remote[j]

\* Mutant: only jobs that ended are announced after a restart.
DueEnded == {j \in Jobs : job[j].state \in Terminal /\ ~job[j].acked}

\* The rows of list_jobs_pending_notification.
Due == {j \in Jobs : job[j].state \in Notifiable /\ ~job[j].acked}

\* A set of jobs in order of arrival.
InOrder(S) == {q \in [1..Cardinality(S) -> S] : \A i, k \in DOMAIN q : i < k => q[i] < q[k]}

Init ==
    /\ job = [j \in Jobs |-> [state |-> "absent", acked |-> FALSE, target |-> None]]
    /\ told = [j \in Jobs |-> "none"]
    /\ W!Init
    /\ released = [j \in CodexJobs |-> FALSE]
    /\ late = {}
    /\ phase = "serving"
    /\ run = NoRun /\ direct = Idle /\ sync = NoSync /\ notice = NoNotice
    /\ queue = <<>> /\ retry = {}
    /\ asked = {}
    /\ used = [directs |-> 0, failures |-> 0, crashes |-> 0, retries |-> 0,
               reclaims |-> 0]

Spend(what, max) ==
    /\ used[what] < max
    /\ used' = [used EXCEPT ![what] = @ + 1]

-----------------------------------------------------------------------------
(* SQLite transactions.                                                    *)

\* Mutant: a new state keeps the acknowledgement of the old one.
MovedAcked(r, s, keep) == [r EXCEPT !.state = s]

\* transition_job: every new state needs a new acknowledgement, unless the caller
\* preserves the one there is.
Moved(r, s, keep) == [r EXCEPT !.state = s, !.acked = keep /\ @]

\* Mutant: a prepared job becomes SUCCEEDED at once.
DirectPath(s, seen) ==
    IF s \in Terminal \/ seen \notin Notifiable \/ s = seen THEN <<>> ELSE <<seen>>

\* _synchronize_worker_manifest: how a job gets from its state to what the worker
\* reported.  A state the worker may still leave is kept out of SQLite.
SyncPath(s, seen) ==
    IF s \in Terminal \/ seen \notin Notifiable \/ s = seen THEN <<>>
    ELSE CASE s = "prepared" /\ seen = "succeeded" -> <<"publishing", seen>>
           [] s = "queued" /\ seen # "cancelled"   -> <<"running", seen>>
           [] OTHER                                -> <<seen>>

\* The first transition of a path; Continue makes the second.
Follow(j, path, keep) ==
    IF path = <<>> THEN UNCHANGED <<job, sync>>
    ELSE /\ job' = [job EXCEPT ![j] = Moved(@, Head(path), keep)]
         /\ sync' = IF Len(path) = 1 THEN NoSync
                    ELSE [job |-> j, rest |-> Tail(path), keep |-> keep]

Synchronize(j, seen, keep) == Follow(j, SyncPath(job[j].state, seen), keep)

Continue ==
    /\ sync.rest # <<>>
    /\ Follow(sync.job, sync.rest, sync.keep)
    /\ UNCHANGED <<phase, told, worker, late, run, direct, notice, queue, retry, ghosts>>

-----------------------------------------------------------------------------
(* Notifications (_notify_finished).  Its lock is never contended: nothing *)
(* is awaited under it.                                                    *)

Announce(j) == notice' = [job |-> j, pc |-> "tell"]

\* _schedule_notification_retry, after any exception
TryAgain(j) ==
    /\ retry' = retry \cup {j}
    /\ notice' = NoNotice

\* _on_job_finished stores the outcome under the one final key of the request;
\* other content under that key is a StorageConflictError.
Tell ==
    LET j == notice.job IN
    /\ notice.pc = "tell" /\ sync.rest = <<>>
    /\ \/ /\ job[j].acked
          /\ retry' = retry \ {j}
          /\ notice' = NoNotice
          /\ UNCHANGED told
       \/ /\ ~job[j].acked /\ told[j] \in {"none", job[j].state}
          /\ told' = [told EXCEPT ![j] = job[j].state]
          /\ notice' = [notice EXCEPT !.pc = "mark"]
          /\ UNCHANGED retry
       \/ /\ ~job[j].acked /\ told[j] \notin {"none", job[j].state}
          /\ TryAgain(j)
          /\ UNCHANGED told
    /\ UNCHANGED <<phase, job, worker, late, run, direct, sync, queue, ghosts>>

\* mark_job_notification_completed refuses a job that has no outcome.
Mark ==
    LET j == notice.job IN
    /\ notice.pc = "mark"
    /\ \/ /\ job[j].state \in Notifiable
          /\ job' = [job EXCEPT ![j].acked = TRUE]
          /\ retry' = retry \ {j}
          /\ notice' = NoNotice
       \/ /\ job[j].state \notin Notifiable
          /\ TryAgain(j)
          /\ UNCHANGED job
    /\ UNCHANGED <<phase, told, worker, late, run, direct, sync, queue, ghosts>>

\* The outbox or the acknowledgement cannot be written.
NotifyFails ==
    /\ notice.pc \in {"tell", "mark"} /\ sync.rest = <<>> /\ ~job[notice.job].acked
    /\ Spend("failures", MaxFailures)
    /\ TryAgain(notice.job)
    /\ UNCHANGED <<phase, db, worker, late, run, direct, sync, queue, asked>>

\* _retry_notification_after
RetryDue(j) ==
    /\ LoopFree /\ j \in retry
    /\ retry' = retry \ {j}
    /\ queue' = IF j \in Range(queue) THEN queue ELSE Append(queue, j)
    /\ UNCHANGED <<phase, db, worker, late, run, direct, sync, notice, ghosts>>

-----------------------------------------------------------------------------
(* The dispatcher (_dispatch_loop, _execute_one).                          *)

\* A notification goes before any job.
TakeNotice ==
    /\ LoopFree /\ phase # "recovering" /\ run.pc = "idle" /\ queue # <<>>
    /\ queue' = Tail(queue)
    /\ IF job[Head(queue)].acked THEN UNCHANGED notice ELSE Announce(Head(queue))
    /\ UNCHANGED <<phase, db, worker, late, run, direct, sync, retry, ghosts>>

\* Mutant: queued jobs go before the one that was claimed before a restart.
QueuedFirst(j) ==
    LET active == {k \in Jobs : job[k].state \in {"running", "publishing"}}
        queued == {k \in Jobs : job[k].state = "queued"}
        ready  == IF queued # {} THEN queued ELSE active
    IN  j \in ready /\ \A k \in ready : j <= k

\* _next_runnable: a job already claimed, else the oldest in the queue
Runnable(j) ==
    LET active == {k \in Jobs : job[k].state \in {"running", "publishing"}}
        queued == {k \in Jobs : job[k].state = "queued"}
        ready  == IF active # {} THEN active ELSE queued
    IN  j \in ready /\ \A k \in ready : j <= k

Begin(j) ==
    /\ LoopFree /\ phase # "recovering" /\ run.pc = "idle" /\ queue = <<>>
    /\ Runnable(j)
    /\ job' = IF job[j].state = "queued"
              THEN [job EXCEPT ![j] = Moved(@, "running", FALSE)] ELSE job
    /\ run' = [NoRun EXCEPT !.job = j, !.pc = "start"]
    /\ UNCHANGED <<phase, told, worker, late, direct, sync, notice, queue, retry, ghosts>>

\* _execute_heavy_job up to its first call; a publication remembers whether the
\* outcome of its target had been announced.
Start ==
    /\ LoopFree /\ run.pc = "start"
    /\ run' = IF run.job \in CodexJobs
              THEN [run EXCEPT !.pc = "lookup"]
              ELSE [run EXCEPT !.pc = "publish", !.keep = job[Target(run.job)].acked]
    /\ UNCHANGED <<phase, db, worker, late, direct, sync, notice, queue, retry, ghosts>>

Answered(state) == run' = [run EXCEPT !.pc = "answered", !.seen = state]
Raised          == run' = [run EXCEPT !.pc = "done", !.seen = "error"]

\* GET: an unknown job is created next, after its preflight.
Look ==
    LET t == Target(run.job) IN
    /\ run.pc \in {"lookup", "poll"}
    /\ IF remote[t] = "absent" THEN run' = [run EXCEPT !.pc = "create"]
                               ELSE Answered(View(t))
    /\ UNCHANGED <<phase, db, worker, late, direct, sync, notice, queue, retry, ghosts>>

\* POST /v1/jobs/codex is idempotent.  It may show the hand-off itself, which the
\* caller does not take for an outcome either.
Create ==
    LET t == Target(run.job) IN
    /\ run.pc = "create"
    /\ IF remote[t] = "absent"
       THEN W!Accept(t) /\ Answered("queued")
       ELSE UNCHANGED <<remote, exposed, ordered>> /\ Answered(View(t))
    /\ UNCHANGED <<phase, db, released, late, direct, sync, notice, queue, retry, ghosts>>

\* POST publish: the order becomes durable first ...
OrderPublication ==
    LET t == Target(run.job) IN
    /\ run.pc = "publish"
    /\ \/ /\ W!OrderPublication(t)
          /\ run' = [run EXCEPT !.pc = "claim"]
       \/ /\ remote[t] \in {"publishing", "succeeded"}
          /\ Answered(remote[t])
          /\ UNCHANGED <<remote, exposed, ordered>>
       \/ /\ remote[t] \notin {"prepared", "publishing", "succeeded"}
          /\ Raised
          /\ UNCHANGED <<remote, exposed, ordered>>
    /\ UNCHANGED <<phase, db, released, late, direct, sync, notice, queue, retry, ghosts>>

\* ... and then the manifest is claimed, unless another publisher was faster.
ClaimPublication ==
    LET t == Target(run.job) IN
    /\ run.pc = "claim"
    /\ \/ W!Claim(t) /\ Answered("publishing")
       \/ /\ remote[t] \in {"publishing", "succeeded"}
          /\ Answered(remote[t])
          /\ UNCHANGED <<remote, exposed, ordered>>
       \/ /\ remote[t] \notin {"prepared", "publishing", "succeeded"}
          /\ Raised
          /\ UNCHANGED <<remote, exposed, ordered>>
    /\ UNCHANGED <<phase, db, released, late, direct, sync, notice, queue, retry, ghosts>>

\* _wait_for_worker: an outcome is copied and ends the execution, anything else is
\* polled again.  (An automatic job shows PREPARED only with the error of a
\* failed publication, which ends the wait too.)
Digest ==
    /\ LoopFree /\ run.pc = "answered"
    /\ IF run.seen \in Notifiable
       THEN /\ Synchronize(Target(run.job), run.seen, run.keep)
            /\ run' = [run EXCEPT !.pc = "done"]
       ELSE /\ run' = [run EXCEPT !.pc = "poll", !.seen = "none"]
            /\ UNCHANGED <<job, sync>>
    /\ UNCHANGED <<phase, told, worker, late, direct, notice, queue, retry, ghosts>>

\* A request that is on its way when its caller goes away is lost or late.
Abandoned(pc, t) ==
    IF pc \in {"create", "publish"} THEN {{}, {[op |-> pc, job |-> t]}} ELSE {{}}

\* The request or its answer is lost, or the preflight of a new job fails.
CallFails ==
    /\ run.pc \in Calls \cup {"answered"}
    /\ Spend("failures", MaxFailures)
    /\ \E x \in Abandoned(run.pc, Target(run.job)) : late' = late \cup x
    /\ Raised
    /\ UNCHANGED <<phase, db, worker, direct, sync, notice, queue, retry, asked>>

\* The JobOutcome of an execution: a publication whose change stays PREPARED failed.
Outcome(j, seen) ==
    IF j \in PublishJobs /\ seen = "prepared" THEN "failed" ELSE seen

\* _apply_outcome; an outcome that does not fit makes the job FAILED.
OutcomePath(s, outcome) ==
    IF s = outcome THEN <<>>
    ELSE IF s = "prepared" /\ outcome = "succeeded" THEN <<"publishing", outcome>>
    ELSE IF outcome \in Allowed[s] THEN <<outcome>> ELSE <<"failed">>

\* Mutant: an execution that raised leaves its job as it is.
EndingUnlessRaised(s, j) ==
    CASE run.seen = "error"   -> <<>>
      [] run.seen = "stopped" -> <<"cancelled">>
      [] OTHER                -> OutcomePath(s, Outcome(j, run.seen))

\* What an execution that ended makes of its job in state s.
Ending(s, j) ==
    CASE run.seen = "error"   -> <<"failed">>
      [] run.seen = "stopped" -> <<"cancelled">>
      [] OTHER                -> OutcomePath(s, Outcome(j, run.seen))

\* The dispatcher goes on with what the execution left.  Nothing is announced
\* for a job that ended before its execution was stopped or raised.
Finish ==
    LET j == run.job
        s == job[j].state
    IN
    /\ LoopFree /\ run.pc = "done"
    /\ run' = NoRun
    /\ \/ /\ s \in Terminal /\ run.seen \in {"error", "stopped"}
          /\ UNCHANGED <<job, sync, notice>>
       \/ /\ s \in Terminal /\ run.seen \notin {"error", "stopped"}
          /\ Announce(j)
          /\ UNCHANGED <<job, sync>>
       \/ /\ s \notin Terminal
          /\ Follow(j, Ending(s, j), FALSE)
          /\ Announce(j)
    /\ UNCHANGED <<phase, told, worker, late, direct, queue, retry, ghosts>>

Dispatcher ==
    \/ TakeNotice \/ Start \/ Look \/ Create \/ OrderPublication
    \/ ClaimPublication \/ Digest \/ Finish
    \/ \E j \in Jobs : Begin(j)

-----------------------------------------------------------------------------
(* Status and cancellation (_status_text, _cancel_text).  They run under    *)
(* the memory lock of the conversation: one at a time, and no job message   *)
(* is registered meanwhile.                                                 *)

Free == phase = "serving" /\ LoopFree /\ direct = Idle

SubmitCodex(j) ==
    /\ Free /\ j \in CodexJobs /\ job[j].state = "absent"
    /\ \A k \in Jobs : k < j => job[k].state # "absent"
    /\ job' = [job EXCEPT ![j] = [state |-> "queued", acked |-> FALSE, target |-> j]]
    /\ UNCHANGED <<told, worker, late, core, ghosts>>

\* "Publish this job": its state is not looked at.
SubmitPublish(p, j) ==
    /\ Free /\ p \in PublishJobs /\ job[p].state = "absent"
    /\ \A k \in Jobs : k < p => job[k].state # "absent"
    /\ j \in CodexJobs /\ job[j].state # "absent"
    /\ job' = [job EXCEPT ![p] = [state |-> "queued", acked |-> FALSE, target |-> j]]
    /\ UNCHANGED <<told, worker, late, core, ghosts>>

AskStatus(j) ==
    /\ Free /\ job[j].state # "absent"
    /\ Spend("directs", MaxDirects)
    /\ direct' = [Idle EXCEPT !.job = j, !.op = "status", !.pc = "call"]
    /\ UNCHANGED <<phase, db, worker, late, run, sync, notice, queue, retry, asked>>

\* scheduler.cancel: a queued job never reached a backend.
CancelQueued(j) ==
    /\ Free /\ job[j].state = "queued"
    /\ Spend("directs", MaxDirects)
    /\ asked' = asked \cup {j}
    /\ job' = [job EXCEPT ![j] = Moved(@, "cancelled", FALSE)]
    /\ Announce(j)
    /\ UNCHANGED <<phase, told, worker, late, run, direct, sync, queue, retry>>

AskCancel(j) ==
    /\ Free /\ job[j].state \in {"running", "prepared", "publishing"}
    /\ Spend("directs", MaxDirects)
    /\ asked' = asked \cup {j}
    /\ direct' = [Idle EXCEPT !.job = j, !.op = "cancel", !.pc = "call"]
    /\ UNCHANGED <<phase, db, worker, late, run, sync, notice, queue, retry>>

\* _remote_cancel_result reads the job once more when a cancellation raised.
Recheck == direct' = [direct EXCEPT !.op = "recheck", !.pc = "call", !.seen = "none"]

\* What becomes of a status question or cancellation that raised.
DirectRaises == IF direct.op = "cancel" THEN Recheck ELSE direct' = Idle

Learn(state) == direct' = [direct EXCEPT !.pc = "answered", !.seen = state]

\* GET for a status question or after a failed cancellation
Inquire ==
    LET t == Target(direct.job) IN
    /\ direct.pc = "call" /\ direct.op \in {"status", "recheck"}
    /\ IF remote[t] = "absent" THEN DirectRaises ELSE Learn(View(t))
    /\ UNCHANGED <<phase, db, worker, late, run, sync, notice, queue, retry, ghosts>>

\* JobManager.cancel: active work ends CANCELLED, a publication goes back to
\* PREPARED, what has ended is reported; anything else is a 404 or a 409.
ServeCancel ==
    LET t == Target(direct.job) IN
    /\ direct.pc = "call" /\ direct.op = "cancel"
    /\ \/ /\ remote[t] \in {"queued", "running"} \/ IsHandoff(t)
          /\ W!Cancel(t)
          /\ Learn("cancelled")
          /\ UNCHANGED released
       \/ /\ W!Release(t)
          /\ released' = [released EXCEPT ![t] = TRUE]
          /\ Learn("prepared")
       \/ /\ remote[t] \in Terminal
          /\ Learn(remote[t])
          /\ UNCHANGED worker
       \/ /\ remote[t] = "absent" \/ (remote[t] = "prepared" /\ ~IsHandoff(t))
          /\ Recheck
          /\ UNCHANGED worker
    /\ UNCHANGED <<phase, db, late, run, sync, notice, queue, retry, ghosts>>

DirectFails ==
    /\ direct.pc \in {"call", "answered"}
    /\ Spend("failures", MaxFailures)
    /\ DirectRaises
    /\ UNCHANGED <<phase, db, worker, late, run, sync, notice, queue, retry, asked>>

\* _status_text and _remote_cancel_result copy what they read.
EndInquiry ==
    /\ LoopFree /\ direct.pc = "answered" /\ direct.op \in {"status", "recheck"}
    /\ Synchronize(Target(direct.job), direct.seen, FALSE)
    /\ direct' = Idle
    /\ UNCHANGED <<phase, told, worker, late, run, notice, queue, retry, ghosts>>

\* Mutant: a publication counts as cancelled whatever the worker answered.
AnyAnswer(j, seen) == TRUE

\* _cancel_external_job raises when a publication got through after all.
CancelAccepted(j, seen) == j \in PublishJobs => seen \in {"cancelled", "prepared"}

EndCancel ==
    LET j == direct.job IN
    /\ LoopFree /\ direct.pc = "answered" /\ direct.op = "cancel"
    /\ Synchronize(Target(j), direct.seen, FALSE)
    /\ IF CancelAccepted(j, direct.seen)
       THEN direct' = [direct EXCEPT !.pc = "settle"]
       ELSE Recheck
    /\ UNCHANGED <<phase, told, worker, late, run, notice, queue, retry, ghosts>>

\* The rest of scheduler.cancel: the job is CANCELLED unless it ended meanwhile,
\* and its execution is stopped at the call it awaits.
Settle ==
    LET j    == direct.job
        stop == run.job = j /\ run.pc # "done"
    IN
    /\ direct.pc = "settle" /\ sync.rest = <<>>
    /\ job' = IF job[j].state \in Terminal THEN job
              ELSE [job EXCEPT ![j] = Moved(@, "cancelled", FALSE)]
    /\ run' = IF stop THEN [run EXCEPT !.pc = "done", !.seen = "stopped"] ELSE run
    /\ \E x \in IF stop THEN Abandoned(run.pc, Target(j)) ELSE {{}} : late' = late \cup x
    /\ Announce(j)
    /\ direct' = Idle
    /\ UNCHANGED <<phase, told, worker, sync, queue, retry, ghosts>>

-----------------------------------------------------------------------------
(* The worker, and the network.                                            *)

\* A late request arrives after all; nobody reads its answer.
ArriveLate(c) ==
    /\ c \in late
    /\ late' = late \ {c}
    /\ \/ c.op = "create" /\ W!Accept(c.job)
       \/ c.op = "publish" /\ W!OrderPublication(c.job)
       \/ /\ remote[c.job] # IF c.op = "create" THEN "absent" ELSE "prepared"
          /\ UNCHANGED <<remote, exposed, ordered>>
    /\ UNCHANGED <<db, released, core, ghosts>>

WorkerExecutes(j) ==
    /\ W!Start(j) \/ W!Prepare(j) \/ W!Fail(j)
    /\ UNCHANGED <<db, released, late, core, ghosts>>

\* An interrupted execution is queued once more.
WorkerRetries(j) ==
    /\ W!Retry(j)
    /\ Spend("retries", MaxRetries)
    /\ UNCHANGED <<db, released, late, core, asked>>

\* The automatic publication takes its hand-off.
WorkerHandsOff(j) ==
    /\ IsHandoff(j) /\ W!Claim(j)
    /\ UNCHANGED <<db, released, late, core, ghosts>>

\* An order whose publication failed, or was never claimed, is taken up again.
WorkerReclaims(j) ==
    /\ ~IsHandoff(j) /\ W!Claim(j)
    /\ Spend("reclaims", MaxReclaims)
    /\ UNCHANGED <<db, released, late, core, asked>>

WorkerPublishes(j) ==
    /\ \/ W!Expose(j) /\ UNCHANGED released
       \/ W!Complete(j) /\ UNCHANGED released
       \/ W!Release(j) /\ released' = [released EXCEPT ![j] = TRUE]
    /\ UNCHANGED <<db, late, core, ghosts>>

\* The core dies: SQLite is all it has, and the question in flight is in it.
Crash ==
    /\ used.crashes < MaxCrashes
    /\ used' = [used EXCEPT !.crashes = @ + 1]
    /\ \E x \in Abandoned(run.pc, Target(run.job)) : late' = late \cup x
    /\ phase' = "recovering"
    /\ direct' = IF direct = Idle THEN Idle
                 ELSE [Idle EXCEPT !.job = direct.job, !.pc = "again",
                          !.op = IF direct.op = "recheck" THEN "cancel" ELSE direct.op]
    /\ run' = NoRun /\ sync' = NoSync /\ notice' = NoNotice
    /\ queue' = <<>> /\ retry' = {}
    /\ UNCHANGED <<db, worker, asked>>

\* _recover_direct_message runs before the scheduler starts.  No cancellation that
\* awaited a call was of a queued job.
Redo ==
    LET j == direct.job IN
    /\ LoopFree /\ direct.pc = "again"
    /\ \/ /\ direct.op = "cancel" /\ job[j].state \in Terminal
          /\ direct' = Idle
       \/ /\ direct.op = "cancel" => job[j].state \notin Terminal
          /\ direct' = [direct EXCEPT !.pc = "call"]
    /\ UNCHANGED <<phase, db, worker, late, run, sync, notice, queue, retry, ghosts>>

\* scheduler.start; the dispatcher is the first to get the loop.
SchedulerStarts ==
    /\ LoopFree /\ phase = "recovering" /\ direct = Idle
    /\ phase' = "starting"
    /\ \E q \in InOrder(Due \ Range(queue)) : queue' = queue \o q
    /\ UNCHANGED <<db, worker, late, run, direct, sync, notice, retry, ghosts>>

\* Messages arrive only after the dispatcher has had to wait.
Connect ==
    /\ LoopFree /\ phase = "starting"
    /\ \/ run.pc \in Calls
       \/ run.pc = "idle" /\ queue = <<>> /\ ~\E j \in Jobs : Runnable(j)
    /\ phase' = "serving"
    /\ UNCHANGED <<db, worker, late, run, direct, sync, notice, queue, retry, ghosts>>

Startup == Redo \/ SchedulerStarts \/ Connect
Segment == Continue \/ Tell \/ Mark \/ Settle

Directs ==
    \/ Inquire \/ ServeCancel \/ EndInquiry \/ EndCancel
    \/ \E j \in Jobs : AskStatus(j) \/ CancelQueued(j) \/ AskCancel(j)

Next ==
    \/ Segment \/ Dispatcher \/ Directs \/ Startup
    \/ NotifyFails \/ CallFails \/ DirectFails \/ Crash
    \/ \E j \in Jobs : SubmitCodex(j) \/ RetryDue(j)
    \/ \E p \in PublishJobs, j \in CodexJobs : SubmitPublish(p, j)
    \/ \E c \in late : ArriveLate(c)
    \/ \E j \in CodexJobs :
        \/ WorkerExecutes(j) \/ WorkerRetries(j) \/ WorkerHandsOff(j)
        \/ WorkerReclaims(j) \/ WorkerPublishes(j)

Spec == Init /\ [][Next]_vars

\* The loop goes on while a coroutine can; a call ends, for every client has a
\* timeout; a retry timer is due some time and leaves the dispatcher the time to
\* begin a job before the next one is; the worker keeps JobLifecycle going.
Fairness ==
    /\ WF_vars(Segment) /\ WF_vars(Dispatcher) /\ WF_vars(Startup)
    /\ SF_vars(\E j \in Jobs : Begin(j))
    /\ WF_vars(Inquire \/ ServeCancel \/ EndInquiry \/ EndCancel)
    /\ \A j \in Jobs : SF_vars(RetryDue(j))
    /\ \A j \in CodexJobs :
        /\ WF_vars(WorkerExecutes(j)) /\ WF_vars(WorkerHandsOff(j))
        /\ WF_vars(WorkerPublishes(j))

FairSpec == Spec /\ Fairness

-----------------------------------------------------------------------------
(* Properties.                                                             *)

TypeOK ==
    /\ job \in [Jobs -> [state: LocalStates, acked: BOOLEAN,
                         target: CodexJobs \cup {None}]]
    /\ told \in [Jobs -> Notifiable \cup {"none"}]
    /\ remote \in [CodexJobs -> LocalStates]
    /\ exposed \in [CodexJobs -> {"none", "branch", "pr"}]
    /\ ordered \in [CodexJobs -> BOOLEAN]
    /\ released \in [CodexJobs -> BOOLEAN]
    /\ late \subseteq Late
    /\ phase \in {"recovering", "starting", "serving"}
    /\ run \in Run /\ direct \in Direct
    /\ sync \in [job: Jobs \cup {None}, rest: Seq(LocalStates), keep: BOOLEAN]
    /\ notice \in [job: Jobs \cup {None}, pc: {"idle", "tell", "mark"}]
    /\ queue \in Seq(Jobs) /\ retry \subseteq Jobs
    /\ asked \subseteq Jobs
    /\ used \in [directs: Nat, failures: Nat, crashes: Nat, retries: Nat,
                 reclaims: Nat]

\* What a row of the core says of a job is so at the worker, however old the answers
\* are that the row was made from: a success has its pull request, a prepared change
\* exists, a failure happened there or is that of a call, and a cancellation was
\* asked for.
OutcomesAreReal ==
    /\ \A j \in CodexJobs :
        /\ job[j].state = "succeeded" => remote[j] = "succeeded" /\ exposed[j] = "pr"
        /\ job[j].state = "prepared"  =>
            remote[j] \in {"prepared", "publishing", "succeeded"}
        /\ job[j].state = "failed"    => remote[j] = "failed" \/ used.failures > 0
        /\ job[j].state = "cancelled" => j \in asked
    /\ \A p \in PublishJobs :
        /\ job[p].state = "succeeded" => remote[Target(p)] = "succeeded"
        /\ job[p].state = "cancelled" => p \in asked \/ Target(p) \in asked

\* A row whose notification is acknowledged has had exactly its outcome stored for
\* the owner; only a prepared job may have moved on since, and then a publication
\* job has the rest to tell.
AcknowledgedIsTold ==
    \A j \in Jobs : job[j].acked =>
        \/ told[j] = job[j].state
        \/ /\ told[j] = "prepared"
           /\ \E p \in PublishJobs : Target(p) = j /\ job[p].state # "queued"

Writable(s, path) == path # <<>> => Head(path) \in Allowed[s]

\* Whatever an execution, a status question and a cancellation read of one job, and
\* whichever copies it first: transition_job never refuses what the next one makes of
\* its own answer, and no path is left half way in a state that has no way on.
WritesAreAllowed ==
    /\ LoopFree /\ run.pc = "answered" =>
        LET t == Target(run.job)
        IN  Writable(job[t].state, SyncPath(job[t].state, run.seen))
    /\ LoopFree /\ direct.pc = "answered" =>
        LET t == Target(direct.job)
        IN  Writable(job[t].state, SyncPath(job[t].state, direct.seen))
    /\ sync.rest # <<>> => Writable(job[sync.job].state, sync.rest)

\* At most one job is RUNNING in SQLite, before and after a restart.
OneRunning == \A j, k \in Jobs :
    job[j].state = "running" /\ job[k].state = "running" => j = k

\* Unless a call failed, the core crashed or the worker took the order up again, a
\* publication job that is CANCELLED leaves no publication behind that still runs or
\* got through, but for the one an automatic job does of itself.
CancelledPublicationStops ==
    \A p \in PublishJobs :
        /\ job[p].state = "cancelled"
        /\ Target(p) \in AutoJobs => released[Target(p)]
        /\ \A q \in PublishJobs \ {p} : Target(q) # Target(p)
        /\ used.failures + used.crashes + used.reclaims = 0
        => remote[Target(p)] \notin {"publishing", "succeeded"}

\* The owner is told an outcome of every job, over crashes, lost calls and failed
\* notifications, and the notification is acknowledged unless the one final outbox
\* row of the job was stored for an earlier outcome.
EveryJobIsTold ==
    \A j \in Jobs : job[j].state # "absent" ~>
        told[j] # "none" /\ (job[j].acked \/ told[j] # job[j].state)

\* A prepared job does not become cancelled (docs/operations.md:180).  It does when
\* the cancellation reaches the worker during the job's publication.
PreparedIsKept ==
    [][\A j \in CodexJobs :
        job[j].state = "prepared" => job'[j].state # "cancelled"]_vars
=============================================================================
