# Poo-IA: a TLA+ model of the assistant and its worker

Poo-IA is a single-owner assistant. A *core* process (`app/`) talks to Discord,
keeps everything durable in SQLite and runs one heavy job at a time. A *worker*
on the host (`worker/`) executes the change jobs the core sends over HTTP: it
launches detached child processes that run Codex in a git worktree and publish
the result to GitHub.

This directory holds TLA+ modules translated from that code, the TLC
configurations that check them, and theorems TLAPS proves about them. Modelled are the
worker's job life cycle, the core's way from a Discord message to a delivered and
remembered answer, the core's jobs from the queue to the announcement of their
outcome, the worker's retention, and the research view with the service
that builds it. Every safety property of the five is checked by TLC and proved, some of
them under a named assumption on the parameters; liveness is model-checked. The
inventory and the plan below say what comes next.

## 1. Inventory

### Worker (`worker/`)

| Component | State | Operations | Correct when |
|---|---|---|---|
| `manager.py` JobManager | dispatcher coroutine, one wake event, handlers in flight | `create`, `get`, `cancel`, `publish`, the dispatch loop, launches, retention call | one heavy process at a time; every accepted job comes to rest; cancel really stops work |
| `store.py`, `models.py` ManifestStore | one JSON manifest per job, replaced atomically under a file lock | `create_or_get`, `get`, `update(expected, transform)`, `scan` | a state only moves along the life cycle |
| `publication.py` | `publication.json` per job: override, pending | `save`, `is_pending`, `load_override`, `finish` | no accepted order is forgotten, none is executed twice |
| `job_process.py` | a detached process, its job lease | Codex then automatic publication, or `--publish-only` | the children of one job take turns |
| `codex_runner.py` | a worktree, the manifest | claim, prepare, edit, validate, record | a late child never touches a result |
| `github.py` | commit, branch, pull request | gate, commit, push, pull request, succeed or fail | a blocked change needs a forced order; retries are idempotent |
| `repositories.py` | git worktrees | `prepare`, `interrupted_retry_is_safe` | a retry starts from a clean tree |
| `processes.py` | process groups | `launch`, `is_job_process`, `terminate_group`, bounded capture | a pid is only signalled while it is that job's |
| `retention.py` | leases, trash, ages | sweep, delete | nothing in use is deleted, and nothing recorded is left of a job that is forgotten |
| `research_view.py` | published view, backup, staging directories, lock | build, the two renames, restore | a reader never sees half a view or an older repository; OpenCode starts after a new one |
| `validation*.py`, `brain_journal.py`, `documentation.py`, `api.py`, AWS queries | none that outlives a call, apart from files | external commands, HTTP routing, read-only queries | |

### Core (`app/`)

| Component | State | Operations | Correct when |
|---|---|---|---|
| `storage.py` SQLiteStorage | jobs, inbound requests, outbox, exchanges, generations | validated transitions, idempotent inserts | see below |
| `scheduler.py` PersistentScheduler | active execution, notification queue and retries | dispatch, recover, cancel, notify | one heavy job; the owner is told the outcome of every job |
| `orchestrator.py` | polling loop, wrapper PUBLISH jobs, session checkpoints | handle, execute, poll, synchronise, status, cancel | the local state agrees with the worker's in the end |
| `outbox.py`, `discord_bot.py` | pending parts, acknowledgements | enqueue, flush, acknowledge | every part is delivered, in order, at most one of them twice after a crash |
| `memory.py` | exchanges, generation | remember, forget, budgeted history | a forgotten exchange never comes back |
| `opencode_client.py` | one remote session | create, abort, delete | no session is leaked |
| `progress.py` | last phase per job | phase, heartbeat | no progress follows the final answer |
| `router.py`, `preflight.py`, `repository_scope.py`, `text.py` | none | pure functions on text | |
| `instance_lock.py`, migrations, configuration, clients | none of interest | start-up | |

### How they interact

The core stores a request and a job in SQLite, the scheduler executes one job at
a time, and the orchestrator creates the remote job (idempotent by job id), polls
its manifest and copies final states. A publication is a job of its own in the
core that orders `publish` at the worker. In the worker the manager and the
children share nothing but files: manifest, sidecar, lease and worktree. The manager
is a single thread whose coroutines interleave only at `await`; the children
interleave with everything. The children survive a restart of the manager
(`ops/poo-ia-worker.service`: `KillMode=process`, `Restart=on-failure`).

### Hard behaviours

Compare-and-set on the state alone (a job can leave a state and come back to
it); decisions on a manifest read before an `await`; pids recorded after the
launch, while the child already claims; a child that dies between two store
operations; a manager that dies between the manifest and the process it speaks
of; the unlocked read-modify-write of the publication sidecar; partial effects
at GitHub. In the core: a poll that fails, cleared acknowledgements, crashes
between a send and its acknowledgement, snapshots that go stale during a send.
`PROJECT.json` lists each at its line under "hazards".

## 2. Plan

1. **WorkerJobs**, **JobLifecycle** (done): the worker's jobs, refinement of the
   life cycle, type correctness and invariants as theorems.
2. **Delivery** with an abstract **ReliableDelivery** (modelled, checked and proved):
   registration, direct execution and its recovery, outbox parts, flush, acknowledgement,
   superseded progress, forgetting, crashes.
3. **CoreJobs** (modelled, checked and proved): SQLite job transitions, scheduler,
   polling, status, cancellation and publication jobs, composed with `JobLifecycle` as
   the worker.
4. **Retention** (modelled, checked and proved): the sweep against leases and
   interruptions, also of the processes whose work it deletes. **ResearchView** (modelled,
   checked and proved): the list and the lock, the renames with kills and failures, and
   the service.
5. Next: **SessionCleanup** (checkpointed OpenCode sessions and their deletion),
   **GitHubPublication** (the retry of one publication against a remote that applied an
   effect whose answer was lost), **Progress** (phases and heartbeats).
6. Pure algorithms as operators against reference definitions: message
   splitting, history budget, tail capture, routing order, AWS paging.
7. Theorems: every safety property and refinement a passing run checks has one. Each
   module of item 5 gets its invariant and theorems when it is written.

## 3. Modules

| Module | Contents |
|---|---|
| `JobLifecycle` | what the worker promises about a job: states a poller may see, what GitHub may show, what was ordered |
| `WorkerJobs` | manager, handlers, children, stores; properties; the inductive invariants `IInv` and `TurnInv` |
| `MCWorkerJobs` | instance for TLC: symmetry of process ids |
| `ReliableDelivery` | what a user reads: whole outputs, in order, repeated only at the end |
| `Delivery` | messages, requests, memory, the outbox and its delivery; properties |
| `MCDelivery` | instance for TLC: symmetry of coroutines, two bounds |
| `CoreJobs` | the rows of jobs, dispatcher, executions, questions and cancellations, notifications, HTTP to the worker (an instance of `JobLifecycle`); properties |
| `MCCoreJobs` | a bound for liveness |
| `Retention` | jobs that end, processes with leases and what they record, the sweep; properties |
| `ResearchView` | builds, renames, kills and failures, the service; properties |
| `ResearchViewProofs` | its inductive invariant, and all its safety properties from it |
| `WorkerJobsTypes` | lemmas about the helpers, type correctness |
| `WorkerJobsInvariant` | the invariant `IInv` of `WorkerJobs` is inductive |
| `WorkerJobsProofs` | the safety properties and the refinement of `JobLifecycle`, from `IInv`; `TurnInv` is inductive, and one heavy process at a time from it |
| `DeliveryProofs` | the inductive invariant of `Delivery`, its safety properties and the refinement of `ReliableDelivery` |
| `CoreJobsTypes` | the inductive invariant of `CoreJobs`, the kinds of its steps, type correctness |
| `CoreJobsProofs` | the rest of the induction, and the safety properties |
| `RetentionProofs` | the inductive invariant of `Retention`, and its safety properties |

### WorkerJobs and the code

* `man[j]` is the manifest: `state`, `process_pid` (`pid`), `run_attempts`
  (`attempts`), whether the worktree was recorded (`recorded`) and whether the
  validation or the diff budget blocks publication (`blocked`). "absent" means there
  is no manifest. Every `store.update` is one atomic step, as its file lock makes it,
  with the expected states as its guard.
* `intent[j]` is `publication.json`; it is created by `save_publication_request`
  and its `pending` cleared by `finish_publication_request`. A child's finish is two
  steps, `FinishRead` and `FinishWrite`, because nothing locks the file. The manager's
  own calls of it are one step: a child's write in between could only leave an
  older override in a request that is no longer pending.
* `tree[j]` is the worktree (absent, clean, with changes, committed) and `origin[j]` what
  GitHub has (nothing, the branch, a pull request).
* `proc[p]` is the child with process id `p`: its job, whether it is a Codex or a
  `--publish-only` child, its override, a program counter and the sidecar it
  read. `lease[j]` is the flock of `job_lease`.
* `disp` is the dispatcher with the manifest it read before its last await
  (`latest`), `cancel` and `publish` are handlers in flight. The manager is one
  thread: `LoopFree` says that no coroutine is between two awaits, and it guards
  every step that begins a new piece of work.
  A step without it continues such a piece; children interleave between
  these steps, the manager's coroutines do not.
* `order[j]` is history (what the core asked for) and `used` counts against the
  bounds. Neither influences a step, except for the bounds.

Each action is one piece of the code between two visible operations on shared
state; `PROJECT.json` "map" names the lines. Phases (`EDIT`, `VALIDATE`,
`DOCUMENT`) are merged with the update that follows them: they expect RUNNING too
and change nothing a property can see.

What the model leaves out on purpose: pids are not reused while a manifest names
them (`is_job_process` compares the command line, and the kernel cycles through its
range first); `terminate_group` takes effect at once (the real one waits
for the group before it answers); two job requests do not differ in anything but
their number and `publish`; retention deletes nothing here (it is a module of its own); one cancel and
one publish handler at a time (`publish` has a lock; a second cancel of the
same job finds it terminal or repeats a signal).

### Delivery and the code

* The database: `request[m]` is the row of `inbound_requests` (status, intent,
  `memory_generation`; `payload` is the conversation its job row carries), `arrival` the
  registered messages in order, `gen` the `memory_generation` of a conversation,
  `exchanges` the messages with a row in `exchanges`, and `out` the outbox in its order of
  creation, each output with its acknowledged parts and `completed_at` (`done`). `job[m]` is
  as much of the job as its outputs depend on.
* Discord: `shown` is what the user sees. Only the model reads it.
* The process: `task[w]` is an `on_message` coroutine, or `start()` recovering direct
  messages (`Starter`); `lock` the memory lock of each conversation; `flush` the one flush
  that holds the delivery lock, with the part it is sending and the set of the
  others it listed (`IsFirst` is the order of the list); `recovery` the messages `start()`
  has still to recover, taken in their order of registration (`Position`). All of it is lost in
  a `Crash`, and the database stays.
* The core is one asyncio thread. A program counter in `Synchronous` is a
  coroutine between two SQLite transactions with no await between them: no other step
  but a crash or an exception happens there (`LoopFree`). At "lock", "backend",
  "failing", "flush" and "flushing" a coroutine awaits.
* A chat awaits Ollama, a query stands for every other direct intent (AWS, status,
  cancel, clarify and the fixed answers): its answer is not remembered and its request is
  completed by a second transaction. A clarification is remembered and does not
  wait, which a chat covers. A job message is registered with its job and acknowledged.
* Idempotency keys are numbers; the text of an output is its number of parts. A key
  reused with other content is not reachable here, so `StorageConflictError` is
  left out (a job has one final notification in this model). The wake-up event of the
  delivery loop is left out: `wait_for_output` asks the outbox again every 30
  seconds, so a lost wake-up costs time only.
* `asyncio` locks are fair, the model lets any waiter go first. A receipt
  coroutine lives as long as its message waits for the backend.
* Expiry by age and the character budget of the history are not modelled, and a forget resets
  no active repository (routing is not modelled).

`Posts` maps the outbox to the outputs of `ReliableDelivery`: a waiting message may be withdrawn, an
output may close only with its last part, and a part is read again only before
anything newer.

### CoreJobs and the code

* `job[j]` is the row of table `jobs`: its state, whether `notification_completed_at` is set
  (`acked`) and, for a publication job, the job it publishes (`target`). `told[j]` is the
  outcome in the final outbox row of the request. The delivery of that row is `Delivery`.
* `remote`, `exposed` and `ordered` are `JobLifecycle`, instantiated as `W`: the worker
  takes only steps that module promises, and `WorkerJobs` is proved to implement it. `released`
  says that a publication failed, which is how `JobManager.get` tells a hand-off
  (reported as PUBLISHING) from a change that is PREPARED; `View` is that report.
* `run` is the execution of the dispatcher with the call it awaits or the answer it has
  (`seen`). `direct` is the status question or cancellation in flight: these run
  under the memory lock of the one conversation, so one at a time. `notice` is a call of
  `_notify_finished`, `queue` and `retry` are `_pending_notifications` and the retry timers.
* `transition_job` checks `Allowed` (`_ALLOWED_JOB_TRANSITIONS`), a copied outcome may take
  two transactions (`SyncPath`): `sync` holds the ones that are left, and a crash may come
  in between. `LoopFree` says no coroutine is in such a piece of code.
* `phase` is the start of the core: direct requests are recovered first
  (`Redo`), then the scheduler starts with the notifications that are due (`Due`) in order
  of arrival (`InOrder`), then Discord messages arrive. A `Crash` keeps SQLite and the worker and loses the rest.
* A call may fail before or after it took effect. A create or publish whose caller
  timed out or was cancelled may arrive later (`late`, `ArriveLate`).
* Polling compares states only, so a lost poll is `CallFails`. Text, artifacts and
  progress of a job are left out. RESEARCH jobs execute at
  OpenCode and not at the worker; they are not modelled. Neither are an
  orderly shutdown (`close`), of which a crash covers what it leaves in SQLite, and `wait_idle`.

Reading the code for this module shows some consequences that are by design but easily
missed: a status question that copies PREPARED into the row of an automatic job
takes that row out of what a restart resumes, so the outcome of its publication
is copied by the next question only; a failed poll makes the row FAILED for good while the
worker finishes; a job that is being
preflighted cannot be cancelled at the worker, which does not know it yet (404); and a
publication job that is resumed after a crash orders the publication again.

### Retention and the code

* `manifest[j]` has an age of one bit: "expired" once `retention_days` have passed since it
  ended. `before[j]` is the set of jobs with an earlier `terminal_time`, and `Batch` the first
  `Limit` candidates in that order.
* `lease[j]` is the file that has the name of the job's lease now, and `holder[f]` who has
  locked file `f`. A process or sweep keeps the file it opened, so an unlinked lease
  file can still be locked while a new one has its name. `Fresh` is the file a
  creating `open` makes.
* The worker makes the directory of a job for the log when it starts a process
  (`StartProcess`). The process waits for the lease, looks at the manifest and works, also
  when the job was cancelled meanwhile: `git worktree add -b` makes the branch (`AddBranch`)
  and then the worktree (`AddWorktree`), the manifest names the two afterwards and only
  while it is RUNNING (`Record`), and artifacts come last. The process may end, raise or be killed
  between any two of these (`Exit`).
* `recorded` has the jobs whose manifest names worktree and branch. `Refuses` is the check
  that what is on disk is what the manifest names: a worktree without a recorded branch is
  refused by every sweep. Without worktree and recorded branch `_cleanup_worktree` returns early
  (`RemoveWorktree` goes on to the trash), and a branch that nobody recorded stays.
* A sweep takes the retention lock, makes a batch, takes its jobs in turn, claims each job's lease without
  waiting, reads the manifest again and deletes the pieces one by one. Any piece may raise
  (`GiveUp`), after which the sweep goes on with the next job, and the worker may die between
  two (`Crash`). A job in `Stuck` has a worktree that is not provably its own though it was recorded.
* `Expire` waits until no process of the job waits for its lease. A waiting process
  gets the lease when the one before it exits, long before `retention_days`; a process that
  waited that long could lock the unlinked file and work next to one with the new file.

### ResearchView and the code

* `target` is the published directory, `backup` the `.previous` one beside it, `staging[b]` the
  temporary directory of a build. A directory is absent, partial or whole and holds
  one commit of each repository. `head` is what the repositories have; which files
  of them are exported is not modelled.
* A build lists the repositories (`List`), waits for the flock (`Acquire`), exports each listed
  repository's HEAD at that moment, writes its
  manifest, deletes an old backup, renames the target away, renames the staging
  directory to its place and deletes the backup. A deletion takes two steps, since a build
  can be cut short in it. `RaiseEarly` is an exception before the `try`, with nothing to undo,
  `Raise` any exception in it, `Undo` the except clause, `Kill` the end
  of the process at any point. `os.replace` refuses to replace a directory that has
  content (`Movable`).
* A repository is there once it has a commit: `Commit` clones it or moves its HEAD. The build
  refuses to go without the brain, which is there from the start. The removal of
  a repository is left out.
* `service` is the systemd unit with the build in its `ExecStartPre`: "starting" until the
  script ends, "down" if it raised or was killed, or OpenCode died, and "stopped" after a
  stop, which `Restart=on-failure` does not undo. The lock ends with the build (`Leave`, pc
  "exit"); `ExecStart` comes later and asks neither for the lock nor, by the `-` of
  `WorkingDirectory`, for the view, so that other builds run in between.
* `since` (the HEADs when the service began to start) and `last` (of each repository, the commit
  in the view that held it last) are history.

### Properties and runs

| Run | Instance | What it shows |
|---|---|---|
| `worker_queue` | `CarefulSpec`; 2 manual jobs, sandbox, 1 order, 2 pids, 1 crash, 1 restart | `OneHeavyProcess`, `CancelStopsWork`, `StoppedBeforeReleased` |
| `worker_restart` | 1 automatic job that may be ordered too, sandbox, 1 order, 1 crash, 1 restart | the worktree, attempt and gate invariants, `IInv`, the refinement |
| `worker_live` | 1 manual job, sandbox, 1 order, 1 crash, 1 restart | `EveryJobComesToRest` |
| `delivery_memory` | 2 chats and a forget, 3 deliveries, 2 parts, 1 crash, 1 loss | `TypeOK`, `MemoryIsWhatWasDelivered`, `ChatUsesLiveMemory`, `ForgetErasesOnlyOlder` |
| `delivery_order` | a chat and a query, or a job; 2 parts; 3 of: notices, exceptions (2), a crash, a loss | `RepeatsAreLostAcks`, `OneFinalOutput`, `NothingObsoleteIsSent`, `ImplementsReliableDelivery` |
| `delivery_live` | a chat and a query, or a job; 1 notice each, 1 crash, 1 exception | `EveryRequestIsAnswered` |
| `core_safety` | an automatic job and a publication job, 2 questions or cancellations, 1 failed call, 1 crash, 1 retry and 1 reclaim at the worker | `TypeOK`, `OutcomesAreReal`, `AcknowledgedIsTold`, `WritesAreAllowed`, `OneRunning`, `CancelledPublicationStops` |
| `core_live` | the same jobs, 1 question or 1 failed call, 1 crash, 1 retry and 1 reclaim | `EveryJobIsTold` |
| `retention` | 2 jobs, one of them stuck, 2 processes, 2 workers, batches of 2, 1 failed step, 1 crash | `TypeOK`, `NotUnderProcess`, `ForgottenLeavesNothing`, `OnlyExpiredIsDeleted`, `EveryExpiredIsForgotten` |
| `research_view` | the service's builder and one by hand, 2 repositories with 2 commits, one of them cloned at any time, 2 builds by hand or ends of OpenCode, 2 kills, 1 failure | `TypeOK`, `PublishedIsWhole`, `ViewSurvives`, `NeverBack`, `StartsOnNewest`, `ServiceComesUp` |

Why these bounds: two jobs are the least for mutual exclusion between jobs and for the
order of the queue, and no rule of the code compares three. Two pids let an orphan and
its replacement live side by side; a third one would need a second orphan, that is a
second crash of the manager. One crash and one restart put a failure at
every point of every behaviour; a second crash mostly repeats the recovery, whose
bound (`run_attempts < 2`) the single crash with one restart already reaches.
`worker_queue` has everything at once that can bring two processes together: the other job, the
order, the cancellation, the sandbox's awaits, the crash and the restart; only the three
windows of `Considerate` (below, under Proofs) are closed. Its jobs are manual, since an automatic
one takes the hand-off as well and the state space with the sandbox is then several times as
large; that case was checked without the crash, and is proved. The other invariants speak of
one job, and `worker_restart` and `worker_live` have one.

For the delivery: two parts are the least with a first that is not the last, and two
progress messages the least in which one replaces the other while it is being sent. Two
chats and a forget of one conversation give every order of exchange, forget and
prompt; another conversation shares nothing but the delivery lock (the program serves
one channel and one owner). Three coroutines let a message be delivered again while
another one works. `MCFewDisturbances` bounds notices, exceptions, crashes and
losses together, because each of them multiplies the others; `MCJobsAlone` keeps a job and a
direct message apart, which share the outbox but no request. One crash or loss
breaks off one send, and `RepeatsAreLostAcks` counts them. `delivery_memory` has no
exceptions: a forget that fails before it is executed and is delivered once more does erase
what came in between, as a repeated order of the user would.

For the core: a job and its publication are the least in which two rows speak of one
job of the worker; an automatic job has every path a manual one has and the hand-off.
Two questions let a cancellation meet what an earlier question copied. One failed call may
be any call, before or after its effect, or any notification.

For the retention: with two jobs one stuck job leaves one place of the batch, two
workers are an old one and the one that replaced it, and two processes let one hold the lease
another waits for, or one end anywhere and another find what it left. For the view: two builders are the least that wait for each
other, two repositories the least for a view that mixes commits, and two kills and a
failure let every leftover meet every way of leaving one. The second repository may be cloned
while a build waits with the older list.

Fairness of `WorkerJobs` (`FairSpec`): weak fairness of the dispatcher, of the handlers that
have begun, and of each child. The event loop runs ready callbacks in order, the loop
polls at least every `poll_interval_seconds`, and every external command of a child
runs under a timeout, so an enabled step happens. New requests,
crashes and restarts have no fairness: they need not happen. The editing loop of Codex is
part of its child's step, and it could edit for ever under weak fairness of the
child alone; once the tree has changes another edit is a stuttering step, so
the fairness forces the child on, as the Codex timeout does.

Fairness of `Delivery`: weak fairness of each coroutine, of the recovery, of each job and
of the delivery. Backends answer or their clients time out (`settings` bounds every request), the
scheduler executes and notifies jobs until their notification is stored, and the delivery loop
tries again after two seconds whatever failed. Losses are bounded: a part that
Discord refuses for ever is never given up by the code and stops everything behind it, so
no liveness property holds without that assumption (`delivery_live` has no losses; a
crash breaks off a send as well). New messages, crashes, exceptions, notices and losses have no
fairness. The run's specification `MCFairSpec` restricts `Next` by `MCJobsAlone` and
thereby only which messages arrive.

Fairness of `CoreJobs`: weak fairness of the running piece of code, of the
dispatcher, of the start, of the question in flight (every HTTP client has a timeout)
and of the worker's executions and publications, which `WorkerJobs` keeps going
(`worker_live`). Strong fairness of a retry timer that is due, and of the
dispatcher's beginning of a job: the dispatcher takes notifications before jobs, a
notification that fails waits `notification_retry_seconds`, and in that time the dispatcher
reaches the jobs. Questions, failures, crashes, retries and reclaims have no fairness.
`MCFairSpec` restricts `Next` to behaviours with a question or a failure and not both; with
both, the property fails as described below.

Fairness of `Retention`: weak fairness of the sweep as a whole (the dispatcher
starts it at intervals), of the steps of one sweep, and of a process's end (its
commands have timeouts). Failures and crashes are bounded, since a step that
always fails is never given up. Fairness of `ResearchView`: weak fairness of the service's start
after a failure (`Restart=on-failure`; a stopped service has none), of `ExecStart` and of the steps
of a build, strong fairness of the lock, which the kernel grants to one who waits.

### Where the code and its documentation disagree

Each is a run that TLC must find violated; the quotes are in `PROJECT.json`.

1. `found_two_heavy`: with the sandbox, cancel of a running publication stops its process, awaits
   the cleanup, and releases the claim afterwards (`src/worker/manager.py:157-167`). During the await
   the dispatcher finds the claim still PUBLISHING and without a process, and launches another publisher for it.
   Then the claim becomes PREPARED, nothing is active any more, and the dispatcher starts the
   queued job next to that publisher. Without the sandbox the await returns at once and
   the run finds nothing.
2. `found_prepared_cancelled`: a job is RUNNING when its cancellation is asked for, but PREPARED,
   announced, and being published by an order when the cancellation reaches the worker. The
   worker stops the publication and releases the job back to PREPARED; `scheduler.cancel`
   (`src/app/scheduler.py:199-207`) finds a row that is not terminal and moves it from PREPARED
   to CANCELLED. The remote job stays PREPARED, with its worktree.

The instances also show the following, which no run records. A name in parentheses is a
definition to check to see it, with the instance.

* A failed publication becomes PREPARED while its request is still pending, and the
  dispatcher can start it again before the child finishes the request
  (`RetriesAreOrdered`; one manual job, one order).
* Finishing an older request overwrites a newer one, which then runs without its
  override (`LatestOrderWins`; one job, two orders).
* A hand-off that was claimed, pushed and returned to PREPARED between cancel's read and its
  update is reported CANCELLED (`CancelledStaysPrivate`; one automatic job).
* A job that waits in the queue keeps the conversation in its payload, and works from
  it after the conversation was forgotten (`AnswersUseLiveMemory`; a chat, a forget and a
  job).
* A failure is recorded outside the memory lock: a message delivered twice, whose first
  coroutine fails, gets an error and an answer (`OneFinalOutput` with `Redelivery`
  and one exception).
* Each of the three windows that `Considerate` closes is needed. `worker_queue` without
  `RestartsBetween` violates `CancelStopsWork` and `OneHeavyProcess`: a restart between launching a
  child and recording its pid, or between marking a job CANCELLED and signalling its process,
  leaves a child that no manifest names. Without `LaunchesElsewhere` it violates
  `OneHeavyProcess` and `StoppedBeforeReleased` (finding 1). And with an automatic job
  beside a manual one and an order, without `OrdersAfterHandoff` it violates
  `OneHeavyProcess`: the order's cancellation releases the claim to PREPARED, another job starts,
  and the Codex child of the first, which has still to hand off, claims it again.
* A process that ends after `git worktree add -b` and before the manifest names the branch
  leaves it behind. If the worktree is there too, every sweep refuses it ("worktree is missing
  its owned branch"), for ever, and the job takes a place in every batch; if only
  the branch is, the job is forgotten and the branch stays
  (`\A j \in Jobs : manifest[j] = "absent" => j \notin branch` fails for `Retention`).
  docs/operations.md:442 lists artifacts, worktrees and local branches as what the retention
  deletes, without such an exception.
* A build that waited for the lock works from the list it made before
  (`src/worker/research_view.py:399`): it replaces a view that already holds a repository cloned
  meanwhile by one without it. Commits do not go back (`NeverBack`).
* The service's build gives up the lock before OpenCode starts. OpenCode may start while a
  build by hand is between its renames and there is no view, on which `WorkingDirectory=-`
  does not insist; this is why `StartsOnNewest` has two parts.
* A crash between an answer and the status of its request (`AnswerQuery`, `Settle` of
  `Delivery`) leaves the request PROCESSING for ever, and retention never deletes it.
* `EveryJobIsTold` fails under `FairSpec` with one question and one failed call: a status
  question, or the second look of a failed cancellation, copies the final state, the poll of the execution fails, and
  `_execute_one` announces nothing for a job that ended before its execution raised. The
  next start of the core announces it.
* The same transitions clear an acknowledgement when a row moves from PREPARED to SUCCEEDED by
  a question. The second text then meets the first one under the one final key,
  `StorageConflictError` is retried for ever, and the owner learns the outcome only
  from the publication job (`AcknowledgedIsTold` says this much, `EveryJobIsTold` allows
  it).
* A build of the research view that is killed while it deletes the backup, followed by one that
  fails, can restore a half deleted backup; this is why `PublishedIsWhole` and `ViewSurvives`
  bound kills and failures. A build by hand that is killed between the two renames
  leaves a running service without a view until the next build, though
  docs/operations.md:251 calls the replacement atomic. A killed build leaks its staging
  directory.
* With as many stuck jobs as a batch takes, `EveryExpiredIsForgotten` fails: the oldest
  candidates are always the same (`Limit = 1` with one stuck job).

`OneHeavyProcess`, `CancelStopsWork` and `StoppedBeforeReleased` hold outside the three windows of
`Considerate`, and `OneFinalOutput` without a second delivery or without an exception, which is what
the passing runs show and the theorems assume.

## 4. Proofs

### WorkerJobs

`WorkerJobsTypes` proves `Spec => []TypeOK` for any finite or infinite set of jobs and
processes and any bounds, from the named assumptions of `WorkerJobs` (job
numbers are naturals, `None` is neither a job nor a process, the bounds are
naturals). `TypeOK` is inductive by itself: the proof has one step per
action and in it one step for each group of variables the action changes. The
lemmas before it say what each helper (`Become`, `SaveIntent`, `Dies`, `Go`,
`TerminateGroup`) does to the types.

`WorkerJobsInvariant` proves `Spec => []IInv`. None of the properties below is
inductive as it stands: that Codex stays away from a recorded result, say, needs
that its child was the only one past the lease, that nobody but this child can have
moved the job out of RUNNING, and what the manager may do to the manifest of a
running job. `IInv` is `TypeOK` and seven parts, each proved by a lemma of
its own with one step per action:

* `LeaseHeld` (`LeaseStep`): a child past the lease holds it, so the children of one
  job exclude each other.
* `AttemptsOK` (`AttemptsStep`): QUEUED leaves one execution to spend, and a decision to
  requeue still speaks of the current number of attempts.
* `OrdersOK` (`OrdersStep`) and `ForceOK` (`ForceStep`): a claim on its way was
  authorised and an override on its way was asked for, wherever it waits (manifest,
  sidecar, coroutine, child, or the sidecar a child has read).
* `CancelOK` (`CancelStep`): the cancellation of a hand-off holds the event loop, so only
  a child can have moved the job between its read and its update.
* `ChildrenOK` and `JobsOK`: what the program of a child relies on at each point, and
  what is at GitHub. They are proved together. `Quiet` describes the steps
  that leave them alone (`QuietKeeps`); every step of the manager is quiet
  (`ManagerQuiet`), and so are the steps after which a child does not work. The remaining steps of
  a child touch its own job only (`ChildTouches`), and the lease makes the child
  the only one of that job (`Alone`, `OthersKeep`, `ChildKeeps`).

`WorkerJobsProofs` draws the consequences: `AtMostTwoRuns`, `EditsOnlyUnprepared`,
`CodexStartsClean`, `PublishedTreeIsFrozen`, `RefusedStaysPrivate`, the action
property `BlockedNeedsForce`, and `ImplementsLifecycle`. For the refinement every
update of a manifest is matched with a transition of `JobLifecycle`
(`BecomeLife`, `LifeOfManager`, `LifeOfChild`) and every other step with a
stutter. TLC checks `IInv` itself in `worker_restart`.

`OneHeavyProcess`, `CancelStopsWork` and `StoppedBeforeReleased` do not follow from `IInv`:
they are about children of different jobs, and about what the coroutines of the manager
have looked at. They are proved from a second invariant, `TurnInv`, of `CarefulSpec`, which is
`Spec` without the steps that `Considerate` excludes:

* `RestartsBetween`: the manager does not end between launching a child and recording its
  pid, nor between closing a manifest and signalling the process it named. These are two short
  pieces of code without an await; the code does not rule a kill out there, so this is an assumption.
* `OrdersAfterHandoff`: no order is accepted for a job whose child has still to hand it off to
  publication. `JobManager.get` reports such a job as PUBLISHING, and the core orders
  only what it was told is PREPARED; the worker itself does not check it.
* `LaunchesElsewhere`: while a cancellation awaits the sandbox's cleanup the dispatcher launches
  no publisher for that same claim. The code does not prevent this, which is finding 1. Without the
  sandbox it holds by itself.

The manager may otherwise be restarted, children crash, and jobs be created, cancelled and
ordered, automatic ones too, any number of times and at any moment, with or without the sandbox.
The list at the end of the last section says what happens in each window.
`TurnInv` is `TypeOK` and

* `TurnsOK`: at most one coroutine is in the middle of its work, and the others await: the
  dispatcher a cleanup or its next look, a cancellation a cleanup.
* `NamedOK`: a child that works, or will without being told again, is the process its
  manifest names, in the state that goes with its work. The exceptions are the pid that the
  dispatcher is about to record and the job that cancel is about to kill.
* `OneRuns`: there is one such child. "Will work" is what makes this inductive: a child that
  waits for the lease, or for its turn to hand off, counts.
* `LaunchOK`: nothing runs where the dispatcher launches. Its two looks, the active scan and
  `_has_active_process`, are what gives this.
* `KillOK`: cancel has read the pid of whatever runs for its job, and from the moment it has
  stopped it nothing runs for that job, over the cleanup and until the claim is released.
* `ClaimOK`: an order claims a job nobody works for.

`ChildAdvances` says what a step of a child makes of its manifest and itself, and `ChildFewer`
that it never makes another child run; `ManagerFewer` and `MovesFewer` say it of the
manager, with the launch as the exception (`SpawnKeeps`). On these rest one lemma per coroutine,
`DispatchKeeps`, `HandlerKeeps`, `CloseKeeps` and `KillKeeps`, and the two where `Considerate` is
used besides the launch, `RestartKeeps` and `ClaimKeeps`. TLC checked `TurnInv` on
instances of `CarefulSpec` with two jobs, none, one or both automatic, with the sandbox, a restart
and an order.

### Delivery

`DeliveryProofs` proves the safety properties of `Delivery` for any messages, conversations,
coroutines and bounds, from the named assumptions of the module (conversations
are disjoint, a message has one intent). The properties are about four things that
change at different moments: rows, acknowledgements, what was shown and what a
coroutine has read. `IInv` is `TypeOK` and

* `TasksOK`: a coroutine past the lock holds it, its message is registered, only one coroutine is
  between two transactions, and recovery is over before Discord delivers.
* `RequestsOK`: the rows of requests against the order of registration, the generations, and
  the outbox: a completed request has its answer.
* `OutboxOK`: parts are acknowledged from the first on, an output is done with its last, and a
  waiting message that is not done is the newest of its request, which has no answer.
* `ShownOK`: all that is acknowledged was shown, at most one part more of each output was,
  and nothing of an output before all earlier ones of the conversation were done.
* `FlushOK`: the part that is being sent is the next of its output and nothing older is
  pending; the rest of the snapshot has everything pending that must come before what it
  has. This is what a stale snapshot still guarantees after new rows and after
  waiting messages that were closed during the send.
* `MemoryOK`: exchanges are what was delivered of live chats, and a coroutine with the lock
  has read a part of the live exchanges.
* `CountOK`: parts shown are at most the acknowledged ones and one for each loss or crash.
* `FinalOK` and `ForgetOK`: who may still answer a request, and who executes a forget that is
  not answered.

The steps are sorted by what they do to the outbox and to the coroutines (`StepKinds`, `StoresNew`,
`SentEffect`, `OneMoves`), and each part of `IInv` has one lemma over these kinds.
`OneAnswer` assumes `Careful`: messages are delivered once, or no coroutine fails. The failure of one
coroutine is recorded outside the memory lock, and with both the property is false.
`ForgetsOnlyOlder` assumes `MaxFailures = 0`: a forget that failed is executed again after newer
messages. The other theorems have no hypothesis. `DeliveryIsReliable` maps every
step to a store, a read or a stutter of `ReliableDelivery` (`StoreMaps`, `SentMaps`, `BreakingMaps`): the
rest of `IInv` says that what is being sent is what a reliable reader may read
next.

### CoreJobs

`CoreJobsTypes` and `CoreJobsProofs` prove the safety properties of `CoreJobs` for any finite
set of jobs and any bounds. (Notifications are put in order of arrival, which
needs finitely many.) None of them is inductive: rows are written from answers the worker
gave several transactions ago. `IInv` is `TypeOK` and

* `RefsOK`: what the rows, the execution, the question in flight, the second half of a
  transition and the notifications refer to.
* `RowsOK`: one job runs; the worker knows no job before its row was claimed; a publication
  runs after its target.
* `HeardOK`: what an answer still says when it is used (`Heard`): a final state is still the
  state of the worker, PREPARED has at most moved on to a publication. A row that is
  PUBLISHING is between two transitions, or a crash was; then nobody holds an older answer.
* `AskedOK`: every cancellation was asked for, and a failure the worker does not have comes
  from a failed call.
* `ToldOK`: an acknowledged outcome is in the outbox, also between the two writes of a
  notification.
* `StopOK`: while no call failed, nothing crashed and no claim was taken again, only the execution of a
  publication job, or a hand-off, claims a publication; so a cancelled one is not claimed.

`WorkerChanges` and `RowChanges` list what a step can do to one job at the worker and to one row.
Each part of `IInv` is proved over these lists instead of over the actions. `TransitionsAreAllowed`
says that `transition_job` would accept every write of a state; no run checks it.

### Retention

`RetentionProofs` proves the safety properties of `Retention` for finitely many jobs, processes
and workers, and any bounds. (A lease file that nobody has open has to exist: `FreshFile`
counts them.) `IInv` is `TypeOK` and

* `SweepOK`: only the holder of the retention lock sweeps.
* `LeaseOK`: the file a process has open is the one its job's lease has, and the file a
  cleanup locked is too until it unlinks it. Locks belong to files and the properties are
  about jobs: this is the step between the two, and it is where an unlinked lease
  would go wrong.
* `DiskOK`: what a cleanup has deleted stays deleted until it is over, since its lease keeps
  the processes of the job out; of the branch it says so only if it was recorded.
* `ForgottenLeavesNothing` itself: no worktree, artifacts or trash, and no branch but one that
  the manifest did not name.

`NoCleanupUnderProcess`, `NothingIsLeft` and `OnlyTheOldIsDeleted` follow. They rest on the
guard of `Expire` (no process waits `retention_days` for a lease).

TLC has checked the `IInv` of `Delivery`, `CoreJobs` and `Retention` as an invariant
of instances like those of their runs.

### ResearchView

`ResearchViewProofs` proves every safety property of `ResearchView` for any repositories,
builders and bounds, from `BuildersAssumption` and `BoundsAssumption`. The lock alone
does not give them: what a reader may find depends on which directories
earlier builds left. `IInv` is

* `TypeOK` and `ServiceOK` (`TypeStep`), which need each other: a service that is
  down has no build under way.
* `WholeOK` (`WholeStep`): which directory is whole at which point of a build. Its
  weight is in two clauses for behaviours without kills and without failures: only a kill
  can leave a partial backup without a view, and only a failure can restore one.
* `OrderOK` (`OrderStep`), of each repository: the commit a build has exported lies between
  the one published last and the HEAD, since exports happen under the lock; the view, or
  the backup if there is none, holds the one published last or none. A build's list may be
  old and the order of two views as sets of repositories is not claimed.
* `StartOK` (`StartStep`): the service's own build has listed every repository there was at
  the start, what it has exported is not older than that, and once it is over ("exit")
  no later view is; without kills there is a view, or a build that will put one in place.
* `SurvivesOK` (`SurvivesStep`): where a whole view is after no disturbance and after one. The
  first clause is what makes the second inductive.

`PlacedBy`, `EndedBy` and `StartedBy` name the steps that can put a view in place, end the
service's build and let the service come up; `NeverGoesBack` and `StartsNewest` follow from them.

### Only model-checked

* Liveness, which is outside the prover's reach: `EveryJobComesToRest`, `EveryRequestIsAnswered`,
  `EveryJobIsTold`, `EveryExpiredIsForgotten`, `ServiceComesUp`.
* The findings: a counterexample is a behaviour of an instance.

Outside the assumptions `Considerate`, `Careful` and `MaxFailures = 0` nothing is claimed: there the
instances listed above violate these properties.

## 5. Not modelled

See `PROJECT.json` "components". In short: OpenCode sessions, RESEARCH jobs and progress (planned);
the age and budget of the memory, routing and text handling (pure functions, planned
as operators); validation and documentation of results (external commands whose verdict is
one bit of `WorkerJobs`); AWS queries (read-only); the retention of the core's database
(`prune`), the removal of a repository from the workspace, instance lock, migrations and configuration (start-up); the HTTP layer of the
worker beyond the handlers it calls.
