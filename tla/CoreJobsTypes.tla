---------------------------- MODULE CoreJobsTypes ----------------------------
(***************************************************************************)
(* The inductive invariant of CoreJobs, the kinds of steps the core and    *)
(* the worker take and what each kind leaves alone, and the proof that the *)
(* state keeps its type, for any jobs and bounds.                          *)
(***************************************************************************)
EXTENDS CoreJobs, FiniteSetTheorems, TLAPS

Known(j) == j \in Jobs /\ job[j].state # "absent"

\* What the rows refer to: jobs are registered in their order, a job of Codex is about
\* itself, a publication about an older job of Codex.
RowRefs ==
    /\ \A j, k \in Jobs : j < k /\ job[k].state # "absent" => job[j].state # "absent"
    /\ \A j \in Jobs : job[j].state = "absent" => job[j].target = None /\ ~job[j].acked
    /\ \A c \in CodexJobs : job[c].state # "absent" => job[c].target = c
    /\ \A p \in PublishJobs : job[p].state # "absent" =>
        /\ job[p].target \in CodexJobs /\ job[p].target < p
        /\ job[job[p].target].state # "absent"

\* What the execution, the question in flight, the second half of a transition and
\* the notifications refer to, and what their fields hold at each point.
RunRefs ==
    /\ IF run.pc = "idle" THEN run = NoRun ELSE Known(run.job)
    /\ run.pc \in {"lookup", "create"} => run.job \in CodexJobs
    /\ run.pc \in {"publish", "claim"} => run.job \in PublishJobs
    /\ run.pc = "answered" => run.seen \in LocalStates
    /\ run.pc = "done" => run.seen \in Notifiable \cup {"error", "stopped"}
    /\ run.pc \notin {"answered", "done"} => run.seen = "none"
DirectRefs ==
    /\ IF direct.pc = "idle" THEN direct = Idle ELSE Known(direct.job)
    /\ direct.pc # "idle" => direct.op # "none"
    /\ direct.pc \in {"answered", "settle"} => direct.seen \in LocalStates
    /\ direct.pc = "settle" => direct.op = "cancel"
SyncRefs ==
    IF sync.rest = <<>> THEN sync = NoSync
    ELSE /\ sync.job \in CodexJobs /\ sync.rest = <<"succeeded">>
         /\ job[sync.job].state = "publishing"

\* Only a job with an outcome is announced, or one whose outcome is half copied.
Announced(j) == job[j].state \in Notifiable \/ (sync.rest # <<>> /\ sync.job = j)
NoticeRefs ==
    /\ IF notice.pc = "idle" THEN notice = NoNotice
       ELSE notice.job \in Jobs /\ Announced(notice.job)
    /\ notice.pc = "mark" => sync.rest = <<>>
    /\ notice.pc # "idle" => direct.pc # "settle"
    /\ \A j \in Range(queue) \cup retry : Announced(j)
RefsOK == RowRefs /\ RunRefs /\ DirectRefs /\ SyncRefs /\ NoticeRefs

\* The states of a row after its execution, or at the end of it.
Closed == Terminal \cup {"prepared", "publishing"}
LateCreate(c) == [op |-> "create", job |-> c]

\* What the rows say together: the worker knows nothing of a job before its row is
\* claimed, and a publication runs only after its target.
RowsOK ==
    /\ OneRunning
    /\ \A c \in CodexJobs : job[c].state \in {"absent", "queued"} =>
        remote[c] = "absent" /\ LateCreate(c) \notin late
    /\ \A p \in PublishJobs : job[p].state \notin {"prepared", "publishing"}
    /\ \A p \in PublishJobs : job[p].state = "running" => job[Target(p)].state \in Closed
    /\ run.pc # "idle" => job[run.job].state # "queued"
    /\ run.pc # "idle" /\ run.job \in PublishJobs => job[Target(run.job)].state \in Closed

HandedOff(c) == c \in AutoJobs => released[c]

\* What an answer of the worker still says when it is used.
Heard(t, seen) ==
    /\ remote[t] # "absent" /\ seen # "absent"
    /\ seen \in Terminal => remote[t] = seen
    /\ seen = "prepared" =>
        remote[t] \in {"prepared", "publishing", "succeeded"} /\ HandedOff(t)
RunHeard    == run.pc \in {"answered", "done"} /\ run.seen \in LocalStates
DirectHeard == direct.pc \in {"answered", "settle"}

\* No answer is stale in a way that matters, and rows are no newer than the worker.
\* A row is PUBLISHING between two transitions, or after a crash between them; then
\* nobody holds an answer from before.
HeardOK ==
    /\ RunHeard => Heard(Target(run.job), run.seen)
    /\ DirectHeard => Heard(Target(direct.job), direct.seen)
    /\ \A c \in CodexJobs :
        /\ remote[c] = "succeeded" => exposed[c] = "pr"
        /\ job[c].state = "succeeded" => remote[c] = "succeeded"
        /\ job[c].state = "prepared" =>
            remote[c] \in {"prepared", "publishing", "succeeded"} /\ HandedOff(c)
        /\ job[c].state = "publishing" =>
            /\ remote[c] = "succeeded"
            /\ \/ sync.rest # <<>> /\ sync.job = c
               \/ /\ RunHeard /\ Target(run.job) = c => run.seen # "prepared"
                  /\ DirectHeard /\ Target(direct.job) = c => direct.seen # "prepared"
    /\ \A p \in PublishJobs : job[p].state = "succeeded" => remote[Target(p)] = "succeeded"

\* A publication has been claimed once, whatever became of it.
Published(t) == \/ remote[t] \in {"publishing", "succeeded"}
                \/ remote[t] = "prepared" /\ HandedOff(t)

\* Who asked for the cancellations there are, and what the failures come from.
AskedOK ==
    /\ direct.op \in {"cancel", "recheck"} =>
        direct.job \in asked /\ job[direct.job].state # "queued"
    /\ DirectHeard /\ direct.op = "cancel" => direct.seen \in Notifiable
    /\ direct.pc = "settle" => CancelAccepted(direct.job, direct.seen)
    /\ run.seen = "stopped" => run.job \in asked /\ job[run.job].state \in Terminal
    /\ \A c \in CodexJobs : remote[c] = "cancelled" => c \in asked \/ job[c].state \in Terminal
    /\ \A j \in Jobs : job[j].state = "cancelled" => j \in asked
    /\ direct.op \in {"cancel", "recheck"} /\ direct.job \in PublishJobs
       => job[Target(direct.job)].state \in Closed
    /\ run.job \in PublishJobs /\ (run.pc = "poll" \/ RunHeard) => Published(Target(run.job))
    /\ run.job \in CodexJobs /\ run.seen = "error" => used.failures > 0
    /\ \A c \in CodexJobs : job[c].state = "failed" =>
        remote[c] = "failed" \/ used.failures > 0

\* The outbox and the rows.
ToldOK ==
    /\ AcknowledgedIsTold
    /\ notice.pc = "mark" => told[notice.job] = job[notice.job].state
    /\ run.keep => run.job \in PublishJobs

\* Without failures, crashes and reclaims only the execution of a publication job
\* claims a publication, but for the automatic ones.
Quiet == used.failures + used.crashes + used.reclaims = 0
Only(p) == \A q \in PublishJobs \ {p} : Target(q) # Target(p)
GoneOut(c) == HandedOff(c) /\ remote[c] \in {"publishing", "succeeded"}
Claiming(p) == run.job = p /\ run.pc \in {"start", "publish", "claim"}
StopOK == Quiet =>
    /\ \A c \in CodexJobs : GoneOut(c) => \E p \in PublishJobs : Target(p) = c
    /\ \A p \in PublishJobs : Known(p) /\ Only(p) /\ GoneOut(Target(p)) =>
        job[p].state \notin {"queued", "cancelled"} /\ ~Claiming(p)
    /\ \A p \in PublishJobs : job[p].state = "cancelled" => ~Claiming(p)
    /\ \A p \in PublishJobs : job[p].state = "running" => run.job = p
    /\ /\ DirectHeard /\ direct.op = "cancel" /\ direct.seen = "prepared"
       /\ direct.job \in PublishJobs /\ Only(direct.job)
       => /\ remote[Target(direct.job)] = "prepared" /\ HandedOff(Target(direct.job))
          /\ ~Claiming(direct.job)
    /\ \A c \in AutoJobs : job[c].state \in Closed =>
        \/ released[c] \/ remote[c] \in Terminal
        \/ /\ remote[c] = "absent" /\ LateCreate(c) \notin late
           /\ run.job = c => run.pc \in {"done", "idle"}

IInv == TypeOK /\ RefsOK /\ RowsOK /\ HeardOK /\ AskedOK /\ ToldOK /\ StopOK


-----------------------------------------------------------------------------
(* The kinds of steps.                                                     *)

Notifying  == \/ Tell \/ NotifyFails \/ TakeNotice \/ SchedulerStarts \/ Connect
              \/ \E j \in Jobs : RetryDue(j)
Executing  == \/ Start \/ Look \/ Create \/ OrderPublication \/ ClaimPublication
              \/ CallFails
Asking     == \/ Inquire \/ ServeCancel \/ DirectFails \/ Redo
              \/ \E j \in Jobs : AskStatus(j) \/ AskCancel(j)
WorkerRuns == \/ \E c \in late : ArriveLate(c)
              \/ \E j \in CodexJobs :
                   \/ WorkerExecutes(j) \/ WorkerRetries(j) \/ WorkerHandsOff(j)
                   \/ WorkerReclaims(j) \/ WorkerPublishes(j)
Submitting == \/ \E j \in Jobs : SubmitCodex(j)
              \/ \E p \in PublishJobs, j \in CodexJobs : SubmitPublish(p, j)
RowMoves   == \/ Continue \/ Mark \/ Settle \/ Digest \/ Finish \/ EndInquiry \/ EndCancel
              \/ \E j \in Jobs : Begin(j) \/ CancelQueued(j)

LEMMA Kinds ==
    Next => \/ Notifying \/ Executing \/ Asking \/ WorkerRuns \/ Submitting \/ RowMoves
            \/ Crash
BY DEF Next, Notifying, Executing, Asking, WorkerRuns, Submitting, RowMoves, Segment,
   Dispatcher, Directs, Startup

\* What each kind leaves alone.
LEMMA NotifyingFrame == Notifying => UNCHANGED <<job, worker, late, run, direct, sync, asked>>
BY DEF Notifying, Tell, NotifyFails, TakeNotice, RetryDue, SchedulerStarts, Connect, db, worker,
   ghosts

LEMMA ExecutingFrame ==
    Executing => UNCHANGED <<db, released, phase, direct, sync, notice, queue, retry, asked>>
BY DEF Executing, Start, Look, Create, OrderPublication, ClaimPublication, CallFails, db, worker,
   ghosts

LEMMA AskingFrame == Asking => UNCHANGED <<db, late, phase, run, sync, notice, queue, retry>>
BY DEF Asking, Inquire, ServeCancel, DirectFails, Redo, AskStatus, AskCancel, db, worker, ghosts

LEMMA WorkerFrame == WorkerRuns => UNCHANGED <<db, core, asked>>
BY DEF WorkerRuns, ArriveLate, WorkerExecutes, WorkerRetries, WorkerHandsOff, WorkerReclaims,
   WorkerPublishes, db, core, ghosts

LEMMA SubmittingFrame == Submitting => UNCHANGED <<told, worker, late, core, ghosts>>
BY DEF Submitting, SubmitCodex, SubmitPublish

LEMMA RowFrame == RowMoves => UNCHANGED <<told, worker, phase, queue>>
BY DEF RowMoves, Continue, Mark, Settle, Digest, Finish, EndInquiry, EndCancel, Begin,
   CancelQueued, worker

LEMMA CrashFrame == Crash => UNCHANGED <<db, worker, asked>>
BY DEF Crash

-----------------------------------------------------------------------------
(* What the operators return.                                              *)

\* A transition sets the state and keeps the target.
LEMMA MovedType ==
    ASSUME NEW r \in [state: LocalStates, acked: BOOLEAN, target: CodexJobs \cup {None}],
           NEW s \in LocalStates, NEW keep \in BOOLEAN
    PROVE  /\ Moved(r, s, keep) \in [state: LocalStates, acked: BOOLEAN,
                                    target: CodexJobs \cup {None}]
           /\ Moved(r, s, keep).state = s
           /\ Moved(r, s, keep).target = r.target
           /\ Moved(r, s, keep).acked <=> keep /\ r.acked
<1> DEFINE a == keep /\ r.acked
<1>1. a \in BOOLEAN
  OBVIOUS
<1>2. Moved(r, s, keep) = [[r EXCEPT !.state = s] EXCEPT !.acked = a]
  BY DEF Moved
<1> HIDE DEF a
<1>3. Moved(r, s, keep).acked = a
  BY <1>1, <1>2
<1>4. QED
  BY <1>1, <1>2, <1>3 DEF a

\* Job j moves to state s.
Moves(j, s, keep) == job' = [job EXCEPT ![j] = Moved(@, s, keep)]

LEMMA MovesRow ==
    ASSUME TypeOK, NEW j \in Jobs, NEW s \in LocalStates, NEW keep \in BOOLEAN, Moves(j, s, keep)
    PROVE  /\ job' \in [Jobs -> [state: LocalStates, acked: BOOLEAN,
                                 target: CodexJobs \cup {None}]]
           /\ job'[j].state = s
           /\ \A k \in Jobs : job'[k].target = job[k].target
           /\ job'[j].acked <=> keep /\ job[j].acked
           /\ \A k \in Jobs \ {j} : job'[k] = job[k]
<1>1. job[j] \in [state: LocalStates, acked: BOOLEAN, target: CodexJobs \cup {None}]
  BY DEF TypeOK
<1>2. job' = [job EXCEPT ![j] = Moved(job[j], s, keep)]
  BY DEF Moves
<1>3. QED
  BY <1>1, <1>2, MovedType DEF TypeOK

\* What copying an answer of the worker does to a row.
Copied(t, seen, keep) ==
    \/ /\ UNCHANGED <<job, sync>>
       /\ seen \in Notifiable => job[t].state \in Terminal \/ job[t].state = seen
    \/ /\ job[t].state = "prepared" /\ seen = "succeeded"
       /\ Moves(t, "publishing", keep)
       /\ sync' = [job |-> t, rest |-> <<"succeeded">>, keep |-> keep]
    \/ /\ job[t].state \in {"running", "publishing"} /\ seen \in Notifiable
       /\ job[t].state = "publishing" => seen = "succeeded"
       /\ Moves(t, seen, keep)
       /\ UNCHANGED sync

\* The rows that can be copied to.
LEMMA CopyTarget ==
    ASSUME TypeOK, RowsOK, HeardOK, NEW t \in CodexJobs, NEW seen \in LocalStates, Heard(t, seen),
           job[t].state = "publishing" => seen # "prepared", seen \in Notifiable,
           job[t].state \notin Terminal, job[t].state # seen
    PROVE  \/ job[t].state = "prepared" /\ seen = "succeeded"
           \/ job[t].state = "running"
           \/ job[t].state = "publishing" /\ seen = "succeeded"
<1>1. job[t].state \in LocalStates
  BY DEF TypeOK, Jobs
<1>2. job[t].state \notin {"absent", "queued"}
  BY DEF RowsOK, Heard
<1>3. CASE job[t].state = "prepared"
  BY <1>3 DEF HeardOK, Heard, Notifiable, Terminal
<1>4. CASE job[t].state = "publishing"
  BY <1>4 DEF HeardOK, Heard, Notifiable, Terminal
<1>5. QED
  BY <1>1, <1>2, <1>3, <1>4 DEF LocalStates, Terminal

\* One transition, and the first of two.
LEMMA FollowOne ==
    ASSUME NEW j, NEW s, NEW keep, Follow(j, <<s>>, keep)
    PROVE  Moves(j, s, keep) /\ sync' = NoSync
BY DEF Follow, Moves

LEMMA FollowTwo ==
    ASSUME NEW j, NEW keep, Follow(j, <<"publishing", "succeeded">>, keep)
    PROVE  /\ Moves(j, "publishing", keep)
           /\ sync' = [job |-> j, rest |-> <<"succeeded">>, keep |-> keep]
BY DEF Follow, Moves

LEMMA FollowNone ==
    ASSUME NEW j, NEW keep, Follow(j, <<>>, keep)
    PROVE  UNCHANGED <<job, sync>>
BY DEF Follow, Moves

\* A current answer is copied in one of three ways.
LEMMA CopyEffect ==
    ASSUME TypeOK, RowsOK, HeardOK, sync = NoSync, NEW t \in CodexJobs, NEW seen \in LocalStates,
           Heard(t, seen), job[t].state = "publishing" => seen # "prepared",
           NEW keep \in BOOLEAN, Synchronize(t, seen, keep)
    PROVE  Copied(t, seen, keep)
<1> DEFINE s == job[t].state
<1>1. CASE s \in Terminal \/ seen \notin Notifiable \/ s = seen
  <2>1. SyncPath(s, seen) = <<>>
    BY <1>1 DEF SyncPath
  <2>2. Follow(t, <<>>, keep)
    BY <2>1 DEF Synchronize
  <2>3. QED
    BY <1>1, <2>2, FollowNone DEF Copied
<1>2. CASE ~(s \in Terminal \/ seen \notin Notifiable \/ s = seen)
  <2>1. CASE s = "prepared" /\ seen = "succeeded"
    <3>1. SyncPath(s, seen) = <<"publishing", "succeeded">>
      BY <1>2, <2>1 DEF SyncPath
    <3>2. Follow(t, <<"publishing", "succeeded">>, keep)
      BY <3>1 DEF Synchronize
    <3>3. QED
      BY <2>1, <3>2, FollowTwo DEF Copied
  <2>2. CASE s = "running" \/ (s = "publishing" /\ seen = "succeeded")
    <3>1. SyncPath(s, seen) = <<seen>>
      BY <1>2, <2>2 DEF SyncPath
    <3>2. Follow(t, <<seen>>, keep)
      BY <3>1 DEF Synchronize
    <3>3. Moves(t, seen, keep) /\ sync' = NoSync
      BY <3>2, FollowOne
    <3>4. QED
      BY <1>2, <2>2, <3>3 DEF Copied
  <2>3. QED
    BY <1>2, <2>1, <2>2, CopyTarget
<1>3. QED
  BY <1>1, <1>2

-----------------------------------------------------------------------------
(* What the steps that move a row do.                                      *)

\* The second of two transitions.
LEMMA ContinueEffect ==
    ASSUME SyncRefs, Continue
    PROVE  /\ Moves(sync.job, "succeeded", sync.keep) /\ sync' = NoSync
           /\ job[sync.job].state = "publishing" /\ sync.job \in CodexJobs
           /\ sync.rest # <<>>
BY FollowOne DEF SyncRefs, Continue

\* What an execution or a question refers to.
LEMMA Targets ==
    ASSUME RowRefs, NEW j, Known(j)
    PROVE  /\ Target(j) \in CodexJobs /\ job[Target(j)].state # "absent"
           /\ j \in CodexJobs => Target(j) = j
           /\ j \in PublishJobs => Target(j) < j
BY DEF RowRefs, Known, Target, Jobs

LEMMA AnswerOfRun ==
    ASSUME TypeOK, RefsOK, HeardOK, RunHeard, LoopFree
    PROVE  /\ sync = NoSync /\ Target(run.job) \in CodexJobs
           /\ Heard(Target(run.job), run.seen)
           /\ job[Target(run.job)].state = "publishing" => run.seen # "prepared"
           /\ run.keep \in BOOLEAN /\ Known(run.job)
<1>1. Known(run.job)
  BY DEF RefsOK, RunRefs, RunHeard
<1>2. Target(run.job) \in CodexJobs
  BY <1>1, Targets DEF RefsOK
<1>3. QED
  BY <1>1, <1>2 DEF RefsOK, SyncRefs, LoopFree, HeardOK, TypeOK, Run

LEMMA AnswerOfDirect ==
    ASSUME TypeOK, RefsOK, HeardOK, DirectHeard, LoopFree
    PROVE  /\ sync = NoSync /\ Target(direct.job) \in CodexJobs
           /\ Heard(Target(direct.job), direct.seen) /\ direct.seen \in LocalStates
           /\ job[Target(direct.job)].state = "publishing" => direct.seen # "prepared"
           /\ Known(direct.job)
<1>1. Known(direct.job)
  BY DEF RefsOK, DirectRefs, DirectHeard
<1>2. Target(direct.job) \in CodexJobs
  BY <1>1, Targets DEF RefsOK
<1>3. QED
  BY <1>1, <1>2 DEF RefsOK, SyncRefs, DirectRefs, LoopFree, HeardOK, DirectHeard

LEMMA DigestEffect ==
    ASSUME IInv, Digest
    PROVE  \/ /\ run.seen \in Notifiable /\ Copied(Target(run.job), run.seen, run.keep)
              /\ run' = [run EXCEPT !.pc = "done"]
           \/ /\ run.seen \notin Notifiable /\ UNCHANGED <<job, sync>>
              /\ run' = [run EXCEPT !.pc = "poll", !.seen = "none"]
<1>1. RunHeard
  BY DEF IInv, RefsOK, RunRefs, RunHeard, Digest
<1>2. QED
  BY <1>1, AnswerOfRun, CopyEffect DEF IInv, Digest, RunHeard

LEMMA InquiryEffect ==
    ASSUME IInv, EndInquiry \/ EndCancel
    PROVE  Copied(Target(direct.job), direct.seen, FALSE)
<1>1. DirectHeard
  BY DEF DirectHeard, EndInquiry, EndCancel
<1>2. QED
  BY <1>1, AnswerOfDirect, CopyEffect DEF IInv, EndInquiry, EndCancel

\* An execution that ended leaves its row, fails it, or copies its outcome.
LEMMA FinishEffect ==
    ASSUME IInv, Finish
    PROVE  /\ run.pc = "done" /\ run' = NoRun /\ sync = NoSync /\ Known(run.job)
           /\ \/ UNCHANGED <<job, sync>> /\ job[run.job].state \in Terminal
              \/ /\ run.seen = "error" /\ job[run.job].state \notin Terminal
                 /\ Moves(run.job, "failed", FALSE) /\ sync' = NoSync
              \/ /\ run.job \in CodexJobs /\ RunHeard
                 /\ Copied(run.job, run.seen, FALSE)
              \/ /\ run.job \in PublishJobs /\ RunHeard /\ job[run.job].state = "running"
                 /\ run.seen \in Notifiable
                 /\ Moves(run.job, Outcome(run.job, run.seen), FALSE) /\ sync' = NoSync
<1> DEFINE j == run.job
           s == job[j].state
<1>1. run.pc = "done" /\ run' = NoRun /\ sync = NoSync /\ Known(j)
  BY DEF IInv, RefsOK, RunRefs, SyncRefs, Finish, LoopFree
<1>2. j \in Jobs /\ s \in LocalStates /\ s \notin {"absent", "queued"}
  BY <1>1 DEF Known, IInv, TypeOK, RowsOK
<1>3. SUFFICES ASSUME s \notin Terminal, Follow(j, Ending(s, j), FALSE)
               PROVE  \/ /\ run.seen = "error" /\ Moves(j, "failed", FALSE) /\ sync' = NoSync
                      \/ j \in CodexJobs /\ RunHeard /\ Copied(j, run.seen, FALSE)
                      \/ /\ j \in PublishJobs /\ RunHeard /\ s = "running"
                         /\ run.seen \in Notifiable
                         /\ Moves(j, Outcome(j, run.seen), FALSE) /\ sync' = NoSync
  BY <1>1 DEF Finish
<1>4. run.seen # "stopped"
  BY <1>3 DEF IInv, AskedOK
<1>5. CASE run.seen = "error"
  <2>1. Ending(s, j) = <<"failed">>
    BY <1>5 DEF Ending
  <2>2. Follow(j, <<"failed">>, FALSE)
    BY <1>3, <2>1
  <2>3. QED
    BY <1>5, <2>2, FollowOne
<1>6. CASE run.seen \in Notifiable
  <2>1. RunHeard
    BY <1>1, <1>6 DEF RunHeard, Notifiable, Terminal, LocalStates
  <2>2. Ending(s, j) = OutcomePath(s, Outcome(j, run.seen))
    BY <1>6 DEF Ending, Notifiable, Terminal
  <2>3. CASE j \in CodexJobs
    <3>1. Outcome(j, run.seen) = run.seen /\ Target(j) = j
      BY <1>1, <2>3, Targets, JobsAssumption DEF Outcome, IInv, RefsOK
    <3>2. OutcomePath(s, run.seen) = SyncPath(s, run.seen)
      <4>1. Heard(j, run.seen) /\ (s = "publishing" => run.seen # "prepared")
        BY <2>1, <3>1, AnswerOfRun DEF Finish, IInv
      <4>2. \/ s = run.seen \/ (s = "prepared" /\ run.seen = "succeeded") \/ s = "running"
            \/ (s = "publishing" /\ run.seen = "succeeded")
        BY <1>3, <1>6, <2>1, <2>3, <4>1, CopyTarget DEF IInv, RunHeard
      <4>3. CASE s = run.seen
        BY <4>3 DEF OutcomePath, SyncPath
      <4>4. CASE s = "prepared" /\ run.seen = "succeeded"
        BY <4>4 DEF OutcomePath, SyncPath, Terminal, Notifiable
      <4>5. CASE s = "running"
        BY <1>6, <4>5 DEF OutcomePath, SyncPath, Terminal, Notifiable, Allowed, LocalStates
      <4>6. CASE s = "publishing" /\ run.seen = "succeeded"
        BY <4>6 DEF OutcomePath, SyncPath, Terminal, Notifiable, Allowed, LocalStates
      <4>7. QED
        BY <4>2, <4>3, <4>4, <4>5, <4>6
    <3>3. Synchronize(j, run.seen, FALSE)
      BY <1>3, <2>2, <3>1, <3>2 DEF Synchronize
    <3>4. Copied(j, run.seen, FALSE)
      BY <2>1, <2>3, <3>1, <3>3, AnswerOfRun, CopyEffect DEF Finish, IInv, RunHeard
    <3>5. QED
      BY <2>1, <2>3, <3>4
  <2>4. CASE j \in PublishJobs
    <3>1. s = "running"
      BY <1>2, <1>3, <2>4 DEF IInv, RowsOK, LocalStates, Terminal
    <3>2. Outcome(j, run.seen) \in Terminal
      BY <1>6, <2>4 DEF Outcome, Notifiable, Terminal
    <3>3. OutcomePath(s, Outcome(j, run.seen)) = <<Outcome(j, run.seen)>>
      BY <3>1, <3>2 DEF OutcomePath, Allowed, LocalStates, Terminal
    <3>4. Follow(j, <<Outcome(j, run.seen)>>, FALSE)
      BY <1>3, <2>2, <3>3
    <3>5. QED
      BY <1>6, <2>1, <2>4, <3>1, <3>4, FollowOne
  <2>5. QED
    BY <1>2, <2>3, <2>4 DEF Jobs
<1>7. QED
  BY <1>1, <1>4, <1>5, <1>6 DEF IInv, RefsOK, RunRefs

\* The dispatcher claims a job of the queue; one that is active is claimed already.
LEMMA BeginEffect ==
    ASSUME NEW j \in Jobs, Begin(j)
    PROVE  /\ LoopFree /\ run.pc = "idle" /\ Runnable(j)
           /\ run' = [job |-> j, pc |-> "start", seen |-> "none", keep |-> FALSE]
           /\ \/ job' = job /\ job[j].state # "queued"
              \/ job[j].state = "queued" /\ Moves(j, "running", FALSE)
<1>1. job' = IF job[j].state = "queued" THEN [job EXCEPT ![j] = Moved(@, "running", FALSE)] ELSE job
  BY DEF Begin
<1>2. LoopFree /\ run.pc = "idle" /\ Runnable(j) /\ run' = [NoRun EXCEPT !.job = j, !.pc = "start"]
  BY DEF Begin
<1>3. run' = [job |-> j, pc |-> "start", seen |-> "none", keep |-> FALSE]
  BY <1>2 DEF NoRun
<1>4. CASE job[j].state = "queued"
  BY <1>1, <1>2, <1>3, <1>4 DEF Moves
<1>5. CASE job[j].state # "queued"
  BY <1>1, <1>2, <1>3, <1>5
<1>6. QED
  BY <1>4, <1>5

\* How an answer that was copied moves a row.
Copies(j, s, seen) ==
    \/ seen \in Notifiable /\ s = seen
    \/ seen = "succeeded" /\ s = "publishing" /\ job[j].state = "prepared"

\* The steps that move row j to state s.
Cause(j, s) ==
    \/ Continue /\ j = sync.job /\ s = "succeeded"
    \/ Settle /\ j = direct.job /\ s = "cancelled"
    \/ CancelQueued(j) /\ s = "cancelled"
    \/ Begin(j) /\ s = "running" /\ job[j].state = "queued"
    \/ /\ Digest \/ Finish
       /\ RunHeard /\ j = Target(run.job) /\ j \in CodexJobs /\ Copies(j, s, run.seen)
    \/ /\ EndInquiry \/ EndCancel
       /\ j = Target(direct.job) /\ j \in CodexJobs /\ Copies(j, s, direct.seen)
    \/ Finish /\ j = run.job /\ s = "failed" /\ run.seen = "error"
    \/ /\ Finish /\ j = run.job /\ j \in PublishJobs /\ RunHeard /\ run.seen \in Notifiable
       /\ s = Outcome(j, run.seen)

\* A transition of a row, its cause, and the part of it that is left.
Transition(j, s, keep) ==
    /\ job[j].state \notin {"absent", s} /\ Moves(j, s, keep) /\ Cause(j, s)
    /\ keep => Continue \/ (Digest /\ run.keep)
    /\ sync = NoSync \/ sync.job = j
    /\ \/ /\ s \in Notifiable /\ job[j].state \notin Terminal /\ sync' = NoSync
          /\ s = "prepared" => j \in CodexJobs
       \/ /\ s = "publishing" /\ job[j].state = "prepared" /\ j \in CodexJobs
          /\ sync' = [job |-> j, rest |-> <<"succeeded">>, keep |-> keep]
       \/ s = "running" /\ job[j].state = "queued" /\ sync' = NoSync

SomeTransition == \E j \in Jobs, s \in LocalStates, keep \in BOOLEAN : Transition(j, s, keep)

\* How a step that moves a row changes the rows.
LEMMA RowChange ==
    ASSUME IInv, RowMoves
    PROVE  \/ UNCHANGED <<job, sync>>
           \/ \E j \in Jobs : /\ Mark /\ j = notice.job /\ job[j].state \in Notifiable
                              /\ job' = [job EXCEPT ![j].acked = TRUE] /\ UNCHANGED sync
           \/ SomeTransition
<1>1. TypeOK /\ RefsOK /\ HeardOK
  BY DEF IInv
<1>2. ASSUME NEW t \in CodexJobs, job[t].state # "absent", NEW seen, NEW keep \in BOOLEAN,
             Copied(t, seen, keep), sync = NoSync, job[t].state # seen,
             \A s \in LocalStates : Copies(t, s, seen) => Cause(t, s),
             keep => Digest /\ run.keep
      PROVE  UNCHANGED <<job, sync>> \/ SomeTransition
  <2>1. t \in Jobs /\ "publishing" \in LocalStates
    BY DEF Jobs, LocalStates
  <2>2. seen \in Notifiable => seen \in LocalStates
    BY DEF Notifiable, Terminal, LocalStates
  <2>3. CASE /\ job[t].state = "prepared" /\ seen = "succeeded"
             /\ Moves(t, "publishing", keep)
             /\ sync' = [job |-> t, rest |-> <<"succeeded">>, keep |-> keep]
    <3>1. Transition(t, "publishing", keep)
      BY <1>2, <2>1, <2>3 DEF Transition, Copies
    <3>2. QED
      BY <2>1, <3>1 DEF SomeTransition
  <2>4. CASE /\ job[t].state \in {"running", "publishing"} /\ seen \in Notifiable
             /\ Moves(t, seen, keep) /\ UNCHANGED sync
    <3>1. Transition(t, seen, keep)
      BY <1>2, <2>2, <2>4 DEF Transition, Copies, Terminal
    <3>2. QED
      BY <2>1, <2>2, <2>4, <3>1 DEF SomeTransition
  <2>5. QED
    BY <1>2, <2>3, <2>4 DEF Copied
<1>3. ASSUME NEW t \in CodexJobs, NEW seen, NEW keep \in BOOLEAN, Copied(t, seen, keep),
             job[t].state = seen, sync = NoSync
      PROVE  UNCHANGED <<job, sync>>
  BY <1>3 DEF Copied, Notifiable, Terminal
<1>4. CASE Continue
  <2>1. sync.job \in Jobs /\ sync.keep \in BOOLEAN
    BY <1>1, <1>4, ContinueEffect DEF RefsOK, TypeOK, Jobs
  <2>2. Transition(sync.job, "succeeded", sync.keep)
    BY <1>1, <1>4, ContinueEffect DEF RefsOK, Transition, Cause, Notifiable, Terminal
  <2>3. QED
    BY <2>1, <2>2 DEF SomeTransition, LocalStates
<1>5. CASE Mark
  BY <1>1, <1>5 DEF Mark, RefsOK, NoticeRefs
<1>6. CASE Settle
  <2>1. Known(direct.job) /\ sync = NoSync /\ UNCHANGED sync
    BY <1>1, <1>6 DEF Settle, RefsOK, DirectRefs, SyncRefs
  <2>2. CASE job[direct.job].state \in Terminal
    BY <1>6, <2>1, <2>2 DEF Settle
  <2>3. CASE job[direct.job].state \notin Terminal
    <3>1. Moves(direct.job, "cancelled", FALSE)
      BY <1>6, <2>3 DEF Settle, Moves
    <3>2. Transition(direct.job, "cancelled", FALSE)
      BY <1>6, <2>1, <2>3, <3>1 DEF Transition, Cause, Known, Notifiable, Terminal
    <3>3. QED
      BY <2>1, <3>2 DEF SomeTransition, LocalStates, Known
  <2>4. QED
    BY <2>2, <2>3
<1>7. CASE Digest
  <2>1. RunHeard /\ LoopFree
    BY <1>1, <1>7 DEF Digest, RefsOK, RunRefs, RunHeard
  <2>2. /\ Target(run.job) \in CodexJobs /\ job[Target(run.job)].state # "absent"
        /\ run.keep \in BOOLEAN /\ sync = NoSync
    BY <1>1, <2>1, AnswerOfRun, Targets DEF RefsOK
  <2>3. UNCHANGED <<job, sync>> \/ Copied(Target(run.job), run.seen, run.keep)
    BY <1>7, DigestEffect
  <2>4. \A s : Copies(Target(run.job), s, run.seen) => Cause(Target(run.job), s)
    BY <1>7, <2>1, <2>2 DEF Cause
  <2>5. QED
    BY <1>2, <1>3, <1>7, <2>2, <2>3, <2>4, DigestEffect
<1>8. CASE Finish
  <2>1. Known(run.job) /\ run.job \in Jobs /\ job[run.job].state # "absent" /\ sync = NoSync
    BY <1>8, FinishEffect DEF Known
  <2>2. CASE /\ job[run.job].state \notin Terminal /\ run.seen = "error"
             /\ Moves(run.job, "failed", FALSE) /\ sync' = NoSync
    <3>1. Transition(run.job, "failed", FALSE)
      BY <1>8, <2>1, <2>2 DEF Transition, Cause, Notifiable, Terminal
    <3>2. QED
      BY <2>1, <3>1 DEF SomeTransition, LocalStates
  <2>3. CASE /\ job[run.job].state = "running" /\ run.seen \in Notifiable
             /\ run.job \in PublishJobs /\ RunHeard
             /\ Moves(run.job, Outcome(run.job, run.seen), FALSE) /\ sync' = NoSync
    <3>1. Outcome(run.job, run.seen) \in Terminal /\ Outcome(run.job, run.seen) \in LocalStates
      BY <2>3 DEF Outcome, Notifiable, Terminal, LocalStates
    <3>2. Transition(run.job, Outcome(run.job, run.seen), FALSE)
      BY <1>8, <2>1, <2>3, <3>1 DEF Transition, Cause, Notifiable, Terminal
    <3>3. QED
      BY <2>1, <3>1, <3>2 DEF SomeTransition
  <2>4. CASE run.job \in CodexJobs /\ RunHeard /\ Copied(run.job, run.seen, FALSE)
    <3>1. Target(run.job) = run.job
      BY <1>1, <2>1, <2>4, Targets DEF RefsOK, Known
    <3>2. \A s : Copies(run.job, s, run.seen) => Cause(run.job, s)
      BY <1>8, <2>4, <3>1 DEF Cause
    <3>3. QED
      BY <1>2, <1>3, <2>1, <2>4, <3>2
  <2>5. QED
    BY <1>8, <2>2, <2>3, <2>4, FinishEffect
<1>9. CASE EndInquiry \/ EndCancel
  <2>1. DirectHeard /\ LoopFree
    BY <1>9 DEF EndInquiry, EndCancel, DirectHeard
  <2>2. /\ Target(direct.job) \in CodexJobs /\ job[Target(direct.job)].state # "absent"
        /\ sync = NoSync
    BY <1>1, <2>1, AnswerOfDirect, Targets DEF RefsOK
  <2>3. Copied(Target(direct.job), direct.seen, FALSE)
    BY <1>9, InquiryEffect
  <2>4. \A s : Copies(Target(direct.job), s, direct.seen) => Cause(Target(direct.job), s)
    BY <1>9, <2>2 DEF Cause
  <2>5. QED
    BY <1>2, <1>3, <2>2, <2>3, <2>4
<1>10. ASSUME NEW j \in Jobs, Begin(j)
       PROVE  UNCHANGED <<job, sync>> \/ SomeTransition
  <2>1. UNCHANGED sync /\ sync = NoSync
    BY <1>1, <1>10 DEF Begin, LoopFree, RefsOK, SyncRefs
  <2>2. job' = job \/ (job[j].state = "queued" /\ Moves(j, "running", FALSE))
    BY <1>10, BeginEffect
  <2>3. CASE job[j].state = "queued" /\ Moves(j, "running", FALSE)
    <3>1. Transition(j, "running", FALSE)
      BY <1>10, <2>1, <2>3 DEF Transition, Cause
    <3>2. QED
      BY <3>1 DEF SomeTransition, LocalStates
  <2>4. QED
    BY <2>1, <2>2, <2>3
<1>11. ASSUME NEW j \in Jobs, CancelQueued(j)
       PROVE  SomeTransition
  <2>1. UNCHANGED sync /\ sync = NoSync /\ job[j].state = "queued"
    BY <1>1, <1>11 DEF CancelQueued, Free, LoopFree, RefsOK, SyncRefs
  <2>2. Moves(j, "cancelled", FALSE)
    BY <1>11 DEF CancelQueued, Moves
  <2>3. Transition(j, "cancelled", FALSE)
    BY <1>11, <2>1, <2>2 DEF Transition, Cause, Notifiable, Terminal
  <2>4. QED
    BY <2>3 DEF SomeTransition, LocalStates
<1>12. QED
  BY <1>4, <1>5, <1>6, <1>7, <1>8, <1>9, <1>10, <1>11 DEF RowMoves

-----------------------------------------------------------------------------
(* Type correctness.                                                       *)

Row == [state: LocalStates, acked: BOOLEAN, target: CodexJobs \cup {None}]

\* A new row is about a job of Codex: its own, or an older one.
LEMMA SubmitEffect ==
    ASSUME TypeOK, Submitting
    PROVE  \E j \in Jobs, t \in CodexJobs :
             /\ job[j].state = "absent"
             /\ job' = [job EXCEPT ![j] = [state |-> "queued", acked |-> FALSE, target |-> t]]
             /\ \A k \in Jobs : k < j => job[k].state # "absent"
             /\ phase = "serving" /\ LoopFree /\ direct = Idle
             /\ \/ j \in CodexJobs /\ t = j
                \/ j \in PublishJobs /\ job[t].state # "absent"
<1>1. CASE \E j \in Jobs : SubmitCodex(j)
  BY <1>1 DEF SubmitCodex, Free
<1>2. CASE \E p \in PublishJobs, j \in CodexJobs : SubmitPublish(p, j)
  BY <1>2 DEF SubmitPublish, Free, Jobs
<1>3. QED
  BY <1>1, <1>2 DEF Submitting

\* An acknowledgement changes nothing else.
LEMMA AckType ==
    ASSUME NEW r \in Row
    PROVE  /\ [r EXCEPT !.acked = TRUE] \in Row
           /\ [r EXCEPT !.acked = TRUE].state = r.state
           /\ [r EXCEPT !.acked = TRUE].target = r.target
           /\ [r EXCEPT !.acked = TRUE].acked
BY DEF Row

LEMMA AckRow ==
    ASSUME TypeOK, NEW j \in Jobs, job' = [job EXCEPT ![j].acked = TRUE]
    PROVE  /\ job' \in [Jobs -> Row]
           /\ \A k \in Jobs : job'[k].state = job[k].state /\ job'[k].target = job[k].target
           /\ job'[j].acked
           /\ \A k \in Jobs \ {j} : job'[k] = job[k]
<1>1. job \in [Jobs -> Row]
  BY DEF TypeOK, Row
<1>2. job' = [job EXCEPT ![j] = [job[j] EXCEPT !.acked = TRUE]]
  OBVIOUS
<1>3. QED
  BY <1>1, <1>2, AckType

\* The rows after any step: nothing disappears, no target changes.
LEMMA RowsStay ==
    ASSUME IInv, [Next]_vars
    PROVE  /\ job' \in [Jobs -> Row]
           /\ \A j \in Jobs : job[j].state # "absent" =>
                job'[j].state # "absent" /\ job'[j].target = job[j].target
<1>1. TypeOK /\ RefsOK
  BY DEF IInv
<1>2. CASE job' = job
  BY <1>1, <1>2 DEF TypeOK, Row
<1>3. CASE RowMoves
  <2>1. ASSUME NEW j \in Jobs, job' = [job EXCEPT ![j].acked = TRUE]
        PROVE  /\ job' \in [Jobs -> Row]
               /\ \A k \in Jobs : job'[k].state = job[k].state /\ job'[k].target = job[k].target
    BY <1>1, <2>1, AckRow
  <2>2. ASSUME NEW j \in Jobs, NEW s \in LocalStates, NEW keep \in BOOLEAN, Transition(j, s, keep)
        PROVE  /\ job' \in [Jobs -> Row]
               /\ \A k \in Jobs : job'[k].target = job[k].target
               /\ \A k \in Jobs : job[k].state # "absent" => job'[k].state # "absent"
    <3>1. s # "absent" /\ Moves(j, s, keep)
      BY <2>2 DEF Transition, Notifiable, Terminal
    <3>2. QED
      BY <1>1, <3>1, MovesRow DEF Row
  <2>3. QED
    BY <1>2, <1>3, <2>1, <2>2, RowChange DEF SomeTransition
<1>4. CASE Submitting
  <2>1. PICK j \in Jobs, t \in CodexJobs :
             /\ job[j].state = "absent"
             /\ job' = [job EXCEPT ![j] = [state |-> "queued", acked |-> FALSE, target |-> t]]
    BY <1>1, <1>4, SubmitEffect
  <2>2. QED
    BY <1>1, <2>1 DEF TypeOK, Row, LocalStates
<1>5. CASE UNCHANGED vars
  BY <1>2, <1>5 DEF vars
<1>6. QED
  BY <1>2, <1>3, <1>4, <1>5, Kinds, NotifyingFrame, ExecutingFrame, AskingFrame, WorkerFrame,
     CrashFrame DEF db

LEMMA SpendType ==
    ASSUME TypeOK, NEW what \in {"directs", "failures", "crashes", "retries", "reclaims"},
           NEW max, Spend(what, max)
    PROVE  /\ used' \in [directs: Nat, failures: Nat, crashes: Nat, retries: Nat, reclaims: Nat]
           /\ used'[what] = used[what] + 1
           /\ \A w \in {"directs", "failures", "crashes", "retries", "reclaims"} \ {what} :
                used'[w] = used[w]
BY DEF TypeOK, Spend

\* A bound is only ever spent.
LEMMA UsedStep ==
    ASSUME TypeOK, [Next]_vars
    PROVE  /\ used' \in [directs: Nat, failures: Nat, crashes: Nat, retries: Nat, reclaims: Nat]
           /\ used'.failures >= used.failures /\ used'.crashes >= used.crashes
           /\ used'.reclaims >= used.reclaims
<1> DEFINE Spent == \E what \in {"directs", "failures", "crashes", "retries", "reclaims"}, max \in
                        {MaxDirects, MaxFailures, MaxCrashes, MaxRetries, MaxReclaims} : Spend(what, max)
<1>1. CASE used' = used
  BY <1>1 DEF TypeOK
<1>2. CASE Spent
  BY <1>2, SpendType DEF TypeOK
<1>3. CASE Notifying
  BY <1>1, <1>2, <1>3 DEF Notifying, Tell, NotifyFails, TakeNotice, RetryDue, SchedulerStarts,
     Connect, ghosts
<1>4. CASE Executing
  BY <1>1, <1>2, <1>4 DEF Executing, Start, Look, Create, OrderPublication, ClaimPublication,
     CallFails, ghosts
<1>5. CASE Asking
  BY <1>1, <1>2, <1>5 DEF Asking, Inquire, ServeCancel, DirectFails, Redo, AskStatus, AskCancel,
     ghosts
<1>6. CASE WorkerRuns
  BY <1>1, <1>2, <1>6 DEF WorkerRuns, ArriveLate, WorkerExecutes, WorkerRetries, WorkerHandsOff,
     WorkerReclaims, WorkerPublishes, ghosts
<1>7. CASE Submitting
  BY <1>1, <1>7, SubmittingFrame DEF ghosts
<1>8. CASE RowMoves
  BY <1>1, <1>2, <1>8 DEF RowMoves, Continue, Mark, Settle, Digest, Finish, EndInquiry, EndCancel,
     Begin, CancelQueued, ghosts
<1>9. CASE Crash
  BY <1>2, <1>9 DEF Crash, Spend
<1>10. CASE UNCHANGED vars
  BY <1>1, <1>10 DEF vars
<1>11. QED
  BY <1>3, <1>4, <1>5, <1>6, <1>7, <1>8, <1>9, <1>10, Kinds

LEMMA TypeInit == Init => TypeOK
<1> SUFFICES ASSUME Init PROVE TypeOK
  OBVIOUS
<1>1. W!Init
  BY DEF Init
<1>2. /\ remote \in [CodexJobs -> LocalStates] /\ exposed \in [CodexJobs -> {"none", "branch", "pr"}]
      /\ ordered \in [CodexJobs -> BOOLEAN]
  BY <1>1 DEF W!Init, LocalStates
<1>3. job \in [Jobs -> Row] /\ told \in [Jobs -> Notifiable \cup {"none"}]
  BY DEF Init, Row, LocalStates
<1>4. run \in Run /\ direct \in Direct
  BY DEF Init, Run, NoRun, RunPc, Seen, Direct, Idle
<1>5. QED
  BY <1>2, <1>3, <1>4 DEF Init, TypeOK, Row, NoSync, NoNotice

\* The worker's side of a step.
LEMMA WorkerType ==
    ASSUME IInv, [Next]_vars
    PROVE  /\ remote' \in [CodexJobs -> LocalStates]
           /\ exposed' \in [CodexJobs -> {"none", "branch", "pr"}]
           /\ ordered' \in [CodexJobs -> BOOLEAN] /\ released' \in [CodexJobs -> BOOLEAN]
<1> DEFINE Typed == /\ remote' \in [CodexJobs -> LocalStates]
                    /\ exposed' \in [CodexJobs -> {"none", "branch", "pr"}]
                    /\ ordered' \in [CodexJobs -> BOOLEAN] /\ released' \in [CodexJobs -> BOOLEAN]
<1>1. /\ remote \in [CodexJobs -> LocalStates] /\ exposed \in [CodexJobs -> {"none", "branch", "pr"}]
      /\ ordered \in [CodexJobs -> BOOLEAN] /\ released \in [CodexJobs -> BOOLEAN]
  BY DEF IInv, TypeOK
<1>2. CASE UNCHANGED worker
  BY <1>1, <1>2 DEF worker
<1>3. ASSUME NEW c, NEW from, NEW to \in LocalStates, W!Move(c, from, to)
      PROVE  /\ remote' \in [CodexJobs -> LocalStates]
             /\ exposed' \in [CodexJobs -> {"none", "branch", "pr"}]
             /\ ordered' \in [CodexJobs -> BOOLEAN]
  BY <1>1, <1>3 DEF W!Move
<1>4. ASSUME NEW c, W!OrderPublication(c)
      PROVE  /\ remote' \in [CodexJobs -> LocalStates]
             /\ exposed' \in [CodexJobs -> {"none", "branch", "pr"}]
             /\ ordered' \in [CodexJobs -> BOOLEAN]
  BY <1>1, <1>4 DEF W!OrderPublication
<1>5. ASSUME NEW c, \/ W!Accept(c) \/ W!Start(c) \/ W!Retry(c) \/ W!Prepare(c) \/ W!Fail(c)
                    \/ W!Cancel(c) \/ W!Claim(c) \/ W!Release(c) \/ W!Complete(c) \/ W!Expose(c)
      PROVE  /\ remote' \in [CodexJobs -> LocalStates]
             /\ exposed' \in [CodexJobs -> {"none", "branch", "pr"}]
             /\ ordered' \in [CodexJobs -> BOOLEAN]
  <2>1. CASE W!Expose(c)
    BY <1>1, <2>1 DEF W!Expose
  <2>2. CASE ~W!Expose(c)
    <3>1. \E from \in SUBSET LocalStates, to \in LocalStates : W!Move(c, from, to)
      BY <1>5, <2>2 DEF W!Accept, W!Start, W!Retry, W!Prepare, W!Fail, W!Cancel, W!Claim,
         W!Release, W!Complete, LocalStates
    <3>2. QED
      BY <1>3, <3>1
  <2>3. QED
    BY <2>1, <2>2
<1>6. CASE Executing
  <2>1. UNCHANGED released
    BY <1>6, ExecutingFrame
  <2>2. CASE Start \/ Look \/ CallFails
    BY <1>2, <2>2 DEF Start, Look, CallFails
  <2>3. CASE Create
    BY <1>1, <1>5, <2>1, <2>3 DEF Create
  <2>4. CASE OrderPublication
    BY <1>1, <1>4, <2>1, <2>4 DEF OrderPublication
  <2>5. CASE ClaimPublication
    BY <1>1, <1>5, <2>1, <2>5 DEF ClaimPublication
  <2>6. QED
    BY <1>6, <2>2, <2>3, <2>4, <2>5 DEF Executing
<1>7. CASE Asking
  <2>1. CASE ServeCancel
    <3>1. CASE UNCHANGED worker
      BY <1>2, <3>1
    <3>2. CASE W!Cancel(Target(direct.job)) /\ UNCHANGED released
      BY <1>1, <1>5, <3>2
    <3>3. CASE /\ W!Release(Target(direct.job))
               /\ released' = [released EXCEPT ![Target(direct.job)] = TRUE]
      BY <1>1, <1>5, <3>3
    <3>4. QED
      BY <2>1, <3>1, <3>2, <3>3 DEF ServeCancel
  <2>2. CASE UNCHANGED worker
    BY <1>2, <2>2
  <2>3. QED
    BY <1>7, <2>1, <2>2 DEF Asking, Inquire, DirectFails, Redo, AskStatus, AskCancel
<1>8. CASE WorkerRuns
  <2>1. ASSUME NEW c \in late, ArriveLate(c)
        PROVE  Typed
    BY <1>1, <1>4, <1>5, <2>1 DEF ArriveLate
  <2>2. ASSUME NEW j \in CodexJobs, WorkerExecutes(j) \/ WorkerRetries(j) \/ WorkerHandsOff(j)
                                    \/ WorkerReclaims(j)
        PROVE  Typed
    BY <1>1, <1>5, <2>2 DEF WorkerExecutes, WorkerRetries, WorkerHandsOff, WorkerReclaims
  <2>3. ASSUME NEW j \in CodexJobs, WorkerPublishes(j)
        PROVE  Typed
    BY <1>1, <1>5, <2>3 DEF WorkerPublishes
  <2>4. QED
    BY <1>8, <2>1, <2>2, <2>3 DEF WorkerRuns
<1>9. QED
  BY <1>2, <1>6, <1>7, <1>8, Kinds, NotifyingFrame, SubmittingFrame, RowFrame, CrashFrame DEF vars, worker

\* Only requests that were on their way are late, and they were of a known job.
LEMMA AbandonedType ==
    ASSUME IInv, NEW j, NEW pc, j = run.job \/ j = direct.job, pc = run.pc, run.job = j,
           NEW x \in Abandoned(pc, Target(j))
    PROVE  x \subseteq Late /\ \A c \in x : c.job = Target(j) /\ c.op = pc
<1>1. CASE pc \in {"create", "publish"}
  <2>1. Known(j)
    BY <1>1 DEF IInv, RefsOK, RunRefs
  <2>2. Target(j) \in CodexJobs
    BY <2>1, Targets DEF IInv, RefsOK
  <2>3. QED
    BY <1>1, <2>2 DEF Abandoned, Late
<1>2. CASE pc \notin {"create", "publish"}
  BY <1>2 DEF Abandoned
<1>3. QED
  BY <1>1, <1>2

LEMMA LateStep ==
    ASSUME IInv, [Next]_vars
    PROVE  \A c \in late' : \/ c \in late
                            \/ /\ c = [op |-> run.pc, job |-> Target(run.job)] /\ c \in Late
                               /\ run.pc \in {"create", "publish"}
                               /\ CallFails \/ Settle \/ Crash
<1> DEFINE New == [op |-> run.pc, job |-> Target(run.job)]
<1>1. CASE late' \subseteq late
  BY <1>1
<1>2. ASSUME NEW x \in Abandoned(run.pc, Target(run.job)), late' = late \cup x,
             CallFails \/ Settle \/ Crash
      PROVE  \A c \in late' : \/ c \in late
                              \/ /\ c = New /\ c \in Late /\ run.pc \in {"create", "publish"}
                                 /\ CallFails \/ Settle \/ Crash
  <2>1. x = {} \/ (x = {New} /\ run.pc \in {"create", "publish"})
    BY <1>2 DEF Abandoned
  <2>2. x \subseteq Late
    BY <1>2, AbandonedType
  <2>3. QED
    BY <1>2, <2>1, <2>2
<1>3. CASE Executing
  BY <1>1, <1>2, <1>3 DEF Executing, Start, Look, Create, OrderPublication, ClaimPublication,
     CallFails
<1>4. CASE RowMoves
  <2>1. CASE Settle
    <3>1. \E x \in Abandoned(run.pc, Target(run.job)) \cup {{}} : late' = late \cup x
      BY <2>1 DEF Settle
    <3>2. QED
      BY <1>1, <1>2, <2>1, <3>1
  <2>2. CASE ~Settle
    BY <1>1, <1>4, <2>2 DEF RowMoves, Continue, Mark, Digest, Finish, EndInquiry, EndCancel,
       Begin, CancelQueued
  <2>3. QED
    BY <2>1, <2>2
<1>5. CASE WorkerRuns
  BY <1>1, <1>5 DEF WorkerRuns, ArriveLate, WorkerExecutes, WorkerRetries, WorkerHandsOff,
     WorkerReclaims, WorkerPublishes
<1>6. CASE Crash
  BY <1>2, <1>6 DEF Crash
<1>7. QED
  BY <1>1, <1>3, <1>4, <1>5, <1>6, Kinds, NotifyingFrame, AskingFrame, SubmittingFrame DEF vars

\* The execution after a step, and what stays of its job.
LEMMA RunStep ==
    ASSUME IInv, [Next]_vars
    PROVE  run' \in Run /\ RunRefs'
<1> DEFINE Typed == run' \in Run /\ RunRefs'
<1>1. /\ run \in Run /\ RunRefs
      /\ \A j \in Jobs : job[j].state # "absent" => job'[j].state # "absent"
  BY RowsStay DEF IInv, TypeOK, RefsOK
<1>2. ASSUME run' = run
      PROVE  Typed
  BY <1>1, <1>2 DEF RunRefs, Known, NoRun
<1>3. ASSUME run' = NoRun
      PROVE  Typed
  BY <1>3 DEF RunRefs, NoRun, Run, RunPc, Seen
<1>4. ASSUME Known(run.job), NEW pc \in RunPc \ {"idle"}, NEW seen \in Seen, NEW keep \in BOOLEAN,
             run' = [job |-> run.job, pc |-> pc, seen |-> seen, keep |-> keep],
             pc \in {"lookup", "create"} => run.job \in CodexJobs,
             pc \in {"publish", "claim"} => run.job \in PublishJobs,
             pc = "answered" => seen \in LocalStates,
             pc = "done" => seen \in Notifiable \cup {"error", "stopped"},
             pc \notin {"answered", "done"} => seen = "none"
      PROVE  Typed
  BY <1>1, <1>4 DEF RunRefs, Known, Run
<1>5. ASSUME run.pc # "idle", NEW seen \in LocalStates, Answered(seen)
      PROVE  Typed
  <2>1. /\ run' = [job |-> run.job, pc |-> "answered", seen |-> seen, keep |-> run.keep]
        /\ run.keep \in BOOLEAN
    BY <1>1, <1>5 DEF Answered, Run
  <2>2. QED
    BY <1>1, <1>4, <1>5, <2>1 DEF RunRefs, RunPc, Seen
<1>6. ASSUME run.pc # "idle", Raised
      PROVE  Typed
  <2>1. /\ run' = [job |-> run.job, pc |-> "done", seen |-> "error", keep |-> run.keep]
        /\ run.keep \in BOOLEAN
    BY <1>1, <1>6 DEF Raised, Run
  <2>2. QED
    BY <1>1, <1>4, <1>6, <2>1 DEF RunRefs, RunPc, Seen
<1>7. ASSUME Known(run.job)
      PROVE  Target(run.job) \in CodexJobs /\ View(Target(run.job)) \in LocalStates
  <2>1. Target(run.job) \in CodexJobs
    BY <1>7, Targets DEF IInv, RefsOK
  <2>2. QED
    BY <2>1 DEF View, IInv, TypeOK, LocalStates
<1>8. CASE Executing
  <2>1. CASE Start
    <3>1. run.pc = "start" /\ run.seen = "none" /\ run.keep \in BOOLEAN /\ Known(run.job)
      BY <1>1, <2>1 DEF Start, RunRefs, Run
    <3>2. CASE run.job \in CodexJobs
      <4>1. run' = [job |-> run.job, pc |-> "lookup", seen |-> "none", keep |-> run.keep]
        BY <1>1, <2>1, <3>1, <3>2 DEF Start, Run
      <4>2. QED
        BY <1>4, <3>1, <3>2, <4>1 DEF RunPc, Seen, Calls
    <3>3. CASE run.job \notin CodexJobs
      <4>1. run' = [job |-> run.job, pc |-> "publish", seen |-> "none",
                    keep |-> job[Target(run.job)].acked]
        BY <1>1, <2>1, <3>1, <3>3 DEF Start, Run
      <4>2. job[Target(run.job)].acked \in BOOLEAN
        BY <1>7, <3>1 DEF IInv, TypeOK, Jobs
      <4>3. run.job \in PublishJobs
        BY <3>1, <3>3 DEF Known, Jobs
      <4>4. QED
        BY <1>4, <3>1, <4>1, <4>2, <4>3 DEF RunPc, Seen, Calls
    <3>4. QED
      BY <3>2, <3>3
  <2>2. CASE Look
    <3>1. run.pc \in {"lookup", "poll"} /\ Known(run.job) /\ run.seen = "none" /\ run.keep \in BOOLEAN
      BY <1>1, <2>2 DEF Look, RunRefs, Run
    <3>2. CASE remote[Target(run.job)] = "absent"
      <4>1. run' = [job |-> run.job, pc |-> "create", seen |-> "none", keep |-> run.keep]
        BY <1>1, <2>2, <3>1, <3>2 DEF Look, Run
      <4>2. run.job \in CodexJobs
        BY <1>1, <3>1, <3>2, Targets DEF RunRefs, IInv, RefsOK, AskedOK, Published, Known, Jobs
      <4>3. QED
        BY <1>4, <3>1, <4>1, <4>2 DEF RunPc, Seen, Calls
    <3>3. CASE remote[Target(run.job)] # "absent"
      BY <1>5, <1>7, <2>2, <3>1, <3>3 DEF Look
    <3>4. QED
      BY <3>2, <3>3
  <2>3. CASE Create
    BY <1>1, <1>5, <1>7, <2>3 DEF Create, RunRefs, LocalStates
  <2>4. CASE OrderPublication
    <3>1. run.pc = "publish" /\ Known(run.job) /\ run.seen = "none" /\ run.keep \in BOOLEAN
      BY <1>1, <2>4 DEF OrderPublication, RunRefs, Run
    <3>2. CASE run' = [run EXCEPT !.pc = "claim"]
      <4>1. run' = [job |-> run.job, pc |-> "claim", seen |-> "none", keep |-> run.keep]
        BY <1>1, <3>1, <3>2 DEF Run
      <4>2. QED
        BY <1>1, <1>4, <3>1, <4>1 DEF RunRefs, RunPc, Seen, Calls
    <3>3. QED
      BY <1>5, <1>6, <2>4, <3>1, <3>2 DEF OrderPublication, LocalStates
  <2>5. CASE ClaimPublication
    BY <1>5, <1>6, <2>5 DEF ClaimPublication, LocalStates
  <2>6. CASE CallFails
    BY <1>6, <2>6 DEF CallFails, Calls
  <2>7. QED
    BY <1>8, <2>1, <2>2, <2>3, <2>4, <2>5, <2>6 DEF Executing
<1>9. CASE RowMoves
  <2>1. CASE Digest
    <3>1. run.pc = "answered" /\ Known(run.job) /\ run.keep \in BOOLEAN
      BY <1>1, <2>1 DEF Digest, RunRefs, Run
    <3>2. CASE run.seen \in Notifiable /\ run' = [run EXCEPT !.pc = "done"]
      <4>1. run' = [job |-> run.job, pc |-> "done", seen |-> run.seen, keep |-> run.keep]
        BY <1>1, <3>1, <3>2 DEF Run
      <4>2. run.seen \in Seen
        BY <1>1 DEF Run
      <4>3. QED
        BY <1>4, <3>1, <3>2, <4>1, <4>2 DEF RunPc
    <3>3. CASE run' = [run EXCEPT !.pc = "poll", !.seen = "none"]
      <4>1. run' = [job |-> run.job, pc |-> "poll", seen |-> "none", keep |-> run.keep]
        BY <1>1, <3>1, <3>3 DEF Run
      <4>2. QED
        BY <1>4, <3>1, <4>1 DEF RunPc, Seen, Calls
    <3>4. QED
      BY <2>1, <3>2, <3>3, DigestEffect
  <2>2. CASE Finish
    BY <1>3, <2>2, FinishEffect
  <2>3. CASE Settle
    <3>1. CASE run.job = direct.job /\ run.pc # "done"
      <4>1. run' = [run EXCEPT !.pc = "done", !.seen = "stopped"]
        BY <2>3, <3>1 DEF Settle
      <4>2. direct.job \in Jobs
        BY <2>3 DEF Settle, IInv, RefsOK, DirectRefs, Known
      <4>3. run.pc # "idle"
        BY <1>1, <3>1, <4>2, JobsAssumption DEF RunRefs, NoRun
      <4>4. /\ run' = [job |-> run.job, pc |-> "done", seen |-> "stopped", keep |-> run.keep]
            /\ run.keep \in BOOLEAN /\ Known(run.job)
        BY <1>1, <4>1, <4>3 DEF Run, RunRefs
      <4>5. QED
        BY <1>4, <4>4 DEF RunPc, Seen
    <3>2. CASE run' = run
      BY <1>2, <3>2
    <3>3. QED
      BY <2>3, <3>1, <3>2 DEF Settle
  <2>4. ASSUME NEW j \in Jobs, Begin(j)
        PROVE  Typed
    <3>1. /\ run' = [job |-> j, pc |-> "start", seen |-> "none", keep |-> FALSE]
          /\ job[j].state # "absent"
      BY <2>4, BeginEffect DEF Runnable
    <3>2. QED
      BY <1>1, <3>1 DEF RunRefs, Known, Run, RunPc, Seen
  <2>5. CASE run' = run
    BY <1>2, <2>5
  <2>6. QED
    BY <1>9, <2>1, <2>2, <2>3, <2>4, <2>5 DEF RowMoves, Continue, Mark, EndInquiry, EndCancel,
       CancelQueued
<1>10. CASE Crash
  BY <1>3, <1>10 DEF Crash
<1>11. QED
  BY <1>2, <1>8, <1>9, <1>10, Kinds, NotifyingFrame, AskingFrame, WorkerFrame, SubmittingFrame
     DEF vars, core

\* The question in flight after a step.
LEMMA DirectStep ==
    ASSUME IInv, [Next]_vars
    PROVE  direct' \in Direct /\ DirectRefs'
<1> DEFINE Typed == direct' \in Direct /\ DirectRefs'
<1>1. /\ direct \in Direct /\ DirectRefs
      /\ \A j \in Jobs : job[j].state # "absent" => job'[j].state # "absent"
  BY RowsStay DEF IInv, TypeOK, RefsOK
<1>2. ASSUME direct' = direct
      PROVE  Typed
  BY <1>1, <1>2 DEF DirectRefs, Known, Idle
<1>3. ASSUME direct' = Idle
      PROVE  Typed
  BY <1>3 DEF DirectRefs, Idle, Direct
<1>4. ASSUME NEW j, Known(j), NEW op \in {"status", "cancel", "recheck"},
             NEW pc \in {"again", "call", "answered", "settle"}, NEW seen \in LocalStates \cup {"none"},
             direct' = [job |-> j, op |-> op, pc |-> pc, seen |-> seen],
             pc \in {"answered", "settle"} => seen \in LocalStates,
             pc = "settle" => op = "cancel"
      PROVE  Typed
  BY <1>1, <1>4 DEF DirectRefs, Known, Direct
<1>5. ASSUME direct.pc # "idle"
      PROVE  /\ Known(direct.job) /\ direct.op \in {"status", "cancel", "recheck"}
             /\ direct.seen \in LocalStates \cup {"none"}
  BY <1>1, <1>5 DEF Direct, DirectRefs
<1>6. ASSUME direct.pc # "idle", Recheck
      PROVE  Typed
  <2>1. direct' = [job |-> direct.job, op |-> "recheck", pc |-> "call", seen |-> "none"]
    BY <1>1, <1>6 DEF Direct, Recheck
  <2>2. QED
    BY <1>4, <1>5, <1>6, <2>1
<1>7. ASSUME direct.pc # "idle", DirectRaises
      PROVE  Typed
  BY <1>3, <1>6, <1>7 DEF DirectRaises
<1>8. ASSUME direct.pc # "idle", NEW seen \in LocalStates, Learn(seen)
      PROVE  Typed
  <2>1. direct' = [job |-> direct.job, op |-> direct.op, pc |-> "answered", seen |-> seen]
    BY <1>1, <1>8 DEF Direct, Learn
  <2>2. QED
    BY <1>4, <1>5, <1>8, <2>1
<1>9. ASSUME direct.pc = "call"
      PROVE  View(Target(direct.job)) \in LocalStates /\ remote[Target(direct.job)] \in LocalStates
  <2>1. Target(direct.job) \in CodexJobs
    BY <1>5, <1>9, Targets DEF IInv, RefsOK
  <2>2. QED
    BY <2>1 DEF View, IInv, TypeOK, LocalStates
<1>10. CASE Asking
  <2>1. CASE Inquire
    BY <1>7, <1>8, <1>9, <2>1 DEF Inquire
  <2>2. CASE ServeCancel
    BY <1>6, <1>8, <1>9, <2>2 DEF ServeCancel, LocalStates
  <2>3. CASE DirectFails
    BY <1>7, <2>3 DEF DirectFails
  <2>4. CASE Redo
    <3>1. CASE direct' = Idle
      BY <1>3, <3>1
    <3>2. CASE direct' = [direct EXCEPT !.pc = "call"]
      <4>1. direct' = [job |-> direct.job, op |-> direct.op, pc |-> "call", seen |-> direct.seen]
        BY <1>1, <3>2 DEF Direct
      <4>2. QED
        BY <1>4, <1>5, <2>4, <4>1 DEF Redo
    <3>3. QED
      BY <2>4, <3>1, <3>2 DEF Redo
  <2>5. ASSUME NEW j \in Jobs, AskStatus(j) \/ AskCancel(j)
        PROVE  Typed
    <3>1. Known(j)
      BY <2>5 DEF AskStatus, AskCancel, Known
    <3>2. \/ direct' = [job |-> j, op |-> "status", pc |-> "call", seen |-> "none"]
          \/ direct' = [job |-> j, op |-> "cancel", pc |-> "call", seen |-> "none"]
      BY <2>5 DEF AskStatus, AskCancel, Idle
    <3>3. QED
      BY <1>4, <3>1, <3>2
  <2>6. QED
    BY <1>10, <2>1, <2>2, <2>3, <2>4, <2>5 DEF Asking
<1>11. CASE RowMoves
  <2>1. CASE EndInquiry \/ Settle
    BY <1>3, <2>1 DEF EndInquiry, Settle
  <2>2. CASE EndCancel
    <3>1. CASE Recheck
      BY <1>6, <2>2, <3>1 DEF EndCancel
    <3>2. CASE direct' = [direct EXCEPT !.pc = "settle"]
      <4>1. direct.pc = "answered" /\ direct.op = "cancel" /\ direct.seen \in LocalStates
        BY <1>1, <2>2 DEF EndCancel, DirectRefs
      <4>2. direct' = [job |-> direct.job, op |-> direct.op, pc |-> "settle", seen |-> direct.seen]
        BY <1>1, <3>2 DEF Direct
      <4>3. QED
        BY <1>4, <1>5, <4>1, <4>2
    <3>3. QED
      BY <2>2, <3>1, <3>2 DEF EndCancel
  <2>3. CASE direct' = direct
    BY <1>2, <2>3
  <2>4. QED
    BY <1>11, <2>1, <2>2, <2>3 DEF RowMoves, Continue, Mark, Digest, Finish, Begin, CancelQueued
<1>12. CASE Crash
  <2>1. CASE direct = Idle
    BY <1>3, <1>12, <2>1 DEF Crash
  <2>2. CASE direct # Idle
    <3>1. direct.pc # "idle"
      BY <1>1, <2>2 DEF DirectRefs
    <3>2. direct' = [job |-> direct.job, pc |-> "again", seen |-> "none",
                     op |-> IF direct.op = "recheck" THEN "cancel" ELSE direct.op]
      BY <1>12, <2>2 DEF Crash, Idle
    <3>3. QED
      BY <1>4, <1>5, <3>1, <3>2
  <2>3. QED
    BY <2>1, <2>2
<1>13. QED
  BY <1>2, <1>10, <1>11, <1>12, Kinds, NotifyingFrame, ExecutingFrame, WorkerFrame, SubmittingFrame
     DEF vars, core

\* The rows refer to what they referred to, and a new one to a known job.
LEMMA RowRefsStep ==
    ASSUME IInv, [Next]_vars
    PROVE  RowRefs'
<1>1. TypeOK /\ RowRefs
  BY DEF IInv, RefsOK
<1>2. CASE job' = job
  BY <1>1, <1>2 DEF RowRefs
<1>3. ASSUME \A j \in Jobs : job'[j].target = job[j].target,
             \A j \in Jobs : job[j].state # "absent" <=> job'[j].state # "absent",
             \A j \in Jobs : job[j].state = "absent" => job'[j] = job[j]
      PROVE  RowRefs'
  BY <1>1, <1>3 DEF RowRefs, Jobs
<1>4. CASE RowMoves
  <2>1. ASSUME NEW j \in Jobs, job[j].state \in Notifiable, job' = [job EXCEPT ![j].acked = TRUE]
        PROVE  RowRefs'
    <3>1. \A k \in Jobs : job'[k].state = job[k].state /\ job'[k].target = job[k].target
      BY <1>1, <2>1, AckRow
    <3>2. \A k \in Jobs : job[k].state = "absent" => job'[k] = job[k]
      BY <1>1, <2>1, AckRow DEF Notifiable, Terminal
    <3>3. QED
      BY <1>3, <3>1, <3>2
  <2>2. ASSUME NEW j \in Jobs, NEW s \in LocalStates, NEW keep \in BOOLEAN, Transition(j, s, keep)
        PROVE  RowRefs'
    <3>1. s # "absent" /\ Moves(j, s, keep) /\ job[j].state # "absent"
      BY <2>2 DEF Transition, Notifiable, Terminal
    <3>2. QED
      BY <1>1, <1>3, <3>1, MovesRow
  <2>3. QED
    BY <1>2, <1>4, <2>1, <2>2, RowChange DEF SomeTransition
<1>5. CASE Submitting
  <2>1. PICK j \in Jobs, t \in CodexJobs :
             /\ job[j].state = "absent"
             /\ job' = [job EXCEPT ![j] = [state |-> "queued", acked |-> FALSE, target |-> t]]
             /\ \A k \in Jobs : k < j => job[k].state # "absent"
             /\ \/ j \in CodexJobs /\ t = j
                \/ j \in PublishJobs /\ job[t].state # "absent"
    BY <1>1, <1>5, SubmitEffect
  <2>2. /\ job'[j] = [state |-> "queued", acked |-> FALSE, target |-> t]
        /\ \A k \in Jobs \ {j} : job'[k] = job[k]
    BY <1>1, <2>1 DEF TypeOK
  <2>3. CASE j \in CodexJobs /\ t = j
    BY <1>1, <2>1, <2>2, <2>3, JobsAssumption DEF RowRefs, Jobs
  <2>4. CASE j \in PublishJobs /\ job[t].state # "absent"
    <3>1. t < j /\ t # j /\ j \notin CodexJobs
      <4>1. j # t
        BY <2>1, <2>4
      <4>2. ~(j < t)
        BY <1>1, <2>1, <2>4 DEF RowRefs, Jobs
      <4>3. QED
        BY <2>4, <4>1, <4>2, JobsAssumption DEF Jobs
    <3>2. \A i, k \in Jobs : i < k /\ job'[k].state # "absent" => job'[i].state # "absent"
      BY <1>1, <2>1, <2>2 DEF RowRefs
    <3>3. \A k \in Jobs : job'[k].state = "absent" => job'[k].target = None /\ ~job'[k].acked
      BY <1>1, <2>2 DEF RowRefs
    <3>4. \A c \in CodexJobs : job'[c].state # "absent" => job'[c].target = c
      BY <1>1, <2>2, <3>1 DEF RowRefs, Jobs
    <3>5. \A p \in PublishJobs : job'[p].state # "absent" =>
            /\ job'[p].target \in CodexJobs /\ job'[p].target < p
            /\ job'[job'[p].target].state # "absent"
      <4>1. ASSUME NEW p \in PublishJobs, p # j, job'[p].state # "absent"
            PROVE  /\ job'[p].target \in CodexJobs /\ job'[p].target < p
                   /\ job'[job'[p].target].state # "absent"
        <5>1. job'[p] = job[p] /\ p \in Jobs
          BY <2>2, <4>1 DEF Jobs
        <5>2. /\ job[p].target \in CodexJobs /\ job[p].target < p
              /\ job[job[p].target].state # "absent" /\ job[p].target # j
          BY <1>1, <2>1, <4>1, <5>1 DEF RowRefs
        <5>3. QED
          BY <2>2, <5>1, <5>2 DEF Jobs
      <4>2. QED
        BY <2>2, <2>4, <3>1, <4>1 DEF Jobs
    <3>6. QED
      BY <3>2, <3>3, <3>4, <3>5 DEF RowRefs
  <2>5. QED
    BY <2>1, <2>3, <2>4
<1>6. QED
  BY <1>2, <1>4, <1>5, Kinds, NotifyingFrame, ExecutingFrame, AskingFrame, WorkerFrame, CrashFrame
     DEF vars, db

\* Between two transitions of a row there is nothing but the second.
LEMMA SyncStep ==
    ASSUME IInv, [Next]_vars
    PROVE  SyncRefs' /\ sync' \in [job: Jobs \cup {None}, rest: Seq(LocalStates), keep: BOOLEAN]
<1> DEFINE Typed == /\ SyncRefs'
                    /\ sync' \in [job: Jobs \cup {None}, rest: Seq(LocalStates), keep: BOOLEAN]
<1>1. /\ TypeOK /\ SyncRefs
      /\ sync \in [job: Jobs \cup {None}, rest: Seq(LocalStates), keep: BOOLEAN]
  BY DEF IInv, RefsOK, TypeOK
<1>2. CASE UNCHANGED <<job, sync>>
  BY <1>1, <1>2 DEF SyncRefs, NoSync
<1>3. CASE sync' = NoSync
  BY <1>3 DEF SyncRefs, NoSync
<1>4. CASE RowMoves
  <2>1. ASSUME NEW j \in Jobs, job' = [job EXCEPT ![j].acked = TRUE], UNCHANGED sync
        PROVE  Typed
    <3>1. \A k \in Jobs : job'[k].state = job[k].state
      BY <1>1, <2>1, AckRow
    <3>2. QED
      BY <1>1, <2>1, <3>1 DEF SyncRefs, NoSync, Jobs
  <2>2. ASSUME NEW j \in Jobs, NEW s \in LocalStates, NEW keep \in BOOLEAN, Transition(j, s, keep)
        PROVE  Typed
    <3>1. CASE /\ s = "publishing" /\ j \in CodexJobs
               /\ sync' = [job |-> j, rest |-> <<"succeeded">>, keep |-> keep]
      <4>1. job'[j].state = "publishing"
        BY <1>1, <2>2, <3>1, MovesRow DEF Transition
      <4>2. QED
        BY <3>1, <4>1 DEF SyncRefs, LocalStates
    <3>2. QED
      BY <1>3, <2>2, <3>1 DEF Transition
  <2>3. QED
    BY <1>2, <1>4, <2>1, <2>2, RowChange DEF SomeTransition
<1>5. CASE Submitting
  <2>1. sync = NoSync /\ UNCHANGED sync
    BY <1>1, <1>5, SubmitEffect, SubmittingFrame DEF LoopFree, SyncRefs, core
  <2>2. QED
    BY <1>3, <2>1
<1>6. CASE Crash
  BY <1>3, <1>6 DEF Crash
<1>7. QED
  BY <1>2, <1>4, <1>5, <1>6, Kinds, NotifyingFrame, ExecutingFrame, AskingFrame, WorkerFrame
     DEF vars, db, core

-----------------------------------------------------------------------------
(* Notifications.                                                          *)

\* What is announced once has an outcome from then on.
LEMMA AnnouncedStays ==
    ASSUME IInv, [Next]_vars, ~Crash
    PROVE  \A j \in Jobs : Announced(j) => Announced(j)'
<1>1. TypeOK /\ SyncRefs
  BY DEF IInv, RefsOK
<1>2. CASE UNCHANGED <<job, sync>>
  BY <1>2 DEF Announced
<1>3. CASE RowMoves
  <2>1. ASSUME NEW j \in Jobs, job' = [job EXCEPT ![j].acked = TRUE], UNCHANGED sync
        PROVE  \A k \in Jobs : Announced(k) => Announced(k)'
    <3>1. \A k \in Jobs : job'[k].state = job[k].state
      BY <1>1, <2>1, AckRow
    <3>2. QED
      BY <2>1, <3>1 DEF Announced
  <2>2. ASSUME NEW j \in Jobs, NEW s \in LocalStates, NEW keep \in BOOLEAN, Transition(j, s, keep)
        PROVE  \A k \in Jobs : Announced(k) => Announced(k)'
    <3>1. job'[j].state = s /\ \A k \in Jobs \ {j} : job'[k] = job[k]
      BY <1>1, <2>2, MovesRow DEF Transition
    <3>2. \A k \in Jobs \ {j} : Announced(k) => Announced(k)'
      BY <2>2, <3>1 DEF Transition, Announced, NoSync
    <3>3. s \in Notifiable => Announced(j)'
      BY <3>1 DEF Announced
    <3>4. s = "publishing" /\ sync' = [job |-> j, rest |-> <<"succeeded">>, keep |-> keep]
          => Announced(j)'
      BY DEF Announced
    <3>5. s = "running" /\ job[j].state = "queued" => ~Announced(j)
      BY <1>1 DEF Announced, SyncRefs, Notifiable, Terminal
    <3>6. QED
      BY <2>2, <3>2, <3>3, <3>4, <3>5 DEF Transition
  <2>3. QED
    BY <1>2, <1>3, <2>1, <2>2, RowChange DEF SomeTransition
<1>4. CASE Submitting
  <2>1. PICK j \in Jobs, t \in CodexJobs :
             /\ job[j].state = "absent" /\ LoopFree
             /\ job' = [job EXCEPT ![j] = [state |-> "queued", acked |-> FALSE, target |-> t]]
    BY <1>1, <1>4, SubmitEffect
  <2>2. \A k \in Jobs \ {j} : job'[k] = job[k]
    BY <1>1, <2>1 DEF TypeOK
  <2>3. QED
    BY <2>1, <2>2 DEF Announced, LoopFree, Notifiable, Terminal
<1>5. QED
  BY <1>2, <1>3, <1>4, Kinds, NotifyingFrame, ExecutingFrame, AskingFrame, WorkerFrame
     DEF vars, db, core

LEMMA RangeTail ==
    ASSUME NEW q \in Seq(Jobs), q # <<>>
    PROVE  Tail(q) \in Seq(Jobs) /\ Range(Tail(q)) \subseteq Range(q) /\ Head(q) \in Range(q)
BY DEF Range

LEMMA RangeAppend ==
    ASSUME NEW q \in Seq(Jobs), NEW j \in Jobs
    PROVE  Append(q, j) \in Seq(Jobs) /\ Range(Append(q, j)) \subseteq Range(q) \cup {j}
BY DEF Range

LEMMA RangeConcat ==
    ASSUME NEW q \in Seq(Jobs), NEW r \in Seq(Jobs)
    PROVE  q \o r \in Seq(Jobs) /\ Range(q \o r) \subseteq Range(q) \cup Range(r)
BY DEF Range

\* The jobs due are finitely many, and those put in the queue are due.
LEMMA InOrderType ==
    ASSUME NEW S \in SUBSET Jobs, NEW q \in InOrder(S)
    PROVE  q \in Seq(Jobs) /\ Range(q) \subseteq S
<1>1. IsFiniteSet(S)
  BY JobsAssumption, FS_Subset
<1>2. Cardinality(S) \in Nat
  BY <1>1, FS_CardinalityType
<1>3. q \in [1..Cardinality(S) -> S]
  BY DEF InOrder
<1>4. QED
  BY <1>2, <1>3 DEF Range

LEMMA NoticeStep ==
    ASSUME IInv, [Next]_vars
    PROVE  /\ NoticeRefs' /\ notice' \in [job: Jobs \cup {None}, pc: {"idle", "tell", "mark"}]
           /\ queue' \in Seq(Jobs) /\ retry' \subseteq Jobs
<1> DEFINE Typed == /\ NoticeRefs'
                    /\ notice' \in [job: Jobs \cup {None}, pc: {"idle", "tell", "mark"}]
                    /\ queue' \in Seq(Jobs) /\ retry' \subseteq Jobs
<1>1. /\ TypeOK /\ NoticeRefs /\ SyncRefs
      /\ notice \in [job: Jobs \cup {None}, pc: {"idle", "tell", "mark"}]
      /\ queue \in Seq(Jobs) /\ retry \subseteq Jobs /\ Range(queue) \subseteq Jobs
  BY DEF IInv, TypeOK, RefsOK, Range
<1>0. CASE Crash
  BY <1>0 DEF Crash, NoticeRefs, NoNotice, Range
<1> SUFFICES ASSUME ~Crash PROVE Typed
  BY <1>0
<1>2. ASSUME queue' \in Seq(Jobs), retry' \subseteq Jobs,
             \A j \in Range(queue') : j \in Jobs /\ Announced(j),
             \A j \in retry' : Announced(j)
      PROVE  /\ queue' \in Seq(Jobs) /\ retry' \subseteq Jobs
             /\ \A j \in Range(queue') \cup retry' : Announced(j)'
  BY <1>2, AnnouncedStays
<1>3. ASSUME UNCHANGED <<queue, retry>>
      PROVE  /\ queue' \in Seq(Jobs) /\ retry' \subseteq Jobs
             /\ \A j \in Range(queue') \cup retry' : Announced(j)'
  BY <1>1, <1>2, <1>3 DEF NoticeRefs
<1>4. ASSUME UNCHANGED <<notice, queue, retry>>, notice.pc = "mark" => sync'.rest = <<>>,
             notice.pc # "idle" => direct'.pc # "settle"
      PROVE  Typed
  <2>1. notice.pc # "idle" => Announced(notice.job)'
    BY <1>1, <1>4, AnnouncedStays DEF NoticeRefs
  <2>2. QED
    BY <1>1, <1>3, <1>4, <2>1 DEF NoticeRefs, NoNotice
<1>5. ASSUME NEW j \in Jobs, Announced(j)', Announce(j), UNCHANGED <<queue, retry>>,
             direct'.pc # "settle"
      PROVE  Typed
  BY <1>1, <1>3, <1>5 DEF NoticeRefs, Announce
<1>6. ASSUME notice.pc # "idle", TryAgain(notice.job), UNCHANGED queue
      PROVE  Typed
  BY <1>1, <1>2, <1>6 DEF NoticeRefs, TryAgain, NoNotice
<1>7. CASE Notifying
  <2>1. CASE Tell
    <3>1. notice.pc = "tell" /\ sync.rest = <<>> /\ UNCHANGED <<job, sync, queue, direct>>
      BY <2>1, <1>7, NotifyingFrame DEF Tell
    <3>2. CASE notice' = NoNotice /\ retry' = retry \ {notice.job}
      BY <1>1, <1>2, <3>1, <3>2 DEF NoticeRefs, NoNotice
    <3>3. CASE notice' = [notice EXCEPT !.pc = "mark"] /\ UNCHANGED retry
      <4>1. notice' = [job |-> notice.job, pc |-> "mark"] /\ Announced(notice.job)'
        BY <1>1, <3>1, <3>3, AnnouncedStays DEF NoticeRefs
      <4>2. QED
        BY <1>1, <1>3, <3>1, <3>3, <4>1 DEF NoticeRefs
    <3>4. QED
      BY <1>6, <2>1, <3>1, <3>2, <3>3 DEF Tell
  <2>2. CASE NotifyFails
    BY <1>6, <2>2 DEF NotifyFails
  <2>3. CASE TakeNotice
    <3>1. notice = NoNotice /\ queue # <<>> /\ queue' = Tail(queue) /\ direct.pc # "settle"
          /\ UNCHANGED <<retry, job, sync, direct>>
      BY <1>1, <1>7, <2>3, NotifyingFrame DEF TakeNotice, LoopFree, NoticeRefs
    <3>2. /\ queue' \in Seq(Jobs) /\ retry' \subseteq Jobs
          /\ \A j \in Range(queue') \cup retry' : Announced(j)'
      BY <1>1, <1>2, <3>1, RangeTail DEF NoticeRefs
    <3>3. PICK h \in Jobs : h = Head(queue) /\ Announced(h)
      BY <1>1, <3>1, RangeTail DEF NoticeRefs
    <3>4. Announced(h)'
      BY <3>3, AnnouncedStays
    <3>5. CASE notice' = notice
      BY <1>1, <3>1, <3>2, <3>5 DEF NoticeRefs, NoNotice
    <3>6. CASE notice' = [job |-> h, pc |-> "tell"]
      BY <1>1, <3>1, <3>2, <3>4, <3>6 DEF NoticeRefs
    <3>7. QED
      BY <2>3, <3>3, <3>5, <3>6 DEF TakeNotice, Announce
  <2>4. CASE SchedulerStarts
    <3>1. PICK q \in InOrder(Due \ Range(queue)) : queue' = queue \o q
      BY <2>4 DEF SchedulerStarts
    <3>2. q \in Seq(Jobs) /\ Range(q) \subseteq Due
      BY InOrderType DEF Due
    <3>3. queue' \in Seq(Jobs) /\ \A j \in Range(queue') : j \in Jobs /\ Announced(j)
      BY <1>1, <3>1, <3>2, RangeConcat DEF NoticeRefs, Due, Announced
    <3>4. /\ queue' \in Seq(Jobs) /\ retry' \subseteq Jobs
          /\ \A j \in Range(queue') \cup retry' : Announced(j)'
      BY <1>1, <1>2, <2>4, <3>3 DEF SchedulerStarts, NoticeRefs
    <3>5. notice = NoNotice /\ notice' = notice
      BY <1>1, <2>4 DEF SchedulerStarts, LoopFree, NoticeRefs
    <3>6. QED
      BY <1>1, <3>4, <3>5 DEF NoticeRefs, NoNotice
  <2>5. CASE Connect
    <3>1. notice.pc = "idle"
      BY <2>5 DEF Connect, LoopFree
    <3>2. QED
      BY <1>4, <2>5, <3>1 DEF Connect
  <2>6. ASSUME NEW j \in Jobs, RetryDue(j)
        PROVE  Typed
    <3>1. /\ notice = NoNotice /\ notice' = notice /\ j \in retry /\ retry' = retry \ {j}
          /\ queue' = queue \/ queue' = Append(queue, j)
      BY <1>1, <2>6 DEF RetryDue, LoopFree, NoticeRefs
    <3>2. queue' \in Seq(Jobs) /\ \A k \in Range(queue') : k \in Jobs /\ Announced(k)
      <4>1. \A k \in Range(queue) \cup {j} : k \in Jobs /\ Announced(k)
        BY <1>1, <3>1 DEF NoticeRefs
      <4>2. queue' \in Seq(Jobs) /\ Range(queue') \subseteq Range(queue) \cup {j}
        <5>1. j \in Jobs /\ queue \in Seq(Jobs)
          BY <1>1
        <5>2. CASE queue' = queue
          BY <1>1, <5>2
        <5>3. CASE queue' = Append(queue, j)
          BY <5>1, <5>3, RangeAppend
        <5>4. QED
          BY <3>1, <5>2, <5>3
      <4>3. QED
        BY <4>1, <4>2
    <3>3. /\ queue' \in Seq(Jobs) /\ retry' \subseteq Jobs
          /\ \A k \in Range(queue') \cup retry' : Announced(k)'
      BY <1>1, <1>2, <3>1, <3>2 DEF NoticeRefs
    <3>4. QED
      BY <1>1, <3>1, <3>3 DEF NoticeRefs, NoNotice
  <2>7. QED
    BY <1>7, <2>1, <2>2, <2>3, <2>4, <2>5, <2>6 DEF Notifying
<1>8. CASE Executing \/ WorkerRuns \/ Submitting
  <2>1. UNCHANGED <<notice, queue, retry, direct, sync>>
    BY <1>8, ExecutingFrame, WorkerFrame, SubmittingFrame DEF core
  <2>2. QED
    BY <1>1, <1>4, <2>1 DEF NoticeRefs
<1>9. CASE Asking
  <2>1. UNCHANGED <<notice, queue, retry, sync>>
    BY <1>9, AskingFrame
  <2>2. direct'.pc # "settle"
    <3>1. direct \in Direct
      BY <1>1 DEF TypeOK
    <3>2. Recheck => direct'.pc = "call"
      BY <3>1 DEF Recheck, Direct
    <3>3. \A seen : Learn(seen) => direct'.pc = "answered"
      BY <3>1 DEF Learn, Direct
    <3>4. DirectRaises => direct'.pc \in {"call", "idle"}
      BY <3>2 DEF DirectRaises, Idle
    <3>5. Redo => direct'.pc \in {"call", "idle"}
      BY <3>1 DEF Redo, Direct, Idle
    <3>6. \A j \in Jobs : AskStatus(j) \/ AskCancel(j) => direct'.pc = "call"
      BY DEF AskStatus, AskCancel, Idle
    <3>7. QED
      BY <1>9, <3>2, <3>3, <3>4, <3>5, <3>6 DEF Asking, Inquire, ServeCancel, DirectFails
  <2>3. QED
    BY <1>1, <1>4, <2>1, <2>2 DEF NoticeRefs
<1>10. CASE RowMoves
  <2>1. CASE Continue
    <3>1. UNCHANGED <<notice, queue, retry, direct>> /\ sync'.rest = <<>>
      BY <1>1, <2>1, ContinueEffect DEF Continue, NoSync
    <3>2. QED
      BY <1>1, <1>4, <3>1 DEF NoticeRefs
  <2>2. CASE Mark
    <3>1. notice.pc = "mark" /\ UNCHANGED queue
      BY <2>2 DEF Mark
    <3>2. CASE notice' = NoNotice /\ retry' = retry \ {notice.job}
      BY <1>1, <1>2, <3>1, <3>2 DEF NoticeRefs, NoNotice
    <3>3. QED
      BY <1>6, <2>2, <3>1, <3>2 DEF Mark
  <2>3. CASE Settle
    <3>1. PICK j \in Jobs : j = direct.job
      BY <2>3 DEF Settle, IInv, RefsOK, DirectRefs, Known
    <3>2. Announced(j)'
      <4>1. CASE job[j].state \in Terminal
        BY <4>1, AnnouncedStays DEF Announced, Notifiable
      <4>2. CASE job[j].state \notin Terminal
        <5>1. Moves(j, "cancelled", FALSE)
          BY <2>3, <3>1, <4>2 DEF Settle, Moves
        <5>2. job'[j].state = "cancelled"
          BY <1>1, <5>1, MovesRow DEF LocalStates
        <5>3. QED
          BY <5>2 DEF Announced, Notifiable, Terminal
      <4>3. QED
        BY <4>1, <4>2
    <3>3. Announce(j) /\ UNCHANGED <<queue, retry>> /\ direct' = Idle
      BY <2>3, <3>1 DEF Settle, Announce
    <3>4. QED
      BY <1>5, <3>2, <3>3 DEF Idle
  <2>4. CASE Digest \/ EndInquiry \/ EndCancel \/ \E j \in Jobs : Begin(j)
    <3>1. notice.pc = "idle" /\ UNCHANGED <<notice, queue, retry>>
      BY <2>4 DEF Digest, EndInquiry, EndCancel, Begin, LoopFree
    <3>2. QED
      BY <1>4, <3>1
  <2>5. CASE Finish
    <3>1. /\ run.job \in Jobs /\ notice.pc = "idle" /\ UNCHANGED <<queue, retry, direct>>
          /\ direct.pc # "settle" /\ run.pc = "done"
      BY <2>5, FinishEffect DEF Finish, LoopFree, Known
    <3>2. CASE UNCHANGED notice
      BY <1>4, <3>1, <3>2
    <3>3. CASE Announce(run.job)
      <4>1. CASE job[run.job].state \in Terminal
        <5>1. Announced(run.job)
          BY <4>1 DEF Announced, Notifiable
        <5>2. QED
          BY <1>5, <3>1, <3>3, <5>1, AnnouncedStays
      <4>2. CASE job[run.job].state \notin Terminal
        <5>1. CASE Moves(run.job, "failed", FALSE)
          <6>1. job'[run.job].state = "failed"
            BY <1>1, <3>1, <5>1, MovesRow DEF LocalStates
          <6>2. QED
            BY <1>5, <3>1, <3>3, <6>1 DEF Announced, Notifiable, Terminal
        <5>2. CASE run.seen \in Notifiable /\ Moves(run.job, Outcome(run.job, run.seen), FALSE)
          <6>1. Outcome(run.job, run.seen) \in Notifiable
            BY <5>2 DEF Outcome, Notifiable, Terminal
          <6>2. job'[run.job].state \in Notifiable
            BY <1>1, <3>1, <5>2, <6>1, MovesRow DEF LocalStates, Notifiable, Terminal
          <6>3. QED
            BY <1>5, <3>1, <3>3, <6>2 DEF Announced
        <5>3. CASE run.job \in CodexJobs /\ RunHeard /\ Copied(run.job, run.seen, FALSE)
          <6>1. run.seen \in Notifiable
            BY <3>1, <5>3 DEF IInv, RefsOK, RunRefs, RunHeard, LocalStates
          <6>2. CASE UNCHANGED <<job, sync>> /\ job[run.job].state = run.seen
            BY <1>5, <3>1, <3>3, <6>1, <6>2 DEF Announced
          <6>3. CASE sync' = [job |-> run.job, rest |-> <<"succeeded">>, keep |-> FALSE]
            BY <1>5, <3>1, <3>3, <6>3 DEF Announced
          <6>4. CASE Moves(run.job, run.seen, FALSE)
            <7>1. job'[run.job].state = run.seen
              BY <1>1, <3>1, <6>1, <6>4, MovesRow DEF LocalStates, Notifiable, Terminal
            <7>2. QED
              BY <1>5, <3>1, <3>3, <6>1, <7>1 DEF Announced
          <6>5. QED
            BY <4>2, <5>3, <6>1, <6>2, <6>3, <6>4 DEF Copied
        <5>4. QED
          BY <2>5, <4>2, <5>1, <5>2, <5>3, FinishEffect
      <4>3. QED
        BY <4>1, <4>2
    <3>4. QED
      BY <2>5, <3>2, <3>3 DEF Finish
  <2>6. ASSUME NEW j \in Jobs, CancelQueued(j)
        PROVE  Typed
    <3>1. Moves(j, "cancelled", FALSE)
      BY <2>6 DEF CancelQueued, Moves
    <3>2. job'[j].state = "cancelled"
      BY <1>1, <3>1, MovesRow DEF LocalStates
    <3>3. Announced(j)'
      BY <3>2 DEF Announced, Notifiable, Terminal
    <3>4. QED
      BY <1>5, <2>6, <3>3 DEF CancelQueued, Free, Idle
  <2>7. QED
    BY <1>10, <2>1, <2>2, <2>3, <2>4, <2>5, <2>6 DEF RowMoves
<1>11. CASE UNCHANGED vars
  BY <1>1, <1>4, <1>11 DEF vars, NoticeRefs
<1>12. QED
  BY <1>7, <1>8, <1>9, <1>10, <1>11, Kinds

-----------------------------------------------------------------------------
\* The state after a step has its type, and refers to what it should.
LEMMA TypeStep ==
    ASSUME IInv, [Next]_vars
    PROVE  TypeOK' /\ RefsOK'
<1>1. told' \in [Jobs -> Notifiable \cup {"none"}]
  <2>1. told \in [Jobs -> Notifiable \cup {"none"}]
    BY DEF IInv, TypeOK
  <2>2. CASE Tell
    <3>1. notice.job \in Jobs /\ Announced(notice.job) /\ sync.rest = <<>>
      BY <2>2 DEF Tell, IInv, RefsOK, NoticeRefs
    <3>2. job[notice.job].state \in Notifiable
      BY <3>1 DEF Announced
    <3>3. QED
      BY <2>1, <2>2, <3>2 DEF Tell
  <2>3. CASE UNCHANGED told
    BY <2>1, <2>3
  <2>4. CASE Notifying
    BY <2>2, <2>3, <2>4 DEF Notifying, NotifyFails, TakeNotice, SchedulerStarts, Connect, RetryDue, db
  <2>5. QED
    BY <2>3, <2>4, Kinds, ExecutingFrame, AskingFrame, WorkerFrame, SubmittingFrame, RowFrame,
       CrashFrame DEF vars, db
<1>2. late' \subseteq Late
  BY LateStep DEF IInv, TypeOK
<1>3. phase' \in {"recovering", "starting", "serving"}
  <2>1. CASE Notifying
    BY <2>1 DEF Notifying, Tell, NotifyFails, TakeNotice, SchedulerStarts, Connect, RetryDue, IInv, TypeOK
  <2>2. CASE UNCHANGED phase
    BY <2>2 DEF IInv, TypeOK
  <2>3. CASE Crash
    BY <2>3 DEF Crash
  <2>4. QED
    BY <2>1, <2>2, <2>3, Kinds, ExecutingFrame, AskingFrame, WorkerFrame, SubmittingFrame, RowFrame
       DEF vars, core
<1>4. asked' \subseteq Jobs
  <2>1. asked \subseteq Jobs
    BY DEF IInv, TypeOK
  <2>2. CASE UNCHANGED asked
    BY <2>1, <2>2
  <2>3. CASE Asking
    BY <2>1, <2>3 DEF Asking, Inquire, ServeCancel, DirectFails, Redo, AskStatus, AskCancel, ghosts
  <2>4. CASE RowMoves
    BY <2>1, <2>4 DEF RowMoves, Continue, Mark, Settle, Digest, Finish, EndInquiry, EndCancel,
       Begin, CancelQueued, ghosts
  <2>5. QED
    BY <2>2, <2>3, <2>4, Kinds, NotifyingFrame, ExecutingFrame, WorkerFrame, SubmittingFrame,
       CrashFrame DEF vars, ghosts
<1>5. job' \in [Jobs -> Row] /\ RowRefs'
  BY RowsStay, RowRefsStep
<1>6. /\ run' \in Run /\ RunRefs' /\ direct' \in Direct /\ DirectRefs'
      /\ SyncRefs' /\ sync' \in [job: Jobs \cup {None}, rest: Seq(LocalStates), keep: BOOLEAN]
  BY RunStep, DirectStep, SyncStep
<1>7. used' \in [directs: Nat, failures: Nat, crashes: Nat, retries: Nat, reclaims: Nat]
  BY UsedStep DEF IInv
<1>8. TypeOK'
  BY <1>1, <1>2, <1>3, <1>4, <1>5, <1>6, <1>7, NoticeStep, WorkerType DEF TypeOK, Row
<1>9. RefsOK'
  BY <1>5, <1>6, NoticeStep DEF RefsOK
<1>10. QED
  BY <1>8, <1>9

=============================================================================
