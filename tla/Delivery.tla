-------------------------------- MODULE Delivery --------------------------------
(***************************************************************************)
(* How the Poo-IA core answers: a Discord message is registered, executed, *)
(* its outputs are stored in the SQLite outbox and sent part by part, and  *)
(* a delivered answer becomes conversation memory.  Modelled from          *)
(* app/discord_bot.py (on_message, the delivery loop), app/orchestrator.py *)
(* (handle, direct execution, recovery), app/progress.py (receipts and     *)
(* waiting messages), app/outbox.py (flush) and app/storage.py (the        *)
(* transactions).                                                          *)
(*                                                                         *)
(* The core is one asyncio thread: coroutines interleave only where they   *)
(* await.  A program counter in Synchronous is a coroutine between two     *)
(* SQLite transactions; nothing else runs then, but the process may die.   *)
(***************************************************************************)
EXTENDS Integers, Sequences, FiniteSets

CONSTANTS
    Conversations,  \* each one is the set of the messages that arrive in it
    Chats,          \* the messages with Intent.CHAT
    Forgets,        \* the messages with Intent.FORGET
    JobMessages,    \* the messages that create a job; all others are queries
    Tasks,          \* on_message coroutines, at most one delivery each
    Starter,        \* the coroutine that recovers direct messages at start-up
    None,           \* Python's None
    Redelivery,     \* whether Discord may deliver a message twice
    StorageFails,   \* whether SQLite may be too broken to record a failure
    MaxParts,       \* bound: parts of an answer
    MaxNotices,     \* bound: receipts and waiting messages of a coroutine or job
    MaxCrashes,     \* bound: crashes of the process
    MaxFailures,    \* bound: exceptions in a coroutine
    MaxLosses       \* bound: sends whose result is an error

Messages == UNION Conversations

ASSUME ConversationsAssumption ==
    \A c, d \in Conversations : c = d \/ c \cap d = {}
ASSUME IntentsAssumption ==
    /\ Chats \subseteq Messages /\ Forgets \subseteq Messages
    /\ JobMessages \subseteq Messages
    /\ Chats \cap Forgets = {} /\ JobMessages \cap (Chats \cup Forgets) = {}
ASSUME IdsAssumption ==
    /\ Starter \notin Tasks /\ None \notin Tasks \cup {Starter} \cup Messages
ASSUME BoundsAssumption ==
    /\ {Redelivery, StorageFails} \subseteq BOOLEAN /\ MaxParts \in Nat \ {0}
    /\ MaxNotices \in Nat /\ MaxCrashes \in Nat /\ MaxFailures \in Nat
    /\ MaxLosses \in Nat

VARIABLES
    \* the SQLite database
    request,   \* message -> its row of inbound_requests
    arrival,   \* the registered messages, by (created_at, rowid)
    job,       \* message -> the state of its job, as delivery sees it
    gen,       \* conversation -> memory_generation
    exchanges, \* the messages whose exchange is stored
    out,       \* the outbox, by (created_at, id)
    \* Discord
    shown,     \* the <<output, part>> pairs the user sees, in order
    \* the process
    task,      \* coroutine -> what it is doing
    lock,      \* conversation -> the coroutine holding its memory lock
    flush,     \* the flush that holds the delivery lock: whose it is, the part it
               \* sends, and the rest of its snapshot
    recovery,  \* the messages start() still has to recover
    used       \* how much of each bound has been spent

vars == <<request, arrival, job, gen, exchanges, out, shown, task, lock, flush,
          recovery, used>>

-----------------------------------------------------------------------------
ConvOf(m) == CHOOSE c \in Conversations : m \in c

Workers == Tasks \cup {Starter}

Intents  == {"none", "chat", "forget", "query", "job"}
IntentOf(m) == CASE m \in Chats -> "chat"
                 [] m \in Forgets -> "forget"
                 [] m \in JobMessages -> "job"
                 [] OTHER -> "query"

Statuses == {"absent", "received", "processing", "completed", "failed"}
\* payload: the conversation context rendered into the payload of its job.
Request  == [status: Statuses, intent: Intents, gen: Nat,
             payload: SUBSET Messages]
NoRequest == [status |-> "absent", intent |-> "none", gen |-> 0, payload |-> {}]

\* "kept" and "dropped": the job ended with an outcome that is, or is not,
\* remembered, and its final notification is still pending.
JobStates == {"none", "queued", "active", "kept", "dropped", "notified"}

FinalKinds == {"response", "error"}
Kinds      == FinalKinds \cup {"ack", "progress"}
Output     == [req: Messages, kind: Kinds, key: Nat, size: 1..MaxParts,
               acked: SUBSET (1..MaxParts), done: BOOLEAN, remember: BOOLEAN]

Synchronous == {"registered", "forgot", "answered", "reported"}
Worker == [req: Messages \cup {None},
           pc: Synchronous \cup {"idle", "lock", "backend", "failing", "flush",
                                 "flushing", "done"},
           context: SUBSET Messages,   \* exchanges rendered into its prompt
           notices: Nat]               \* receipts it has tried to send
Idle == [req |-> None, pc |-> "idle", context |-> {}, notices |-> 0]

NoPart    == <<0, 0>>
Unflushed == [by |-> None, part |-> NoPart, todo |-> {}]

\* No coroutine is between two transactions.
LoopFree == \A w \in Workers : task[w].pc \notin Synchronous

\* PooIAOrchestrator.start has returned: Discord may deliver messages.
Ready == recovery = {} /\ task[Starter].pc = "idle"

-----------------------------------------------------------------------------
(* The outbox.                                                             *)

\* Mutant: receipts and progress count as the answer.
HasFinalAny(q, m) == \E i \in DOMAIN q : q[i].req = m

\* SQLiteStorage.request_has_final_outbox
HasFinal(q, m) == \E i \in DOMAIN q : q[i].req = m /\ q[i].kind \in FinalKinds

\* The idempotency key (request_id, kind, dedupe_key).
Same(o, p) == o.req = p.req /\ o.kind = p.kind /\ o.key = p.key

\* create_outbox closes the progress its newest row makes obsolete.
CloseSuperseded(q) ==
    LET new == Len(q)
        m   == q[new].req
        Obsolete(i) == /\ q[new].kind \in FinalKinds \cup {"progress"}
                       /\ q[i].req = m /\ q[i].kind = "progress"
                       /\ i # new \/ HasFinal(q, m)
    IN  [i \in DOMAIN q |-> IF Obsolete(i) THEN [q[i] EXCEPT !.done = TRUE]
                                           ELSE q[i]]

\* SQLiteStorage.create_outbox: an existing row is returned unchanged.  (Other
\* content under its key would raise; the callers' guards exclude that here.)
Put(q, o) == IF \E i \in DOMAIN q : Same(q[i], o) THEN q
             ELSE CloseSuperseded(Append(q, o))

New(m, kind, key, size, remember) ==
    [req |-> m, kind |-> kind, key |-> key, size |-> size, acked |-> {},
     done |-> FALSE, remember |-> remember]

Response(m, size, remember) == New(m, "response", 0, size, remember)
Notice(m, kind, key)        == New(m, kind, key, 1, FALSE)

\* Mutant: an output that is not complete is sent from its first part.
IsPendingUnlessDone(q, x) == ~q[x[1]].done

\* SQLiteStorage.is_outbox_part_pending
IsPending(q, x) == ~q[x[1]].done /\ x[2] \notin q[x[1]].acked

\* The parts of every output.
AllParts(q) == {x \in (DOMAIN q) \X (1..MaxParts) : x[2] <= q[x[1]].size}

\* SQLiteStorage.list_pending_outbox_parts, for the conversation ms or for all.
PendingParts(q, ms) == {x \in AllParts(q) : q[x[1]].req \in ms /\ IsPending(q, x)}

\* Mutant: the newest output is sent first.
IsFirstNewest(x, parts) ==
    \A y \in parts : x[1] > y[1] \/ (x[1] = y[1] /\ x[2] >= y[2])

\* x comes before the others by (created_at, id, part_index).
IsFirst(x, parts) == \A y \in parts : x[1] < y[1] \/ (x[1] = y[1] /\ x[2] <= y[2])

\* Mutant: the snapshot is sent as it was taken.
StillPendingUnchecked(q, todo) == todo

\* The rest of flush's snapshot; what is no longer pending is skipped.
StillPending(q, todo) == {x \in todo : IsPending(q, x)}

WhollyAcked(o) == o.acked = 1..o.size

-----------------------------------------------------------------------------
(* on_message and handle.                                                  *)

\* w may take its next step from pc: it is between two transactions, or it is
\* resumed by an event loop in which nobody is.
At(w, pc) == task[w].pc = pc /\ (pc \in Synchronous \/ LoopFree)

Goto(w, pc) == task' = [task EXCEPT ![w].pc = pc]

\* w forgets all but its message.
Ends(w, pc) == [Idle EXCEPT !.req = task[w].req, !.pc = pc]

\* A message that leaves the memory lock goes on to its flush; start() goes on
\* to the next message.
Leave(w) ==
    /\ task' = [task EXCEPT ![w] =
          IF w = Starter THEN Idle ELSE Ends(w, "flush")]
    /\ lock' = [c \in Conversations |-> IF lock[c] = w THEN None ELSE lock[c]]

SetStatus(m, status) == request' = [request EXCEPT ![m].status = status]

Receive(t, m) ==
    /\ Ready /\ At(t, "idle")
    /\ Redelivery \/ \A u \in Tasks : task[u].req # m
    /\ task' = [task EXCEPT ![t].req = m, ![t].pc = "lock"]
    /\ UNCHANGED <<request, arrival, job, gen, exchanges, out, shown, lock, flush,
                   recovery, used>>

\* Mutant: a coroutine does not wait for the memory lock.
LockedNever(c) == FALSE

Locked(c) == lock[c] # None

\* A coroutine takes the lock of the conversation with a snapshot of its memory.
Enter(w, c) ==
    /\ lock' = [lock EXCEPT ![c] = w]
    /\ task' = [task EXCEPT ![w].pc = "registered",
                            ![w].context = exchanges \cap c]

\* register_inbound of a new message: the request and its job, in one transaction.
Register(t) ==
    LET m == task[t].req
        c == ConvOf(m)
    IN  /\ At(t, "lock") /\ ~Locked(c)
        /\ request[m].status = "absent"
        /\ request' = [request EXCEPT ![m] =
               [status |-> "received", intent |-> IntentOf(m), gen |-> gen[c],
                payload |-> IF m \in JobMessages THEN exchanges \cap c ELSE {}]]
        /\ arrival' = Append(arrival, m)
        /\ job' = [job EXCEPT ![m] = IF m \in JobMessages THEN "queued" ELSE "none"]
        /\ Enter(t, c)
        /\ UNCHANGED <<gen, exchanges, out, shown, flush, recovery, used>>

\* Mutant: a message that is delivered again is executed again.
UnfinishedAlways(m) == job[m] = "none"

\* A registered request that handle and recovery execute (again).
Unfinished(m) ==
    /\ job[m] = "none" /\ request[m].status # "completed"
    /\ ~HasFinal(out, m)

Resume(w) ==
    LET m == task[w].req
    IN  /\ At(w, "lock") /\ ~Locked(ConvOf(m))
        /\ request[m].status # "absent" /\ Unfinished(m)
        /\ Enter(w, ConvOf(m))
        /\ UNCHANGED <<request, arrival, job, gen, exchanges, out, shown, flush,
                       recovery, used>>

Skip(w) ==
    LET m == task[w].req
    IN  /\ At(w, "lock") /\ ~Locked(ConvOf(m))
        /\ request[m].status # "absent" /\ ~Unfinished(m)
        /\ Leave(w)
        /\ UNCHANGED <<request, arrival, job, gen, exchanges, out, shown, flush,
                       recovery, used>>

Executes(w, intents) ==
    At(w, "registered") /\ request[task[w].req].intent \in intents

\* handle acknowledges a job that it has just registered.
Acknowledge(w) ==
    /\ Executes(w, {"job"})
    /\ out' = Put(out, Notice(task[w].req, "ack", 0))
    /\ Leave(w)
    /\ UNCHANGED <<request, arrival, job, gen, exchanges, shown, flush, recovery, used>>

\* _execute_registered_direct without a persisted intent: only a failure was
\* recorded, and its notice was lost.
Refuse(w) ==
    /\ Executes(w, {"none"})
    /\ SetStatus(task[w].req, "failed")
    /\ out' = Put(out, Response(task[w].req, 1, FALSE))
    /\ Leave(w)
    /\ UNCHANGED <<arrival, job, gen, exchanges, shown, flush, recovery, used>>

\* Mutant: the generation counts down.
NextGenerationDown(n) == n - 1

NextGeneration(n) == n + 1

\* MemoryStore.forget, in one transaction.
Forget(w) ==
    LET c == ConvOf(task[w].req)
    IN  /\ Executes(w, {"forget"})
        /\ SetStatus(task[w].req, "processing")
        /\ gen' = [gen EXCEPT ![c] = NextGeneration(@)]
        /\ exchanges' = exchanges \ c
        /\ Goto(w, "forgot")
        /\ UNCHANGED <<arrival, job, out, shown, lock, flush, recovery, used>>

AnswerForget(w) ==
    /\ At(w, "forgot")
    /\ out' = Put(out, Response(task[w].req, 1, FALSE))
    /\ Goto(w, "answered")
    /\ UNCHANGED <<request, arrival, job, gen, exchanges, shown, lock, flush,
                   recovery, used>>

\* A chat awaits Ollama; a query awaits the worker or the scheduler.
Ask(w) ==
    /\ Executes(w, {"chat", "query"})
    /\ SetStatus(task[w].req, "processing")
    /\ Goto(w, "backend")
    /\ UNCHANGED <<arrival, job, gen, exchanges, out, shown, lock, flush, recovery,
                   used>>

\* The answer of the model is remembered, and its last acknowledgement will
\* complete the request.
AnswerChat(w) ==
    /\ At(w, "backend") /\ request[task[w].req].intent = "chat"
    /\ \E n \in 1..MaxParts : out' = Put(out, Response(task[w].req, n, TRUE))
    /\ Leave(w)
    /\ UNCHANGED <<request, arrival, job, gen, exchanges, shown, flush, recovery, used>>

AnswerQuery(w) ==
    /\ At(w, "backend") /\ request[task[w].req].intent = "query"
    /\ \E n \in 1..MaxParts : out' = Put(out, Response(task[w].req, n, FALSE))
    /\ Goto(w, "answered")
    /\ UNCHANGED <<request, arrival, job, gen, exchanges, shown, lock, flush,
                   recovery, used>>

\* The backend fails: the request FAILED, and the answer says so.
AnswerFailure(w) ==
    /\ At(w, "backend")
    /\ SetStatus(task[w].req, "failed")
    /\ out' = Put(out, Response(task[w].req, 1, FALSE))
    /\ Leave(w)
    /\ UNCHANGED <<arrival, job, gen, exchanges, shown, flush, recovery, used>>

\* _enqueue_direct completes an answer that is not remembered.
Settle(w) ==
    /\ At(w, "answered")
    /\ SetStatus(task[w].req,
          IF request[task[w].req].status = "failed" THEN "failed" ELSE "completed")
    /\ Leave(w)
    /\ UNCHANGED <<arrival, job, gen, exchanges, out, shown, flush, recovery, used>>

\* ProgressReporter._direct_wait: a receipt first, then waiting messages.
Notify(w) ==
    LET m == task[w].req
        n == task[w].notices
    IN  /\ At(w, "backend") /\ n < MaxNotices
        /\ ~HasFinal(out, m)
        /\ out' = Put(out, IF n = 0 THEN Notice(m, "ack", 1)
                                    ELSE Notice(m, "progress", n))
        /\ task' = [task EXCEPT ![w].notices = n + 1]
        /\ UNCHANGED <<request, arrival, job, gen, exchanges, shown, lock, flush,
                       recovery, used>>

-----------------------------------------------------------------------------
(* Failures of a coroutine, and recovery.                                  *)

\* An exception leaves handle, or start's try block, and releases the lock.
Raise(w) ==
    /\ \E pc \in {"lock", "registered", "forgot", "backend", "answered"} : At(w, pc)
    /\ w = Starter => task[w].pc # "lock"
    /\ used.failures < MaxFailures
    /\ used' = [used EXCEPT !.failures = @ + 1]
    /\ task' = [task EXCEPT ![w] = Ends(w, "failing")]
    /\ lock' = [c \in Conversations |-> IF lock[c] = w THEN None ELSE lock[c]]
    /\ UNCHANGED <<request, arrival, job, gen, exchanges, out, shown, flush, recovery>>

\* Mutant: the recorded failure does not look for an answer.
AnsweredIgnored(m) == job[m] # "none" \/ request[m].status = "completed"

\* What an adapter failure must not overwrite.
Answered(m) == job[m] # "none" \/ HasFinal(out, m) \/ request[m].status = "completed"

\* record_processing_failure, up to the status; it may have to register first.
RecordFailure(t) ==
    LET m == task[t].req
    IN  /\ t # Starter /\ At(t, "failing")
        /\ IF Answered(m)
           THEN Goto(t, "flush") /\ UNCHANGED <<request, arrival>>
           ELSE /\ Goto(t, "reported")
                /\ IF request[m].status = "absent"
                   THEN /\ request' = [request EXCEPT ![m] =
                              [status |-> "failed", intent |-> "none",
                               gen |-> gen[ConvOf(m)], payload |-> {}]]
                        /\ arrival' = Append(arrival, m)
                   ELSE SetStatus(m, "failed") /\ UNCHANGED arrival
        /\ UNCHANGED <<job, gen, exchanges, out, shown, lock, flush, recovery, used>>

ReportFailure(t) ==
    /\ At(t, "reported")
    /\ out' = Put(out, New(task[t].req, "error", 0, 1, FALSE))
    /\ Goto(t, "flush")
    /\ UNCHANGED <<request, arrival, job, gen, exchanges, shown, lock, flush,
                   recovery, used>>

\* Nothing can be recorded: the only trace is an untracked Discord message.
GiveUp(t) ==
    /\ StorageFails
    /\ t # Starter /\ \E pc \in {"failing", "reported"} : At(t, pc)
    /\ Goto(t, "done")
    /\ UNCHANGED <<request, arrival, job, gen, exchanges, out, shown, lock, flush,
                   recovery, used>>

\* The except clause of _recover_direct_message.
RecoverFailure ==
    LET m == task[Starter].req
    IN  /\ At(Starter, "failing")
        /\ IF HasFinal(out, m)
           THEN UNCHANGED <<request, out>>
           ELSE SetStatus(m, "failed") /\ out' = Put(out, Response(m, 1, FALSE))
        /\ task' = [task EXCEPT ![Starter] = Idle]
        /\ UNCHANGED <<arrival, job, gen, exchanges, shown, lock, flush, recovery, used>>

\* When m was registered.
Position(m) == CHOOSE n \in DOMAIN arrival : arrival[n] = m

RecoverNext ==
    /\ At(Starter, "idle")
    /\ \E m \in recovery :
          /\ \A k \in recovery : Position(m) <= Position(k)
          /\ task' = [task EXCEPT ![Starter].req = m, ![Starter].pc = "lock"]
          /\ recovery' = recovery \ {m}
    /\ UNCHANGED <<request, arrival, job, gen, exchanges, out, shown, lock, flush, used>>

\* SQLiteStorage.list_recoverable_direct_messages
Recoverable(m) ==
    /\ job[m] = "none" /\ request[m].status \in {"received", "processing", "failed"}
    /\ ~HasFinal(out, m)

-----------------------------------------------------------------------------
(* Heavy jobs, as far as their outputs go.                                 *)

Progress(m) == {i \in DOMAIN out : out[i].req = m /\ out[i].kind = "progress"}

\* ProgressReporter._persist_phase and emit_heartbeats: each has a fresh key.
JobProgress(m) ==
    /\ Ready /\ LoopFree
    /\ job[m] \in {"queued", "active"} /\ ~HasFinal(out, m)
    /\ Cardinality(Progress(m)) < MaxNotices
    /\ out' = Put(out, Notice(m, "progress", Cardinality(Progress(m)) + 1))
    /\ UNCHANGED <<request, arrival, job, gen, exchanges, shown, task, lock, flush,
                   recovery, used>>

\* The scheduler claims the job, whose payload is the prompt it works from.
StartJob(m) ==
    /\ Ready /\ LoopFree
    /\ job[m] = "queued"
    /\ job' = [job EXCEPT ![m] = "active"]
    /\ UNCHANGED <<request, arrival, gen, exchanges, out, shown, task, lock, flush,
                   recovery, used>>

\* A job that never started can only be cancelled.
EndJob(m) ==
    /\ Ready /\ LoopFree
    /\ \/ job[m] = "active" /\ job' = [job EXCEPT ![m] = "kept"]
       \/ job[m] \in {"queued", "active"} /\ job' = [job EXCEPT ![m] = "dropped"]
    /\ UNCHANGED <<request, arrival, gen, exchanges, out, shown, task, lock, flush,
                   recovery, used>>

\* _on_job_finished: a failure marks the request, a cancellation does not.
NotifyJob(m) ==
    /\ Ready /\ LoopFree
    /\ job[m] \in {"kept", "dropped"} /\ ~HasFinal(out, m)
    /\ \/ UNCHANGED request
       \/ job[m] = "dropped" /\ SetStatus(m, "failed")
    /\ \E n \in 1..MaxParts : out' = Put(out, Response(m, n, job[m] = "kept"))
    /\ UNCHANGED <<arrival, job, gen, exchanges, shown, task, lock, flush, recovery,
                   used>>

\* mark_job_notification_completed, once the final output is stored.
MarkNotified(m) ==
    /\ Ready /\ LoopFree
    /\ job[m] \in {"kept", "dropped"} /\ HasFinal(out, m)
    /\ job' = [job EXCEPT ![m] = "notified"]
    /\ UNCHANGED <<request, arrival, gen, exchanges, out, shown, task, lock, flush,
                   recovery, used>>

-----------------------------------------------------------------------------
(* Delivery.  flush.part is being sent, flush.todo is the rest.            *)

\* The flush by w goes on with the first of the parts that are left, or ends and
\* releases the delivery lock.
Proceed(w, parts) ==
    /\ IF parts = {}
       THEN flush' = Unflushed
       ELSE \E x \in parts :
               /\ IsFirst(x, parts)
               /\ flush' = [by |-> w, part |-> x, todo |-> parts \ {x}]
    /\ IF w = None THEN UNCHANGED task
       ELSE Goto(w, IF parts = {} THEN "done" ELSE "flushing")

\* on_message flushes its conversation once it holds the delivery lock.
FlushOwn(t) ==
    /\ At(t, "flush") /\ flush = Unflushed
    /\ Proceed(t, PendingParts(out, ConvOf(task[t].req)))
    /\ UNCHANGED <<request, arrival, job, gen, exchanges, out, shown, lock, recovery,
                   used>>

\* _delivery_loop and on_ready flush whatever is pending.
FlushAll ==
    /\ Ready /\ LoopFree /\ flush = Unflushed
    /\ PendingParts(out, Messages) # {}
    /\ Proceed(None, PendingParts(out, Messages))
    /\ UNCHANGED <<request, arrival, job, gen, exchanges, out, shown, lock, recovery,
                   used>>

\* Mutant: an exchange enters memory whatever was forgotten meanwhile.
RemembersAnyway(o) == o.remember

\* The conversation has not been forgotten since the request was registered.
Remembers(o) == o.remember /\ request[o.req].gen = gen[ConvOf(o.req)]

\* Discord accepts the part: acknowledge_outbox_part, then the next part.
Sent ==
    LET x == flush.part
        acked == [out EXCEPT ![x[1]].acked = @ \cup {x[2]}]
        o == acked[x[1]]
        completes == WhollyAcked(o) /\ ~o.done
    IN  /\ LoopFree /\ flush # Unflushed
        /\ shown' = Append(shown, x)
        /\ out' = IF completes THEN [acked EXCEPT ![x[1]].done = TRUE] ELSE acked
        /\ exchanges' = IF completes /\ Remembers(o) THEN exchanges \cup {o.req}
                                                     ELSE exchanges
        /\ IF completes /\ o.remember THEN SetStatus(o.req, "completed")
                                      ELSE UNCHANGED request
        /\ Proceed(flush.by, StillPending(out', flush.todo))
        /\ UNCHANGED <<arrival, job, gen, lock, recovery, used>>

\* What was being sent when a flush broke off may have been shown.
BreakOff == \/ UNCHANGED shown
            \/ flush # Unflushed /\ shown' = Append(shown, flush.part)

\* The send raises, or its answer is lost: the flush ends.
SendFails ==
    /\ LoopFree /\ flush # Unflushed
    /\ used.losses < MaxLosses
    /\ used' = [used EXCEPT !.losses = @ + 1]
    /\ BreakOff
    /\ Proceed(flush.by, {})
    /\ UNCHANGED <<request, arrival, job, gen, exchanges, out, lock, recovery>>

\* The process ends at any point and starts again: setup_hook opens the same
\* database and start() lists what it must recover.
Crash ==
    /\ used.crashes < MaxCrashes
    /\ used' = [used EXCEPT !.crashes = @ + 1]
    /\ BreakOff
    /\ task' = [w \in Workers |->
          IF w = Starter \/ task[w].pc = "idle" THEN Idle
          ELSE Ends(w, "done")]
    /\ lock' = [c \in Conversations |-> None]
    /\ flush' = Unflushed
    /\ recovery' = {m \in Messages : Recoverable(m)}
    /\ UNCHANGED <<request, arrival, job, gen, exchanges, out>>

\* Everything is answered and delivered: only a new message could follow.
Rest ==
    /\ Ready /\ flush = Unflushed
    /\ \A t \in Tasks : task[t].pc = "done" \/ (task[t].pc = "idle" /\ ~Redelivery)
    /\ PendingParts(out, Messages) = {}
    /\ \A m \in Messages : job[m] \in {"none", "notified"}
    /\ UNCHANGED vars

-----------------------------------------------------------------------------
Init ==
    /\ request = [m \in Messages |-> NoRequest]
    /\ arrival = <<>>
    /\ job = [m \in Messages |-> "none"]
    /\ gen = [c \in Conversations |-> 0]
    /\ exchanges = {}
    /\ out = <<>>
    /\ shown = <<>>
    /\ task = [w \in Workers |-> Idle]
    /\ lock = [c \in Conversations |-> None]
    /\ flush = Unflushed
    /\ recovery = {}
    /\ used = [crashes |-> 0, failures |-> 0, losses |-> 0]

\* What the event loop runs without anything new from outside.
Execute(w) ==
    \/ Register(w) \/ Resume(w) \/ Skip(w)
    \/ Acknowledge(w) \/ Refuse(w) \/ Forget(w) \/ AnswerForget(w)
    \/ Ask(w) \/ AnswerChat(w) \/ AnswerQuery(w) \/ AnswerFailure(w) \/ Settle(w)

Handle(t)  == Execute(t) \/ RecordFailure(t) \/ ReportFailure(t) \/ FlushOwn(t)
Recover    == Execute(Starter) \/ RecoverFailure \/ RecoverNext
RunJob(m)  == StartJob(m) \/ EndJob(m) \/ NotifyJob(m) \/ MarkNotified(m)
Deliver    == FlushAll \/ Sent

Next ==
    \/ \E t \in Tasks, m \in Messages : Receive(t, m)
    \/ \E t \in Tasks : Handle(t) \/ GiveUp(t)
    \/ \E w \in Workers : Notify(w) \/ Raise(w)
    \/ Recover
    \/ \E m \in Messages : RunJob(m) \/ JobProgress(m)
    \/ Deliver \/ SendFails
    \/ Crash
    \/ Rest

Spec == Init /\ [][Next]_vars

\* The event loop runs every coroutine that is ready, backends answer or time
\* out, jobs end, and a send to Discord is tried again until it succeeds.
Fairness ==
    /\ \A t \in Tasks : WF_vars(Handle(t))
    /\ WF_vars(Recover)
    /\ \A m \in Messages : WF_vars(RunJob(m))
    /\ WF_vars(Deliver)

FairSpec == Spec /\ Fairness

-----------------------------------------------------------------------------
(* What must hold.                                                         *)

\* Every variable has its type; the lock and the flush belong to coroutines.
TypeOK ==
    /\ request \in [Messages -> Request]
    /\ arrival \in Seq(Messages)
    /\ job \in [Messages -> JobStates]
    /\ gen \in [Conversations -> Nat]
    /\ exchanges \subseteq Messages
    /\ out \in Seq(Output)
    /\ shown \in Seq((DOMAIN out) \X (1..MaxParts))
    /\ task \in [Workers -> Worker]
    /\ lock \in [Conversations -> Workers \cup {None}]
    /\ flush \in [by: Tasks \cup {None}, part: AllParts(out) \cup {NoPart},
                 todo: SUBSET AllParts(out)]
    /\ recovery \subseteq Messages
    /\ used \in [crashes: Nat, failures: Nat, losses: Nat]

IsShown(i, p) == \E n \in DOMAIN shown : shown[n] = <<i, p>>

\* Memory holds exactly the exchanges whose remembered answer was acknowledged
\* to its last part and whose conversation was not forgotten since the message
\* was registered, and the user has seen every part of them (the last ACK,
\* forget_conversation).
MemoryIsWhatWasDelivered ==
    \A m \in Messages :
        LET Delivered(i) == out[i].req = m /\ out[i].remember /\ out[i].done
        IN  /\ m \in exchanges <=>
                 /\ \E i \in DOMAIN out : Delivered(i)
                 /\ request[m].gen = gen[ConvOf(m)]
            /\ \A i \in DOMAIN out :
                 Delivered(i) => \A p \in 1..out[i].size : IsShown(i, p)

\* The user sees a part again only when a send broke off without an
\* acknowledgement: never more repetitions than losses and crashes.
RepeatsAreLostAcks ==
    Len(shown) <= Cardinality({shown[n] : n \in DOMAIN shown})
                    + used.losses + used.crashes

\* While the model generates a chat answer, nothing of its prompt is forgotten:
\* the memory lock keeps a forget of the same conversation out.
ChatUsesLiveMemory ==
    \A w \in Workers :
        task[w].pc = "backend" /\ request[task[w].req].intent = "chat"
            => task[w].context \subseteq exchanges

\* A request gets one final output, however often it is executed, recovered
\* or reported as failed.
OneFinalOutput ==
    \A i, k \in DOMAIN out :
        /\ out[i].req = out[k].req
        /\ out[i].kind \in FinalKinds /\ out[k].kind \in FinalKinds
        => i = k

\* A job is started on what its conversation still remembers (rules/memory.md:
\* the core forgets before it generates another answer).
AnswersUseLiveMemory ==
    [][\A m \in JobMessages :
          StartJob(m) => request[m].payload \subseteq exchanges]_vars

\* A forget erases only what was registered before it, also when it is
\* executed again by the recovery.
ForgetErasesOnlyOlder ==
    [][\A m \in exchanges \ exchanges' :
          \E w \in Workers :
             /\ Executes(w, {"forget"})
             /\ Position(m) < Position(task[w].req)]_vars

\* A send never begins for a waiting message whose answer is already stored, or
\* that a newer one replaced, even if the snapshot of the flush is older.
NothingObsoleteIsSent ==
    [][flush'.part \notin {NoPart, flush.part} =>
          LET i == flush'.part[1]
          IN  out'[i].kind = "progress" =>
                /\ ~HasFinal(out', out'[i].req)
                /\ ~\E k \in DOMAIN out' :
                      /\ k > i /\ out'[k].req = out'[i].req
                      /\ out'[k].kind = "progress"]_vars

\* The outbox as the user's reading of it.
Posts == [i \in DOMAIN out |->
    [conv |-> ConvOf(out[i].req), size |-> out[i].size,
     waiting |-> out[i].kind = "progress", open |-> ~out[i].done]]

Reading == INSTANCE ReliableDelivery WITH Largest <- MaxParts, posted <- Posts

\* The user reads whole outputs in order, whatever crashes and losses repeat
\* (docs/superpowers/plans/2026-09-06-discord-harness.md: pending parts resume
\* in creation order).
ImplementsReliableDelivery == Reading!Spec

\* Every registered message is answered to the end, unless nothing could be
\* recorded of its failure.
EveryRequestIsAnswered ==
    \A m \in Messages :
        (request[m].status # "absent") ~>
            (\E i \in DOMAIN out :
                out[i].req = m /\ out[i].kind \in FinalKinds /\ out[i].done)
=============================================================================
